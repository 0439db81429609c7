---------------------------- MODULE BringUpProofs ----------------------------
(***************************************************************************)
(* Proofs about BringUp and the Handshake it is composed with, for every    *)
(* exchange, setting, size, capability list and number of reactivations.    *)
(***************************************************************************)
EXTENDS BringUp, SequenceTheorems, WellFoundedInduction, TLAPS

-----------------------------------------------------------------------------
(* Recursion over the messages of a list and the capabilities of a list *)

\* A nonempty set of naturals has a least element.
LEMMA LeastNat ==
  ASSUME NEW T, T \subseteq Nat, T # {}
  PROVE  \E x \in T : \A y \in T : x <= y
<1>1. \E x \in T : \A y \in T : ~ (<<y, x>> \in OpToRel(<, Nat))
  BY NatLessThanWellFounded, WFMin, Zenon DEF OpToRel
<1>2. PICK x \in T : \A y \in T : ~ (<<y, x>> \in OpToRel(<, Nat))
  BY <1>1, Zenon
<1>3. \A y \in T : ~(y < x)
  BY <1>2 DEF OpToRel
<1> QED
  BY <1>3

\* Induction up to N.
LEMMA UpTo ==
  ASSUME NEW N \in Nat, NEW T, 0 \in T, \A n \in 0..N : n < N /\ n \in T => n + 1 \in T
  PROVE  0..N \subseteq T
<1> SUFFICES ASSUME (0..N) \ T # {} PROVE FALSE
  OBVIOUS
<1> DEFINE U == (0..N) \ T
<1>1. PICK x \in U : \A y \in U : x <= y
  <2>1. U \subseteq Nat /\ U # {}
    OBVIOUS
  <2> HIDE DEF U
  <2> QED
    BY <2>1, LeastNat
<1>2. x # 0 /\ x - 1 \in 0..N /\ x - 1 \in T
  BY <1>1
<1> QED
  BY <1>1, <1>2

\* AfterAll takes one message after the other.
LEMMA AfterAllSteps ==
  ASSUME NEW s, NEW ms, Len(ms) \in Nat
  PROVE  \E h : /\ h[0] = s
                /\ \A n \in 1..Len(ms) : h[n] = Receive(h[n - 1], ms[n])
                /\ AfterAll(s, ms) = h[Len(ms)]
<1> DEFINE L == Len(ms)
           Is(f, m) == f = [n \in 0..m |-> IF n = 0 THEN s ELSE Receive(f[n - 1], ms[n])]
           T == {m \in 0..L : \E f : Is(f, m)}
<1>1. 0 \in T
  <2>1. Is([n \in 0..0 |-> s], 0)
    OBVIOUS
  <2>2. 0 \in 0..L
    OBVIOUS
  <2> HIDE DEF Is
  <2> QED
    BY <2>1, <2>2
<1>2. ASSUME NEW m \in 0..L, m < L, m \in T PROVE m + 1 \in T
  <2>1. PICK f : Is(f, m)
    BY <1>2
  <2> DEFINE g == [n \in 0..(m + 1) |-> IF n = m + 1 THEN Receive(f[m], ms[m + 1]) ELSE f[n]]
  <2>2. ASSUME NEW n \in 0..(m + 1)
        PROVE  g[n] = IF n = 0 THEN s ELSE Receive(g[n - 1], ms[n])
    <3>1. CASE n = 0
      BY <2>1, <3>1
    <3>2. CASE n = m + 1
      <4>1. g[m] = f[m] /\ n - 1 = m
        BY <3>2
      <4> QED
        BY <3>2, <4>1
    <3>3. CASE n # 0 /\ n # m + 1
      <4>1. n \in 0..m /\ n - 1 \in 0..(m + 1) /\ n - 1 # m + 1
        BY <3>3
      <4>2. f[n] = Receive(f[n - 1], ms[n])
        BY <2>1, <3>3, <4>1
      <4> QED
        BY <3>3, <4>1, <4>2
    <3> QED
      BY <3>1, <3>2, <3>3
  <2>3. Is(g, m + 1)
    BY <2>2
  <2>4. m + 1 \in 0..L
    BY <1>2
  <2> HIDE DEF Is
  <2> QED
    BY <2>3, <2>4
<1>3. L \in T
  <2> HIDE DEF T
  <2>1. 0..L \subseteq T
    BY <1>1, <1>2, UpTo
  <2> QED
    BY <2>1
<1>4. PICK f : Is(f, L)
  BY <1>3
<1> DEFINE h == CHOOSE f1 : Is(f1, L)
<1>5. Is(h, L)
  BY <1>4
<1>6. AfterAll(s, ms) = h[L]
  BY DEF AfterAll
<1> HIDE DEF h
<1>7. h[0] = s /\ \A n \in 1..L : h[n] = Receive(h[n - 1], ms[n])
  BY <1>5
<1> QED
  BY <1>6, <1>7

\* CapsLen adds one length after the other to the four bytes before them.
LEMMA CapsLenSteps ==
  ASSUME NEW caps, Len(caps) \in Nat
  PROVE  \E h : /\ h[0] = 4
                /\ \A n \in 1..Len(caps) : h[n] = h[n - 1] + caps[n].len
                /\ CapsLen(caps) = h[Len(caps)]
<1> DEFINE L == Len(caps)
           Is(f, m) == f = [n \in 0..m |-> IF n = 0 THEN 4 ELSE f[n - 1] + caps[n].len]
           T == {m \in 0..L : \E f : Is(f, m)}
<1>1. 0 \in T
  <2>1. Is([n \in 0..0 |-> 4], 0)
    OBVIOUS
  <2>2. 0 \in 0..L
    OBVIOUS
  <2> HIDE DEF Is
  <2> QED
    BY <2>1, <2>2
<1>2. ASSUME NEW m \in 0..L, m < L, m \in T PROVE m + 1 \in T
  <2>1. PICK f : Is(f, m)
    BY <1>2
  <2> DEFINE g == [n \in 0..(m + 1) |-> IF n = m + 1 THEN f[m] + caps[m + 1].len ELSE f[n]]
  <2>2. ASSUME NEW n \in 0..(m + 1)
        PROVE  g[n] = IF n = 0 THEN 4 ELSE g[n - 1] + caps[n].len
    <3>1. CASE n = 0
      BY <2>1, <3>1
    <3>2. CASE n = m + 1
      <4>1. g[m] = f[m] /\ n - 1 = m
        BY <3>2
      <4> QED
        BY <3>2, <4>1
    <3>3. CASE n # 0 /\ n # m + 1
      <4>1. n \in 0..m /\ n - 1 \in 0..(m + 1) /\ n - 1 # m + 1
        BY <3>3
      <4>2. f[n] = f[n - 1] + caps[n].len
        BY <2>1, <3>3, <4>1
      <4> QED
        BY <3>3, <4>1, <4>2
    <3> QED
      BY <3>1, <3>2, <3>3
  <2>3. Is(g, m + 1)
    BY <2>2
  <2>4. m + 1 \in 0..L
    BY <1>2
  <2> HIDE DEF Is
  <2> QED
    BY <2>3, <2>4
<1>3. L \in T
  <2> HIDE DEF T
  <2>1. 0..L \subseteq T
    BY <1>1, <1>2, UpTo
  <2> QED
    BY <2>1
<1>4. PICK f : Is(f, L)
  BY <1>3
<1> DEFINE h == CHOOSE f1 : Is(f1, L)
<1>5. Is(h, L)
  BY <1>4
<1>6. CapsLen(caps) = h[L]
  BY DEF CapsLen
<1> HIDE DEF h
<1>7. h[0] = 4 /\ \A n \in 1..L : h[n] = h[n - 1] + caps[n].len
  BY <1>5
<1> QED
  BY <1>6, <1>7

\* A capability that changes its length changes the sum by as much.
LEMMA CapsLenOfPadded ==
  ASSUME NEW caps \in Seq(Capability), NEW at \in DOMAIN caps, NEW len \in Nat
  PROVE  /\ CapsLen(caps) \in Nat
         /\ CapsLen([caps EXCEPT ![at].len = len]) = CapsLen(caps) + (len - caps[at].len)
<1> DEFINE new == [caps EXCEPT ![at].len = len]
           L == Len(caps)
<1>1. /\ L \in Nat /\ Len(new) = L /\ at \in 1..L /\ new[at].len = len
      /\ \A n \in 1..L : caps[n].len \in Nat /\ (n # at => new[n].len = caps[n].len)
  <2>1. L \in Nat /\ DOMAIN caps = 1..L /\ \A n \in 1..L : caps[n] \in Capability
    OBVIOUS
  <2>2. new = [n \in 1..L |-> IF n = at THEN [caps[n] EXCEPT !.len = len] ELSE caps[n]]
    BY <2>1
  <2>3. Len(new) = L
    BY <2>1, <2>2
  <2>4. \A n \in 1..L : caps[n].len \in Nat
    BY <2>1 DEF Capability
  <2>5. new[at].len = len /\ \A n \in 1..L : n # at => new[n].len = caps[n].len
    BY <2>1, <2>2 DEF Capability
  <2> QED
    BY <2>1, <2>3, <2>4, <2>5
<1> HIDE DEF new
<1>2. PICK h : /\ h[0] = 4 /\ \A n \in 1..L : h[n] = h[n - 1] + caps[n].len
               /\ CapsLen(caps) = h[L]
  BY <1>1, CapsLenSteps
<1>3. PICK g : /\ g[0] = 4 /\ \A n \in 1..L : g[n] = g[n - 1] + new[n].len
               /\ CapsLen(new) = g[L]
  BY <1>1, CapsLenSteps
<1> DEFINE T == {n \in 0..L : /\ h[n] \in Nat
                              /\ g[n] = h[n] + (IF n < at THEN 0 ELSE len - caps[at].len)}
<1>4. 0 \in T
  BY <1>1, <1>2, <1>3
<1>5. ASSUME NEW n \in 0..L, n < L, n \in T PROVE n + 1 \in T
  <2>1. n + 1 \in 1..L /\ (n + 1) - 1 = n
    BY <1>1, <1>5
  <2>2. h[n + 1] = h[n] + caps[n + 1].len /\ g[n + 1] = g[n] + new[n + 1].len
    BY <1>2, <1>3, <2>1
  <2>3. h[n] \in Nat /\ g[n] = h[n] + (IF n < at THEN 0 ELSE len - caps[at].len)
    BY <1>5
  <2>4. caps[n + 1].len \in Nat /\ caps[at].len \in Nat
    BY <1>1, <2>1
  <2>5. CASE n + 1 = at
    BY <1>1, <2>1, <2>2, <2>3, <2>4, <2>5
  <2>6. CASE n + 1 # at
    <3>1. new[n + 1].len = caps[n + 1].len
      BY <1>1, <2>1, <2>6
    <3>2. n + 1 < at <=> n < at
      BY <1>1, <2>6
    <3>3. h[n + 1] \in Nat
      BY <2>2, <2>3, <2>4
    <3>4. CASE n < at
      BY <2>1, <2>2, <2>3, <2>4, <3>1, <3>2, <3>3, <3>4
    <3>5. CASE ~(n < at)
      <4>1. g[n + 1] = h[n + 1] + (len - caps[at].len)
        BY <2>2, <2>3, <2>4, <3>1, <3>5
      <4> QED
        BY <2>1, <3>2, <3>3, <3>5, <4>1
    <3> QED
      BY <3>4, <3>5
  <2> QED
    BY <2>5, <2>6
<1>6. L \in T
  <2> HIDE DEF T
  <2>1. 0..L \subseteq T
    BY <1>1, <1>4, <1>5, UpTo
  <2> QED
    BY <1>1, <2>1
<1>7. h[L] \in Nat /\ g[L] = h[L] + (len - caps[at].len)
  BY <1>1, <1>6
<1> QED
  BY <1>2, <1>3, <1>7 DEF new

-----------------------------------------------------------------------------
(* The DemandActive *)

\* A list of whole capabilities is decoded as it comes.
LEMMA WholeDecodes ==
  ASSUME NEW share, NEW size, NEW caps, CapsLen(caps) \in Nat,
         \A i \in DOMAIN caps : ~Short(caps[i])
  PROVE  Decodes(Demand(share, size, caps))
<1> DEFINE d == Demand(share, size, caps)
           total == DemandOverhead + CapsLen(caps)
<1>1. /\ d.frame.caps = caps /\ d.frame.lcc = CapsLen(caps) /\ d.frame.total = total
      /\ d.frame.mcs = total /\ d.tpkt = TpktOverhead(d.frame) + d.frame.total
  BY DEF Demand
<1> QED
  BY <1>1 DEF Decodes

\* A capability list is a sequence of capabilities; its length is a number.
LEMMA CapListsAre ==
  ASSUME NEW caps \in CapLists
  PROVE  caps \in Seq(Capability) /\ CapsLen(caps) \in Nat
<1>1. caps \in Seq(Capability) /\ Len(caps) \in Nat /\ DOMAIN caps = 1..Len(caps)
  BY BringUpAssumption
<1>2. CASE Len(caps) = 0
  <2>1. PICK h : h[0] = 4 /\ CapsLen(caps) = h[Len(caps)]
    BY <1>1, CapsLenSteps
  <2> QED
    BY <1>1, <1>2, <2>1
<1>3. CASE Len(caps) # 0
  <2>1. 1 \in DOMAIN caps /\ 0 \in Nat
    BY <1>1, <1>3
  <2> QED
    BY <1>1, <2>1, CapsLenOfPadded
<1> QED
  BY <1>2, <1>3

\* The padded DemandActive decodes, whichever capability was short, exactly when the
\* padding does not meet what is beyond it.
LEMMA PaddedDecodes ==
  ASSUME NEW share, NEW size, NEW caps \in CapLists
  PROVE  LET dem == Demand(share, size, caps)
             d == FixShortRev2(dem)
         IN  (Decodes(d) <=> ~Beyond(dem.frame)) /\ d.frame.size = size
<1>1. /\ caps \in Seq(Capability) /\ CapsLen(caps) \in Nat
      /\ DOMAIN caps = 1..Len(caps) /\ Len(caps) \in Nat
  BY CapListsAre
<1>2. PICK len \in Nat : len = CapsLen(caps)
  BY <1>1
<1>3. PICK total \in Nat : total = DemandOverhead + len /\ total < McsLimit
  BY <1>2, LengthAssumption DEF DemandOverhead
<1>4. PICK f : f = [share |-> share, size |-> size, caps |-> caps, lcc |-> len,
                    total |-> total, mcs |-> total, wide |-> total >= 128]
  OBVIOUS
<1>5. PICK dem : dem = [kind |-> "demand", frame |-> f, tpkt |-> TpktOverhead(f) + total]
  OBVIOUS
<1>6. dem = Demand(share, size, caps) /\ dem.frame = f /\ f.caps = caps /\ f.total = total
  BY <1>2, <1>3, <1>4, <1>5 DEF Demand
<1>7. PICK I : I = {i \in 1..Len(caps) : Short(caps[i])}
  OBVIOUS
<1>8. PICK at : at = SelectInSeq(caps, Short)
  OBVIOUS
<1>9. at = IF I # {} THEN Min(I) ELSE 0
  BY <1>7, <1>8 DEF SelectInSeq
<1>10. CASE I = {}
  <2>1. at = 0
    BY <1>9, <1>10
  <2>2. FixShortRev2(dem) = dem
    BY <1>6, <1>8, <2>1 DEF FixShortRev2
  <2>3. \A i \in DOMAIN caps : ~Short(caps[i])
    BY <1>1, <1>7, <1>10
  <2>4. Decodes(dem) /\ dem.frame.size = size
    BY <1>1, <1>4, <1>6, <2>3, WholeDecodes
  <2>5. ~Beyond(dem.frame)
    BY <1>6, <2>3 DEF Beyond
  <2> QED
    BY <1>6, <2>2, <2>4, <2>5
<1>11. CASE I # {}
  <2>1. I \subseteq Nat
    BY <1>1, <1>7
  <2>2. \E x \in I : \A y \in I : x <= y
    BY <1>11, <2>1, LeastNat
  <2>3. at \in I
    BY <1>9, <1>11, <2>2 DEF Min
  <2>4. at \in DOMAIN caps /\ Short(caps[at]) /\ at # 0
    BY <1>1, <1>7, <2>3
  <2>5. caps[at] \in Capability
    BY <1>1, <2>4
  <2>6. PICK old \in Nat : old = caps[at].len
    BY <2>5 DEF Capability
  <2>7. PICK p \in Int : p = Rev2Full - old /\ p > 0 /\ p <= 40
    BY <2>4, <2>6 DEF Rev2Full, Short
  <2>8. PICK new : new = [caps EXCEPT ![at].len = Rev2Full]
    OBVIOUS
  <2>9. CapsLen(new) = len + p
    <3>1. Rev2Full \in Nat
      BY DEF Rev2Full
    <3> QED
      BY <1>1, <1>2, <2>4, <2>6, <2>7, <2>8, <3>1, CapsLenOfPadded
  <2>10. PICK alone \in BOOLEAN : alone = \A j \in DOMAIN caps : Short(caps[j]) => j = at
    OBVIOUS
  <2>11. (\A i \in DOMAIN new : ~Short(new[i])) <=> alone
    <3>1. DOMAIN new = DOMAIN caps /\ new[at] = [caps[at] EXCEPT !.len = Rev2Full]
          /\ \A i \in DOMAIN caps : i # at => new[i] = caps[i]
      BY <2>4, <2>8
    <3>2. new[at].len = Rev2Full
      BY <2>5, <3>1 DEF Capability
    <3>3. ~Short(new[at])
      BY <3>2 DEF Short, Rev2Full
    <3> QED
      BY <2>10, <3>1, <3>3
  <2>12. PICK m : m = IF total >= 128 THEN (total + p) % McsLimit ELSE total
    OBVIOUS
  <2>13. PICK g : g = [f EXCEPT !.caps[at].len = Rev2Full, !.lcc = f.lcc + p,
                                !.total = f.total + p,
                                !.mcs = IF f.wide THEN (f.mcs + p) % McsLimit ELSE f.mcs]
    OBVIOUS
  <2>14. /\ g.caps = new /\ g.lcc = len + p /\ g.total = total + p
         /\ g.mcs = m /\ g.size = size /\ g.wide = f.wide
    <3>1. /\ f.caps = caps /\ f.lcc = len /\ f.total = total /\ f.mcs = total
          /\ f.wide = (total >= 128) /\ f.size = size
          /\ DOMAIN f = {"share", "size", "caps", "lcc", "total", "mcs", "wide"}
      BY <1>4
    <3>2. g.caps = new
      BY <2>8, <2>13, <3>1
    <3>3. g.lcc = len + p
      BY <2>13, <3>1
    <3>4. g.total = total + p
      BY <2>13, <3>1
    <3>5. g.mcs = m
      BY <2>12, <2>13, <3>1
    <3>6. g.size = size /\ g.wide = f.wide
      BY <2>13, <3>1
    <3> QED
      BY <3>2, <3>3, <3>4, <3>5, <3>6
  <2>15. FixShortRev2(dem) = [dem EXCEPT !.frame = g, !.tpkt = dem.tpkt + p]
    BY <1>6, <1>8, <2>4, <2>6, <2>7, <2>13 DEF FixShortRev2
  <2>16. PICK over \in Nat : over = TpktOverhead(f) /\ over = TpktOverhead(g)
    BY <2>14 DEF TpktOverhead
  <2>17. PICK d : d = FixShortRev2(dem)
    OBVIOUS
  <2>18. d.frame = g /\ d.tpkt = (over + total) + p
    BY <1>5, <2>15, <2>16, <2>17
  <2>19. total + p = DemandOverhead + (len + p) /\ (over + total) + p = over + (total + p)
    BY <1>3, <2>16 DEF DemandOverhead
  <2>20. Decodes(d) <=> alone /\ m = total + p
    BY <2>9, <2>11, <2>14, <2>16, <2>18, <2>19 DEF Decodes
  <2>21. m = total + p <=> total >= 128 /\ total + p < McsLimit
    BY <1>3, <2>7, <2>12 DEF McsLimit
  <2>22. Beyond(f) <=> ~alone \/ total < 128 \/ total + p >= McsLimit
    <3>1. Beyond(f) <=>
             \E i \in DOMAIN caps :
                /\ Short(caps[i])
                /\ \/ \E j \in DOMAIN caps : j # i /\ Short(caps[j])
                   \/ total < 128
                   \/ total + (Rev2Full - caps[i].len) >= McsLimit
      BY <1>6 DEF Beyond
    <3>2. p = Rev2Full - caps[at].len
      BY <2>6, <2>7
    <3>3. CASE alone
      BY <2>4, <2>10, <3>1, <3>2, <3>3
    <3>4. CASE ~alone
      BY <2>4, <2>10, <3>1, <3>4
    <3> QED
      BY <3>3, <3>4
  <2>23. total < 128 <=> ~(total >= 128)
    BY <1>3
  <2>24. total + p >= McsLimit <=> ~(total + p < McsLimit)
    BY <1>3, <2>7 DEF McsLimit
  <2> QED
    BY <1>6, <2>14, <2>17, <2>18, <2>20, <2>21, <2>22, <2>23, <2>24
<1> QED
  BY <1>10, <1>11

-----------------------------------------------------------------------------
(* What the server makes of the client's PDUs *)

MessageKinds == {"confirm", "event", "takeover", "reply", "wlc", "keys", "output", "refresh"}

\* What no PDU of the client changes.
Heeds(s, x) ==
    /\ x \in ServerState
    /\ x.share = s.share /\ x.desktop = s.desktop /\ x.attached = s.attached
    /\ x.rounds = s.rounds /\ x.deactivated = s.deactivated
    /\ x.stamps \subseteq s.stamps /\ (s.painted => x.painted)

\* One PDU.
LEMMA ReceiveHeeds ==
  ASSUME NEW s \in ServerState, NEW m, m.kind \in MessageKinds
  PROVE  /\ Heeds(s, Receive(s, m))
         /\ Receive(s, m).state = IF m.kind = "confirm" THEN "up" ELSE s.state
         /\ m.kind = "refresh" /\ m.share = s.share =>
              /\ \A p \in Receive(s, m).stamps : ~Inside(p, m.area)
              /\ m.area = Full(s.desktop) => Receive(s, m).painted
<1>1. PICK x : x = Receive(s, m)
  OBVIOUS
<1>2. CASE m.kind = "confirm"
  <2>1. x = [s EXCEPT !.state = "up"]
    BY <1>1, <1>2 DEF Receive
  <2> QED
    BY <1>1, <1>2, <2>1 DEF ServerState, Heeds
<1>3. CASE m.kind \in {"event", "takeover", "reply", "wlc"}
           \/ (m.kind \in {"keys", "output"} /\ m.share = s.share)
  <2>1. x = [s EXCEPT !.heard = @ \union {m.kind}]
    BY <1>1, <1>3 DEF Receive
  <2> QED
    BY <1>1, <1>3, <2>1 DEF ServerState, Heeds
<1>4. CASE m.kind = "refresh" /\ m.share = s.share
  <2>1. x = [s EXCEPT !.stamps = {p \in @ : ~Inside(p, m.area)},
                      !.painted = @ \/ m.area = Full(s.desktop)]
    BY <1>1, <1>4 DEF Receive
  <2> DEFINE b == s.painted \/ m.area = Full(s.desktop)
  <2>2. x = [s EXCEPT !.stamps = {p \in s.stamps : ~Inside(p, m.area)}, !.painted = b]
    BY <2>1
  <2>3. b \in BOOLEAN /\ (s.painted => b) /\ (m.area = Full(s.desktop) => b)
    BY DEF ServerState
  <2> HIDE DEF b
  <2>4. PICK S : S = {p \in s.stamps : ~Inside(p, m.area)}
    OBVIOUS
  <2>5. x = [s EXCEPT !.stamps = S, !.painted = b]
    BY <2>2, <2>4
  <2>6. S \subseteq s.stamps /\ S \subseteq Points
    BY <2>4 DEF ServerState
  <2>7. x \in ServerState
    BY <2>3, <2>5, <2>6 DEF ServerState
  <2>8. /\ x.share = s.share /\ x.desktop = s.desktop /\ x.attached = s.attached
        /\ x.rounds = s.rounds /\ x.deactivated = s.deactivated /\ x.state = s.state
    BY <2>5 DEF ServerState
  <2>9. x.stamps = S
    BY <2>5 DEF ServerState
  <2>10. x.painted = b
    BY <2>5 DEF ServerState
  <2>11. Heeds(s, x)
    BY <2>3, <2>6, <2>7, <2>8, <2>9, <2>10 DEF Heeds
  <2>12. \A p \in x.stamps : ~Inside(p, m.area)
    BY <2>4, <2>9
  <2> QED
    BY <1>1, <1>4, <2>3, <2>8, <2>10, <2>11, <2>12
<1>5. CASE m.kind \in {"keys", "output", "refresh"} /\ m.share # s.share
  <2>1. x = s
    BY <1>1, <1>5 DEF Receive
  <2> QED
    BY <1>1, <1>5, <2>1 DEF Heeds
<1> QED
  BY <1>2, <1>3, <1>4, <1>5 DEF MessageKinds

\* A list of one PDU.
LEMMA AfterOne ==
  ASSUME NEW s, NEW m
  PROVE  AfterAll(s, <<m>>) = Receive(s, m)
<1>1. PICK ms : ms = <<m>>
  OBVIOUS
<1>2. Len(ms) = 1 /\ ms[1] = m
  BY <1>1
<1>3. PICK h : h[0] = s /\ (\A n \in 1..Len(ms) : h[n] = Receive(h[n - 1], ms[n]))
               /\ AfterAll(s, ms) = h[Len(ms)]
  BY <1>2, AfterAllSteps
<1>4. h[1] = Receive(h[1 - 1], ms[1])
  BY <1>2, <1>3
<1> QED
  BY <1>1, <1>2, <1>3, <1>4

\* An activation: the confirmation and what follows it.  A refresh of everything
\* under the right share id at its end paints.
LEMMA AfterConfirm ==
  ASSUME NEW s \in ServerState, NEW ms, Len(ms) \in Nat \ {0}, ms[1].kind = "confirm",
         \A n \in 2..Len(ms) : ms[n].kind \in MessageKinds \ {"confirm"}
  PROVE  /\ Heeds(s, AfterAll(s, ms)) /\ AfterAll(s, ms).state = "up"
         /\ LET m == ms[Len(ms)]
            IN  m.kind = "refresh" /\ m.share = s.share /\ m.area = Full(s.desktop)
                  => AfterAll(s, ms).painted
<1> DEFINE L == Len(ms)
<1>1. PICK h : h[0] = s /\ (\A n \in 1..L : h[n] = Receive(h[n - 1], ms[n]))
               /\ AfterAll(s, ms) = h[L]
  BY AfterAllSteps
<1> DEFINE T == {n \in 0..L : Heeds(s, h[n]) /\ (n # 0 => h[n].state = "up")}
<1>2. 0 \in T
  BY <1>1 DEF Heeds
<1>3. ASSUME NEW n \in 0..L, n < L, n \in T PROVE n + 1 \in T
  <2>1. n + 1 \in 1..L /\ (n + 1) - 1 = n
    BY <1>3
  <2>2. h[n + 1] = Receive(h[n], ms[n + 1])
    BY <1>1, <2>1
  <2>3. ms[n + 1].kind \in MessageKinds /\ (n # 0 => ms[n + 1].kind # "confirm")
    <3>1. CASE n = 0
      BY <3>1 DEF MessageKinds
    <3>2. CASE n # 0
      <4>1. n + 1 \in 2..L
        BY <2>1, <3>2
      <4> QED
        BY <4>1
    <3> QED
      BY <3>1, <3>2
  <2>4. Heeds(s, h[n]) /\ (n # 0 => h[n].state = "up")
    BY <1>3
  <2>5. PICK x, y, m : x = h[n] /\ y = h[n + 1] /\ m = ms[n + 1]
    OBVIOUS
  <2>6. x \in ServerState /\ y = Receive(x, m)
    BY <2>2, <2>4, <2>5 DEF Heeds
  <2>7. Heeds(x, y) /\ y.state = IF m.kind = "confirm" THEN "up" ELSE x.state
    BY <2>3, <2>5, <2>6, ReceiveHeeds
  <2>8. Heeds(s, y)
    BY <2>4, <2>5, <2>7 DEF Heeds
  <2>9. y.state = "up"
    BY <2>3, <2>4, <2>5, <2>7
  <2> QED
    BY <2>1, <2>5, <2>8, <2>9
<1>4. \A n \in 0..L : Heeds(s, h[n]) /\ (n # 0 => h[n].state = "up")
  <2>1. 0..L \subseteq T
    <3> HIDE DEF T
    <3> QED
      BY <1>2, <1>3, UpTo
  <2> QED
    BY <2>1
<1>5. Heeds(s, h[L]) /\ h[L].state = "up"
  BY <1>4
<1>6. ASSUME ms[L].kind = "refresh", ms[L].share = s.share, ms[L].area = Full(s.desktop)
      PROVE  h[L].painted
  <2>1. PICK x, m : x = h[L - 1] /\ m = ms[L]
    OBVIOUS
  <2>2. Heeds(s, x) /\ h[L] = Receive(x, m)
    BY <1>1, <1>4, <2>1
  <2>3. x \in ServerState /\ m.kind \in MessageKinds /\ m.share = x.share
        /\ m.area = Full(x.desktop)
    BY <1>6, <2>1, <2>2 DEF Heeds, MessageKinds
  <2> QED
    BY <1>6, <2>1, <2>2, <2>3, ReceiveHeeds
<1> QED
  BY <1>1, <1>5, <1>6

\* What the client sends after a confirmation is none itself.
LEMMA WordsAndAsks ==
  ASSUME NEW share, NEW area
  PROVE  /\ \A k : Word(k).kind = k
         /\ \A k : /\ Ask(k, share, area).kind = k /\ Ask(k, share, area).share = share
                   /\ Ask(k, share, area).area = area
  BY DEF Word, Ask

\* The messages at the start of a session and after a reactivation: no second
\* confirmation among them, and the refresh of everything last if there is one.
LEMMA Preludes ==
  ASSUME NEW share, NEW d
  PROVE  /\ LET ms == <<Word("confirm")>> \o Prologue(share, d)
            IN  /\ Len(ms) \in Nat \ {0} /\ ms[1].kind = "confirm"
                /\ \A n \in 2..Len(ms) : ms[n].kind \in MessageKinds \ {"confirm"}
                /\ env.refresh => ms[Len(ms)] = Ask("refresh", share, Full(d))
         /\ LET ms == <<Word("confirm")>> \o Resumption(share, d)
            IN  /\ Len(ms) \in Nat \ {0} /\ ms[1].kind = "confirm"
                /\ \A n \in 2..Len(ms) : ms[n].kind \in MessageKinds \ {"confirm"}
                /\ ms[Len(ms)] = Ask("refresh", share, Full(d))
<1> DEFINE full == Ask("refresh", share, Full(d))
           out == Ask("output", share, Full(d))
           M == {Word("event"), Word("wlc"), Ask("keys", share, NoArea), out, full}
           One == <<Word("confirm")>>
           keys == When(env.persist, PersistentKeyList(share))
           event == When(env.arb /\ env.event, <<Word("event")>>)
           wlc == When(env.wlc, WlcDesktopCaps)
           again == When(env.wlc /\ ~env.once, WlcDesktopCaps)
           refresh == When(env.refresh, RefreshRect(share, d))
           all == RefreshRect(share, d)
<1>1. \A m \in M : m.kind \in MessageKinds \ {"confirm"}
  BY WordsAndAsks DEF MessageKinds
<1>2. /\ keys \in Seq(M) /\ event \in Seq(M) /\ wlc \in Seq(M) /\ again \in Seq(M)
      /\ refresh \in Seq(M) /\ all \in Seq(M)
  <2>1. <<>> \in Seq(M) /\ \A m \in M : <<m>> \in Seq(M)
    OBVIOUS
  <2>2. /\ Word("event") \in M /\ Word("wlc") \in M /\ Ask("keys", share, NoArea) \in M
        /\ out \in M /\ full \in M
    OBVIOUS
  <2> HIDE DEF M, out, full
  <2>3. keys \in Seq(M)
    <3>1. keys = <<Ask("keys", share, NoArea)>> \/ keys = <<>>
      BY DEF When, PersistentKeyList
    <3> HIDE DEF keys
    <3> QED
      BY <2>1, <2>2, <3>1, Zenon
  <2>4. event \in Seq(M)
    <3>1. event = <<Word("event")>> \/ event = <<>>
      BY DEF When
    <3> HIDE DEF event
    <3> QED
      BY <2>1, <2>2, <3>1, Zenon
  <2>5. wlc \in Seq(M) /\ again \in Seq(M)
    <3>1. /\ wlc = <<Word("wlc")>> \/ wlc = <<>>
          /\ again = <<Word("wlc")>> \/ again = <<>>
      BY DEF When, WlcDesktopCaps
    <3> HIDE DEF wlc, again
    <3> QED
      BY <2>1, <2>2, <3>1, Zenon
  <2>6. all \in Seq(M)
    <3>1. all = <<out, full>>
      BY DEF RefreshRect, out, full
    <3> HIDE DEF all
    <3> QED
      BY <2>2, <3>1
  <2>7. refresh \in Seq(M)
    <3>1. refresh = all \/ refresh = <<>>
      BY DEF When
    <3> HIDE DEF refresh, all
    <3> QED
      BY <2>1, <2>6, <3>1, Zenon
  <2> QED
    BY <2>3, <2>4, <2>5, <2>6, <2>7
<1>3. Len(all) = 2 /\ all[2] = full
  BY DEF RefreshRect
<1>4. env.refresh => refresh = all
  BY DEF When
<1>5. Word("confirm").kind = "confirm"
  BY WordsAndAsks
<1>6. /\ Prologue(share, d) = ((keys \o event) \o wlc) \o refresh
      /\ Resumption(share, d) = again \o all
  BY DEF Prologue, Resumption
<1>7. PICK N : N = M \cup {Word("confirm")}
  OBVIOUS
<1> HIDE DEF M, keys, event, wlc, again, refresh, all, full
<1>8. ASSUME NEW s \in Seq(M), NEW t \in Seq(M), NEW ms, ms = <<Word("confirm")>> \o (s \o t)
      PROVE  /\ Len(ms) \in Nat \ {0} /\ ms[1].kind = "confirm"
             /\ \A n \in 2..Len(ms) : ms[n].kind \in MessageKinds \ {"confirm"}
             /\ t = all => ms[Len(ms)] = full
  <2>1. PICK u : u = s \o t
    OBVIOUS
  <2>2. u \in Seq(M) /\ Len(u) = Len(s) + Len(t)
        /\ \A i \in 1..(Len(s) + Len(t)) : u[i] = IF i <= Len(s) THEN s[i] ELSE t[i - Len(s)]
    BY <2>1, ConcatProperties
  <2>3. PICK one : one = <<Word("confirm")>>
    OBVIOUS
  <2>4. one \in Seq(N) /\ Len(one) = 1 /\ one[1] = Word("confirm")
    BY <1>7, <2>3
  <2>5. u \in Seq(N)
    BY <1>7, <2>2
  <2>6. ms \in Seq(N) /\ Len(ms) = 1 + Len(u)
        /\ \A i \in 1..(1 + Len(u)) : ms[i] = IF i <= 1 THEN one[i] ELSE u[i - 1]
    BY <1>8, <2>1, <2>3, <2>4, <2>5, ConcatProperties
  <2>7. Len(u) \in Nat /\ Len(s) \in Nat
    BY <2>2
  <2>8. ms[1].kind = "confirm"
    BY <1>5, <2>4, <2>6, <2>7
  <2>9. ASSUME NEW n \in 2..Len(ms) PROVE ms[n].kind \in MessageKinds \ {"confirm"}
    <3>1. n - 1 \in 1..Len(u) /\ ms[n] = u[n - 1]
      BY <2>6, <2>7
    <3>2. u[n - 1] \in M
      BY <2>2, <3>1
    <3> QED
      BY <1>1, <3>1, <3>2
  <2>10. ASSUME t = all PROVE ms[Len(ms)] = full
    <3>1. Len(t) = 2
      BY <1>3, <2>10
    <3>2. Len(s) + 2 \in 1..(Len(s) + Len(t)) /\ ~(Len(s) + 2 <= Len(s))
          /\ (Len(s) + 2) - Len(s) = 2
      BY <2>7, <3>1
    <3>3. Len(u) = Len(s) + 2 /\ u[Len(s) + 2] = t[2]
      BY <2>2, <3>1, <3>2
    <3> QED
      BY <1>3, <2>6, <2>7, <2>10, <3>3
  <2> QED
    BY <2>6, <2>7, <2>8, <2>9, <2>10
<1>9. (keys \o event) \o wlc \in Seq(M)
  BY <1>2, ConcatProperties
<1>10. PICK s1, s2, t1, t2 : s1 = (keys \o event) \o wlc /\ t1 = refresh /\ s2 = again /\ t2 = all
  OBVIOUS
<1>11. /\ s1 \in Seq(M) /\ t1 \in Seq(M) /\ s2 \in Seq(M) /\ t2 \in Seq(M)
       /\ Prologue(share, d) = s1 \o t1 /\ Resumption(share, d) = s2 \o t2
  BY <1>2, <1>6, <1>9, <1>10
<1>12. PICK ms1, ms2 : ms1 = <<Word("confirm")>> \o (s1 \o t1)
                       /\ ms2 = <<Word("confirm")>> \o (s2 \o t2)
  OBVIOUS
<1>13. /\ Len(ms1) \in Nat \ {0} /\ ms1[1].kind = "confirm"
       /\ \A n \in 2..Len(ms1) : ms1[n].kind \in MessageKinds \ {"confirm"}
       /\ t1 = all => ms1[Len(ms1)] = full
  BY <1>8, <1>11, <1>12, ZenonT(60)
<1>14. /\ Len(ms2) \in Nat \ {0} /\ ms2[1].kind = "confirm"
       /\ \A n \in 2..Len(ms2) : ms2[n].kind \in MessageKinds \ {"confirm"}
       /\ t2 = all => ms2[Len(ms2)] = full
  BY <1>8, <1>11, <1>12, ZenonT(60)
<1> QED
  BY <1>4, <1>10, <1>11, <1>12, <1>13, <1>14 DEF full

-----------------------------------------------------------------------------
(* The handshake *)

\* The part of the invariant that is about the handshake.
HInv == HandshakeTypeOK /\ ExchangeInStep /\ AnswersInStep /\ GrantIsTheServers

Errors == {"none", "Refused", "Io", "ExistingSession", "Sspi", "Protocol"}

\* A handshake that fails leaves nothing to be in step with.
LEMMA FailKeeps ==
  ASSUME HInv, NEW e \in Errors, Fail(e), toServer' \in Seq(Frame)
  PROVE  HInv'
<1>1. /\ phase' = "failed" /\ error' = e /\ link' = "dropped" /\ toClient' = <<>>
      /\ UNCHANGED <<exchange, calls, confidential, grant, acceptor>>
  BY DEF Fail
<1>2. HandshakeTypeOK'
  BY <1>1 DEF HInv, HandshakeTypeOK, Errors
<1>3. AnswersInStep'
  BY <1>1 DEF HInv, AnswersInStep, Tokens
<1> QED
  BY <1>1, <1>2, <1>3 DEF HInv, ExchangeInStep, GrantIsTheServers

\* The frames of both directions are sequences.
LEMMA WireIs ==
  ASSUME HandshakeTypeOK
  PROVE  /\ toServer \in Seq(Frame) /\ Len(toServer) \in Nat
         /\ toClient \in Seq(Frame) /\ Len(toClient) \in Nat /\ DOMAIN toClient = 1..Len(toClient)
         /\ exchange.legs \in Nat \ {0} /\ exchange.tail \in BOOLEAN
         /\ calls \in 0..exchange.legs /\ acceptor.tokens \in Nat
<1>1. toServer \in Seq(Frame) /\ toClient \in Seq(Frame)
  BY DEF HandshakeTypeOK
<1>2. exchange \in [legs : Nat \ {0}, tail : BOOLEAN] /\ calls \in 0..exchange.legs
  BY ExchangesAssumption DEF HandshakeTypeOK
<1>3. acceptor.tokens \in Nat
  BY DEF HandshakeTypeOK
<1> QED
  BY <1>1, <1>2, <1>3

\* Taking the next frame.
LEMMA ProceedKeeps ==
  ASSUME HInv, toClient # <<>>, NEW p, NEW q, Proceed(q), toServer' = toServer, phase = p,
         \/ p = "greeting" /\ q = "step" /\ grant' = grant
         \/ p = "token" /\ q = "step" /\ grant' = grant
         \/ p = "grant" /\ q = "granted" /\ Unseals(Received) /\ Received.body \in Access
            /\ grant' = Received.body
  PROVE  HInv'
<1>1. /\ phase' = q /\ toClient' = Tail(toClient)
      /\ UNCHANGED <<error, link, exchange, calls, confidential, acceptor, toServer>>
  BY DEF Proceed
<1>2. /\ toClient \in Seq(Frame) /\ Len(toClient) \in Nat /\ DOMAIN toClient = 1..Len(toClient)
      /\ exchange.legs \in Nat \ {0} /\ calls \in 0..exchange.legs
      /\ acceptor.tokens \in Nat /\ Len(toServer) \in Nat /\ toServer \in Seq(Frame)
  BY WireIs DEF HInv
<1>3. /\ Tail(toClient) \in Seq(Frame) /\ Len(Tail(toClient)) = Len(toClient) - 1
      /\ \A i \in 1..Len(Tail(toClient)) : Tail(toClient)[i] = toClient[i + 1]
      /\ Received = toClient[1] /\ Len(toClient) >= 1
  BY <1>2, HeadTailProperties DEF Received
<1>4. HandshakeTypeOK'
  <2>1. grant' \in Access \union {"none"}
    BY DEF HInv, HandshakeTypeOK
  <2> QED
    BY <1>1, <1>3, <2>1 DEF HInv, HandshakeTypeOK
<1>5. AnswersInStep'
  <2>1. acceptor'.state \in {"accepted", "granted"} => acceptor'.tokens = Tokens'
    BY <1>1 DEF HInv, AnswersInStep, Tokens
  <2>2. ASSUME NEW i \in DOMAIN toClient', Unseals(toClient'[i]), toClient'[i].body \in Access
        PROVE  /\ i = Len(toClient')
               /\ acceptor'.state = "granted" /\ acceptor'.access = toClient'[i].body
    <3>1. i \in 1..Len(Tail(toClient)) /\ toClient'[i] = toClient[i + 1]
          /\ i + 1 \in DOMAIN toClient
      BY <1>1, <1>2, <1>3
    <3>2. i + 1 = Len(toClient) /\ acceptor.state = "granted"
          /\ acceptor.access = toClient[i + 1].body
      BY <2>2, <3>1 DEF HInv, AnswersInStep
    <3> QED
      BY <1>1, <1>2, <1>3, <3>1, <3>2
  <2> QED
    BY <2>1, <2>2 DEF AnswersInStep
<1>6. ExchangeInStep'
  BY <1>1, <1>2 DEF HInv, ExchangeInStep, Tokens
<1>7. GrantIsTheServers'
  <2> SUFFICES ASSUME q = "granted" PROVE GrantIsTheServers'
    BY <1>1 DEF GrantIsTheServers
  <2>1. Unseals(toClient[1]) /\ toClient[1].body \in Access /\ 1 \in DOMAIN toClient
        /\ grant' = toClient[1].body /\ phase = "grant"
    BY <1>2, <1>3
  <2>2. 1 = Len(toClient) /\ acceptor.state = "granted" /\ acceptor.access = toClient[1].body
    BY <2>1 DEF HInv, AnswersInStep
  <2>3. Tail(toClient) = <<>>
    <3>1. PICK t : t = Tail(toClient)
      OBVIOUS
    <3>2. t \in Seq(Frame) /\ Len(t) = Len(toClient) - 1
      BY <1>3, <3>1
    <3>3. Len(t) = 0
      BY <2>2, <3>2
    <3> QED
      BY <3>1, <3>2, <3>3, EmptySeq
  <2>4. acceptor.tokens = Tokens
    BY <2>2 DEF HInv, AnswersInStep
  <2>5. acceptor.tokens + Len(toServer) = Tokens /\ confidential
    BY <2>1 DEF HInv, ExchangeInStep
  <2>6. toServer = <<>>
    BY <1>2, <2>4, <2>5
  <2> QED
    BY <1>1, <2>1, <2>2, <2>3, <2>4, <2>5, <2>6 DEF GrantIsTheServers, Tokens
<1> QED
  BY <1>4, <1>5, <1>6, <1>7 DEF HInv

\* The steps of SccmSession::connect that read.
LEMMA ReadingKeeps ==
  ASSUME HInv, TcpConnect \/ RecvFails \/ Greeting \/ PeerToken \/ ReadGrant
  PROVE  HInv'
<1>1. toServer \in Seq(Frame)
  BY DEF HInv, HandshakeTypeOK
<1>2. CASE TcpConnect
  <2>1. CASE \E e \in {"Refused", "Io"} : Fail(e)
    <3>1. PICK e \in {"Refused", "Io"} : Fail(e)
      BY <2>1
    <3>2. e \in Errors /\ toServer' \in Seq(Frame)
      BY <1>1, <1>2 DEF TcpConnect, Errors
    <3> QED
      BY <3>1, <3>2, FailKeeps
  <2>2. CASE /\ phase' = "greeting" /\ link' = "up"
             /\ UNCHANGED <<error, toClient, exchange, calls, confidential, grant, acceptor>>
    <3>1. phase = "tcp" /\ toServer' = toServer
      BY <1>2 DEF TcpConnect
    <3> QED
      BY <2>2, <3>1 DEF HInv, HandshakeTypeOK, ExchangeInStep, AnswersInStep, GrantIsTheServers,
         Tokens
  <2> QED
    BY <1>2, <2>1, <2>2 DEF TcpConnect
<1>3. CASE RecvFails
  <2>1. PICK e \in Errors : Fail(e) /\ toServer' = toServer
    BY <1>3 DEF RecvFails, Errors
  <2> QED
    BY <1>1, <2>1, FailKeeps
<1>4. CASE Greeting
  <2>1. phase = "greeting" /\ toClient # <<>> /\ toServer' = toServer
    BY <1>4 DEF Greeting, Waiting
  <2>2. CASE Proceed("step") /\ UNCHANGED grant
    BY <2>1, <2>2, ProceedKeeps
  <2>3. CASE \E e \in Errors : Fail(e)
    BY <1>1, <2>1, <2>3, FailKeeps
  <2> QED
    BY <1>4, <2>2, <2>3 DEF Greeting, Errors
<1>5. CASE PeerToken
  <2>1. phase = "token" /\ toClient # <<>> /\ toServer' = toServer
    BY <1>5 DEF PeerToken, Waiting
  <2>2. CASE Proceed("step") /\ UNCHANGED grant
    BY <2>1, <2>2, ProceedKeeps
  <2>3. CASE \E e \in Errors : Fail(e)
    BY <1>1, <2>1, <2>3, FailKeeps
  <2> QED
    BY <1>5, <2>2, <2>3 DEF PeerToken, Errors
<1>6. CASE ReadGrant
  <2>1. phase = "grant" /\ toClient # <<>> /\ toServer' = toServer
    BY <1>6 DEF ReadGrant, Waiting
  <2>2. CASE /\ Unseals(Received) /\ Received.body \in Access
             /\ Proceed("granted") /\ grant' = Received.body
    BY <2>1, <2>2, ProceedKeeps
  <2>3. CASE \E e \in Errors : Fail(e)
    BY <1>1, <2>1, <2>3, FailKeeps
  <2> QED
    BY <1>6, <2>2, <2>3 DEF ReadGrant, Errors
<1> QED
  BY <1>2, <1>3, <1>4, <1>5, <1>6

\* The calls of InitializeSecurityContext: a token for every one but the last,
\* and for the last if the exchange has one.
LEMMA SteppingKeeps ==
  ASSUME HInv, Step \/ StepFails
  PROVE  HInv'
<1>1. /\ toServer \in Seq(Frame) /\ Len(toServer) \in Nat /\ acceptor.tokens \in Nat
      /\ exchange.legs \in Nat \ {0} /\ exchange.tail \in BOOLEAN /\ calls \in 0..exchange.legs
  BY WireIs DEF HInv
<1>2. /\ Append(toServer, Token("token")) \in Seq(Frame)
      /\ Len(Append(toServer, Token("token"))) = Len(toServer) + 1
  <2>1. Token("token") \in Frame
    BY DEF Token, Frame
  <2> QED
    BY <1>1, <2>1, AppendProperties
<1>3. CASE \E e \in Errors : Fail(e) /\ (toServer' = toServer \/ SendOutput)
  <2>1. toServer' \in Seq(Frame)
    BY <1>1, <1>2, <1>3 DEF SendOutput
  <2> QED
    BY <1>3, <2>1, FailKeeps
<1>4. CASE \E got \in BOOLEAN :
              /\ MayProceed(got) /\ SendOutput /\ phase = "step"
              /\ phase' = IF LastCall THEN "grant" ELSE "token"
              /\ calls' = calls + 1 /\ confidential' = got
              /\ UNCHANGED <<error, link, toClient, exchange, grant, acceptor>>
  <2>1. PICK got \in BOOLEAN :
              /\ MayProceed(got) /\ SendOutput /\ phase = "step"
              /\ phase' = IF LastCall THEN "grant" ELSE "token"
              /\ calls' = calls + 1 /\ confidential' = got
              /\ UNCHANGED <<error, link, toClient, exchange, grant, acceptor>>
    BY <1>4
  <2>2. calls < exchange.legs /\ acceptor.tokens + Len(toServer) = calls
    BY <1>1, <2>1 DEF HInv, ExchangeInStep
  <2>3. HandshakeTypeOK'
    <3>1. toServer' \in Seq(Frame)
      BY <1>1, <1>2, <2>1 DEF SendOutput
    <3>2. calls' \in 0..exchange'.legs
      BY <1>1, <2>1, <2>2
    <3> QED
      BY <2>1, <3>1, <3>2 DEF HInv, HandshakeTypeOK
  <2>4. acceptor'.tokens + Len(toServer') =
           (IF calls' = exchange'.legs THEN Tokens' ELSE calls')
    <3>1. CASE LastCall
      BY <1>1, <1>2, <2>1, <2>2, <3>1 DEF SendOutput, HasOutput, LastCall, Tokens
    <3>2. CASE ~LastCall
      BY <1>1, <1>2, <2>1, <2>2, <3>2 DEF SendOutput, HasOutput, LastCall, Tokens
    <3> QED
      BY <3>1, <3>2
  <2>5. ExchangeInStep'
    BY <1>1, <2>1, <2>2, <2>4 DEF ExchangeInStep, MayProceed, LastCall
  <2>6. AnswersInStep'
    BY <2>1 DEF HInv, AnswersInStep, Tokens
  <2>7. GrantIsTheServers'
    BY <2>1 DEF GrantIsTheServers
  <2> QED
    BY <2>3, <2>5, <2>6, <2>7 DEF HInv
<1>5. CASE Step
  BY <1>3, <1>4, <1>5 DEF Step, Errors
<1>6. CASE StepFails
  BY <1>3, <1>6 DEF StepFails, Errors
<1> QED
  BY <1>5, <1>6

\* What the server sends before it has granted anything is no grant.
LEMMA SendKeeps ==
  ASSUME HInv, NEW f \in Frame, Send(f), acceptor.state # "granted",
         UNCHANGED exchange,
         acceptor'.state \in {"accepted", "granted"} => acceptor'.tokens = Tokens,
         Unseals(f) /\ f.body \in Access =>
            acceptor'.state = "granted" /\ acceptor'.access = f.body
  PROVE  AnswersInStep' /\ toClient' \in Seq(Frame)
<1>1. toClient \in Seq(Frame) /\ Len(toClient) \in Nat /\ DOMAIN toClient = 1..Len(toClient)
  BY WireIs DEF HInv
<1>2. /\ Append(toClient, f) \in Seq(Frame) /\ Len(Append(toClient, f)) = Len(toClient) + 1
      /\ \A i \in 1..Len(toClient) : Append(toClient, f)[i] = toClient[i]
      /\ Append(toClient, f)[Len(toClient) + 1] = f
  BY <1>1, AppendProperties
<1>3. \A i \in DOMAIN toClient : ~(Unseals(toClient[i]) /\ toClient[i].body \in Access)
  BY DEF HInv, AnswersInStep
<1>4. Tokens' = Tokens
  BY DEF Tokens
<1>5. CASE toClient' = toClient
  BY <1>1, <1>3, <1>4, <1>5 DEF AnswersInStep
<1>6. CASE toClient' = Append(toClient, f)
  <2>1. ASSUME NEW i \in DOMAIN toClient', Unseals(toClient'[i]), toClient'[i].body \in Access
        PROVE  /\ i = Len(toClient')
               /\ acceptor'.state = "granted" /\ acceptor'.access = toClient'[i].body
    <3>1. i \in 1..(Len(toClient) + 1)
      BY <1>2, <1>6
    <3>2. CASE i \in 1..Len(toClient)
      BY <1>1, <1>2, <1>3, <1>6, <2>1, <3>2
    <3>3. CASE i = Len(toClient) + 1
      BY <1>2, <1>6, <2>1, <3>3
    <3> QED
      BY <1>1, <3>1, <3>2, <3>3
  <2> QED
    BY <1>2, <1>4, <1>6, <2>1 DEF AnswersInStep
<1> QED
  BY <1>5, <1>6 DEF Send

\* The server's steps.
LEMMA ServingKeeps ==
  ASSUME HInv,
         ServerGreets \/ ServerAccepts \/ ServerAnswers \/ ServerRejects \/ ServerCloses \/ LinkDies
  PROVE  HInv'
<1>1. /\ toServer \in Seq(Frame) /\ Len(toServer) \in Nat /\ acceptor.tokens \in Nat
      /\ toClient \in Seq(Frame)
      /\ exchange.legs \in Nat \ {0} /\ exchange.tail \in BOOLEAN /\ calls \in 0..exchange.legs
  BY WireIs DEF HInv
<1>2. acceptor \in [state : {"greet", "accept", "accepted", "granted", "refused"},
                    tokens : Nat, access : Access \union {"none"}]
  BY DEF HInv, HandshakeTypeOK
<1>3. phase = "granted" => acceptor.state = "granted" /\ toServer = <<>>
  BY DEF HInv, GrantIsTheServers
<1>4. ASSUME UNCHANGED <<phase, error, exchange, calls, confidential, grant, toServer>>,
             link' \in {"none", "up", "closed", "reset", "dropped"},
             toClient' \in Seq(Frame), acceptor'.tokens = acceptor.tokens,
             acceptor' \in [state : {"greet", "accept", "accepted", "granted", "refused"},
                            tokens : Nat, access : Access \union {"none"}],
             phase # "granted" \/ (acceptor' = acceptor /\ toClient' = toClient), AnswersInStep'
      PROVE  HInv'
  BY <1>4 DEF HInv, HandshakeTypeOK, ExchangeInStep, GrantIsTheServers, Tokens
<1>5. CASE ServerGreets
  <2>1. PICK g \in Greetings \union {"malformed"} :
          /\ Send(Control(g))
          /\ acceptor' = [acceptor EXCEPT !.state =
                             IF g = "START_HANDSHAKE" THEN "accept" ELSE "refused"]
    BY <1>5 DEF ServerGreets
  <2>2. acceptor.state = "greet" /\ UNCHANGED <<client, toServer>>
    BY <1>5 DEF ServerGreets
  <2>3. PICK f : f = Control(g) /\ f \in Frame /\ ~Unseals(f)
    <3>1. Control(g) \in Frame /\ ~Unseals(Control(g))
      BY DEF Frame, Control, Unseals
    <3> QED
      BY <3>1, Zenon
  <2>4. acceptor'.state \in {"accept", "refused"} /\ acceptor'.tokens = acceptor.tokens
        /\ acceptor' \in [state : {"greet", "accept", "accepted", "granted", "refused"},
                          tokens : Nat, access : Access \union {"none"}]
    BY <1>2, <2>1
  <2>5. AnswersInStep' /\ toClient' \in Seq(Frame)
    BY <2>1, <2>2, <2>3, <2>4, SendKeeps DEF client
  <2> QED
    BY <1>3, <1>4, <2>2, <2>4, <2>5 DEF client, HInv, HandshakeTypeOK
<1>6. CASE ServerAccepts
  <2> DEFINE n == acceptor.tokens + 1
  <2>1. /\ acceptor.state = "accept" /\ toServer # <<>> /\ toServer' = Tail(toServer)
        /\ acceptor' = [acceptor EXCEPT !.tokens = n,
                           !.state = IF n = Tokens THEN "accepted" ELSE "accept"]
        /\ (\E body \in {"token", "malformed"} : Send(Token(body))) \/ toClient' = toClient
        /\ UNCHANGED client
    BY <1>6 DEF ServerAccepts
  <2>2. Tail(toServer) \in Seq(Frame) /\ Len(Tail(toServer)) = Len(toServer) - 1
        /\ Len(toServer) >= 1
    BY <1>1, <2>1, HeadTailProperties
  <2>3. /\ acceptor'.tokens = n /\ acceptor'.state \in {"accepted", "accept"}
        /\ acceptor'.state = "accepted" => n = Tokens
    BY <1>2, <2>1
  <2>4. acceptor' \in [state : {"greet", "accept", "accepted", "granted", "refused"},
                       tokens : Nat, access : Access \union {"none"}]
    <3>1. PICK m, st : m = n /\ st = IF n = Tokens THEN "accepted" ELSE "accept"
      OBVIOUS
    <3>2. m \in Nat /\ st \in {"accepted", "accept"}
          /\ acceptor' = [acceptor EXCEPT !.tokens = m, !.state = st]
      BY <1>1, <2>1, <3>1
    <3> QED
      BY <1>2, <3>2
  <2>5. AnswersInStep' /\ toClient' \in Seq(Frame)
    <3>1. CASE \E body \in {"token", "malformed"} : Send(Token(body))
      <4>1. PICK body \in {"token", "malformed"} : Send(Token(body))
        BY <3>1
      <4>2. PICK f : f = Token(body) /\ f \in Frame /\ ~Unseals(f)
        <5>1. Token(body) \in Frame /\ ~Unseals(Token(body))
          BY DEF Frame, Token, Unseals
        <5> QED
          BY <5>1, Zenon
      <4> QED
        BY <2>1, <2>3, <4>1, <4>2, SendKeeps DEF client
    <3>2. CASE toClient' = toClient
      BY <1>1, <2>1, <2>3, <3>2 DEF HInv, AnswersInStep, Tokens, client
    <3> QED
      BY <2>1, <3>1, <3>2
  <2>6. ExchangeInStep'
    BY <1>1, <2>1, <2>2, <2>3 DEF HInv, ExchangeInStep, Tokens, client
  <2>7. HandshakeTypeOK'
    BY <2>1, <2>2, <2>4, <2>5 DEF HInv, HandshakeTypeOK, client
  <2>8. GrantIsTheServers'
    BY <1>3, <2>1 DEF GrantIsTheServers, client
  <2> QED
    BY <2>5, <2>6, <2>7, <2>8 DEF HInv
<1>7. CASE ServerAnswers
  <2>1. PICK word \in Access \union Denials, seal \in {"sealed", "signed"} :
          /\ Send([type |-> "data", body |-> word, seal |-> seal])
          /\ acceptor' = [acceptor EXCEPT
                !.state = IF word \in Access THEN "granted" ELSE "refused",
                !.access = IF word \in Access THEN word ELSE "none"]
    BY <1>7 DEF ServerAnswers
  <2>2. acceptor.state = "accepted" /\ UNCHANGED <<client, toServer>>
    BY <1>7 DEF ServerAnswers
  <2>3. PICK f : f = [type |-> "data", body |-> word, seal |-> seal]
                 /\ f \in Frame /\ f.body = word
    <3>1. PICK f : f = [type |-> "data", body |-> word, seal |-> seal]
      OBVIOUS
    <3>2. f \in Frame /\ f.body = word
      BY <3>1 DEF Frame, Greetings
    <3> QED
      BY <3>1, <3>2, Zenon
  <2>4. /\ acceptor'.tokens = acceptor.tokens
        /\ word \in Access => acceptor'.state = "granted" /\ acceptor'.access = word
        /\ acceptor' \in [state : {"greet", "accept", "accepted", "granted", "refused"},
                          tokens : Nat, access : Access \union {"none"}]
    BY <1>2, <2>1
  <2>5. acceptor.tokens = Tokens
    BY <2>2 DEF HInv, AnswersInStep
  <2>6. AnswersInStep' /\ toClient' \in Seq(Frame)
    BY <2>1, <2>2, <2>3, <2>4, <2>5, SendKeeps DEF client
  <2> QED
    BY <1>3, <1>4, <2>2, <2>4, <2>6 DEF client, HInv, HandshakeTypeOK
<1>8. CASE ServerRejects
  <2>1. PICK word \in Denials : Send(Control(word))
    BY <1>8 DEF ServerRejects
  <2>2. /\ acceptor.state \in {"accept", "accepted"} /\ UNCHANGED <<client, toServer>>
        /\ acceptor' = [acceptor EXCEPT !.state = "refused"]
    BY <1>8 DEF ServerRejects
  <2>3. PICK f : f = Control(word) /\ f \in Frame /\ ~Unseals(f)
    <3>1. Control(word) \in Frame /\ ~Unseals(Control(word))
      BY DEF Frame, Control, Unseals, Greetings
    <3> QED
      BY <3>1, Zenon
  <2>4. acceptor'.state = "refused" /\ acceptor'.tokens = acceptor.tokens
        /\ acceptor' \in [state : {"greet", "accept", "accepted", "granted", "refused"},
                          tokens : Nat, access : Access \union {"none"}]
    BY <1>2, <2>2
  <2>5. AnswersInStep' /\ toClient' \in Seq(Frame)
    BY <2>1, <2>2, <2>3, <2>4, SendKeeps DEF client
  <2> QED
    BY <1>3, <1>4, <2>2, <2>4, <2>5 DEF client, HInv, HandshakeTypeOK
<1>9. CASE ServerCloses
  <2>1. /\ acceptor.state # "granted" /\ link' = "closed"
        /\ acceptor' = [acceptor EXCEPT !.state = "refused"]
        /\ UNCHANGED <<phase, error, toServer, toClient, exchange, calls, confidential, grant>>
    BY <1>9 DEF ServerCloses, network
  <2>2. acceptor'.state = "refused" /\ acceptor'.tokens = acceptor.tokens
        /\ acceptor' \in [state : {"greet", "accept", "accepted", "granted", "refused"},
                          tokens : Nat, access : Access \union {"none"}]
    BY <1>2, <2>1
  <2>3. AnswersInStep'
    BY <2>1, <2>2 DEF HInv, AnswersInStep
  <2> QED
    BY <1>1, <1>3, <1>4, <2>1, <2>2, <2>3
<1>10. CASE LinkDies
  <2>1. link' = "reset" /\ UNCHANGED <<phase, error, toServer, toClient, exchange, calls,
                                       confidential, grant, acceptor>>
    BY <1>10 DEF LinkDies, network
  <2>2. AnswersInStep'
    BY <2>1 DEF HInv, AnswersInStep, Tokens
  <2> QED
    BY <1>1, <1>2, <1>4, <2>1, <2>2
<1> QED
  BY <1>5, <1>6, <1>7, <1>8, <1>9, <1>10

\* The handshake keeps its invariant, and a session that was granted stays so.
LEMMA HandshakeKeeps ==
  ASSUME HInv, HandshakeNext
  PROVE  HInv' /\ (phase = "granted" => phase' = "granted")
<1>1. HInv'
  BY ReadingKeeps, SteppingKeeps, ServingKeeps DEF HandshakeNext, ClientStep, ServerStep
<1>2. phase = "granted" => phase' = "granted"
  BY DEF HandshakeNext, ClientStep, ServerStep, TcpConnect, RecvFails, Greeting, Step, StepFails,
     PeerToken, ReadGrant, Waiting, ServerGreets, ServerAccepts, ServerAnswers, ServerRejects,
     ServerCloses, LinkDies, client
<1> QED
  BY <1>1, <1>2

LEMMA HandshakeStarts ==
  ASSUME HandshakeInit
  PROVE  HInv
<1>1. HandshakeTypeOK
  <2>1. calls \in 0..exchange.legs
    BY ExchangesAssumption DEF HandshakeInit
  <2>2. toServer \in Seq(Frame) /\ toClient \in Seq(Frame)
    BY EmptySeq DEF HandshakeInit
  <2> QED
    BY <2>1, <2>2 DEF HandshakeInit, HandshakeTypeOK
<1>2. ExchangeInStep
  BY ExchangesAssumption DEF HandshakeInit, ExchangeInStep, Tokens
<1> QED
  BY <1>1, <1>2 DEF HandshakeInit, HInv, AnswersInStep, GrantIsTheServers

-----------------------------------------------------------------------------
(* The session *)

\* The part of the invariant that is about the session.
RInv ==
    /\ SessionTypeOK /\ StagesInStep /\ FlightInStep /\ StampsInStep
    /\ ChannelsSurvive /\ PaintedUnlessDeactivated /\ TrailCovers

\* The channels are fixed with the settings.
LEMMA SameChannels ==
  ASSUME env' = env
  PROVE  Joined' = Joined /\ Pdus' = Pdus /\ ToSet(Declared)' = ToSet(Declared)
<1>1. Declared' = Declared
  BY DEF Declared
<1>2. Joined' = Joined
  BY <1>1 DEF Joined
<1> QED
  BY <1>1, <1>2 DEF Pdus, Svc

\* The three kinds of PDU.
LEMMA PduKinds ==
  ASSUME NEW d \in Pdus
  PROVE  /\ d.kind = "demand" =>
              \E share \in ShareIds, size \in Sizes, caps \in CapLists :
                 d = Demand(share, size, caps)
         /\ d.kind = "svc" => \E n \in DOMAIN Joined : d.id = Joined[n]
         /\ d.kind = "deactivate" => d.share \in ShareIds
         /\ d.kind \in {"demand", "svc", "deactivate"}
<1>1. CASE \E share \in ShareIds, size \in Sizes, caps \in CapLists : d = Demand(share, size, caps)
  <2>1. d.kind = "demand"
    BY <1>1 DEF Demand
  <2> QED
    BY <1>1, <2>1
<1>2. CASE \E n \in DOMAIN Joined, event \in {"in_use", "allowed", "data"} : d = Svc(n, event)
  <2>1. PICK n \in DOMAIN Joined, event \in {"in_use", "allowed", "data"} : d = Svc(n, event)
    BY <1>2
  <2>2. d.kind = "svc" /\ d.id = Joined[n]
    BY <2>1 DEF Svc
  <2> QED
    BY <2>2
<1>3. CASE d \in [kind : {"deactivate"}, share : ShareIds]
  BY <1>3
<1> QED
  BY <1>1, <1>2, <1>3 DEF Pdus

\* What a DemandActive says.
LEMMA DemandSays ==
  ASSUME NEW share, NEW size, NEW caps
  PROVE  LET d == Demand(share, size, caps)
         IN  /\ d.kind = "demand" /\ d.frame.share = share
             /\ d.frame.size = size /\ d.frame.caps = caps
  BY DEF Demand

\* The PDU at the head of the queue and the rest of it.
LEMMA QueueHead ==
  ASSUME RInv, pdus # <<>>
  PROVE  /\ Next1 \in Pdus /\ Next1 = pdus[1] /\ 1 \in DOMAIN pdus
         /\ Tail(pdus) \in Seq(Pdus) /\ Len(pdus) \in Nat /\ Len(Tail(pdus)) = Len(pdus) - 1
         /\ \A i \in DOMAIN Tail(pdus) : i + 1 \in DOMAIN pdus /\ Tail(pdus)[i] = pdus[i + 1]
<1>1. PICK q : q = pdus
  OBVIOUS
<1>2. PICK S : S = Pdus
  OBVIOUS
<1>3. q \in Seq(S) /\ q # <<>>
  BY <1>1, <1>2 DEF RInv, SessionTypeOK
<1>4. /\ Head(q) \in S /\ Tail(q) \in Seq(S) /\ Len(Tail(q)) = Len(q) - 1
      /\ \A i \in 1 .. Len(Tail(q)) : Tail(q)[i] = q[i+1]
  BY <1>3, HeadTailProperties
<1>5. Len(q) \in Nat /\ DOMAIN q = 1..Len(q) /\ Len(q) # 0 /\ Head(q) = q[1]
  BY <1>3
<1>6. DOMAIN Tail(q) = 1..Len(Tail(q))
  BY <1>4
<1>7. \A i \in DOMAIN Tail(q) : i + 1 \in DOMAIN q /\ Tail(q)[i] = q[i + 1]
  BY <1>4, <1>5, <1>6
<1> QED
  BY <1>1, <1>2, <1>4, <1>5, <1>7 DEF Next1

\* A DemandActive at the head is the whole queue and the server's activation.
LEMMA DemandAtHead ==
  ASSUME RInv, pdus # <<>>, Next1.kind = "demand"
  PROVE  /\ Tail(pdus) = <<>> /\ server.state = "demand"
         /\ \E caps \in CapLists : Next1 = Demand(server.share, server.desktop, caps)
         /\ server.share \in ShareIds /\ server.desktop \in Sizes
<1>1. Next1 \in Pdus /\ Next1 = pdus[1] /\ 1 \in DOMAIN pdus
  BY QueueHead
<1>2. PICK q : q = pdus
  OBVIOUS
<1>3. /\ 1 = Len(q) /\ server.state = "demand"
      /\ Next1.frame.share = server.share /\ Next1.frame.size = server.desktop
  BY <1>1, <1>2 DEF RInv, FlightInStep
<1>4. PICK t : t = Tail(q)
  OBVIOUS
<1>5. t \in Seq(Pdus) /\ Len(t) = Len(q) - 1
  BY <1>2, <1>4, QueueHead
<1>6. t = <<>>
  <2>1. Len(t) = 0
    BY <1>3, <1>5
  <2> QED
    BY <1>5, <2>1, EmptySeq
<1>7. PICK share \in ShareIds, size \in Sizes, caps \in CapLists :
         Next1 = Demand(share, size, caps)
  BY <1>1, PduKinds
<1>8. share = server.share /\ size = server.desktop
  BY <1>3, <1>7, DemandSays
<1> QED
  BY <1>2, <1>3, <1>4, <1>6, <1>7, <1>8

\* A session that ends has nothing left to show.
LEMMA EndKeeps ==
  ASSUME RInv, NEW why \in {"channel", "demand"}, End(why),
         why = "channel" => env.channels /\ ~env.arb
  PROVE  RInv'
<1>1. /\ stage' = "ended" /\ cause' = why /\ pdus' = <<>>
      /\ UNCHANGED <<env, share_id, desktop, chans, snapshot, arbitration,
                     cursor_trail, asked, server>>
  BY DEF End
<1>2. SessionTypeOK'
  <2>1. pdus' \in Seq(Pdus') /\ Len(pdus') <= MaxQueue
    BY <1>1, EmptySeq, BringUpAssumption
  <2> QED
    BY <1>1, <2>1, SameChannels DEF RInv, SessionTypeOK
<1> QED
  BY <1>1, <1>2 DEF RInv, StagesInStep, FlightInStep, StampsInStep, ChannelsSurvive,
     PaintedUnlessDeactivated, TrailCovers

\* A desktop is never empty.
LEMMA FullIsArea ==
  ASSUME NEW d \in Sizes
  PROVE  Full(d) \in Area /\ ~Inverted(Full(d))
  BY BringUpAssumption DEF Full, Area, Inverted

\* The client answers a DemandActive: the queue is empty, the server up again, and
\* whoever uses the server's share id has it paint.
LEMMA ActivatedKeeps ==
  ASSUME RInv, server.state = "demand",
         stage' = "active", pdus' = <<>>, desktop' = server.desktop, server.desktop \in Sizes,
         snapshot' = Joined, env.arb => chans' = Joined, DOMAIN chans' \subseteq DOMAIN Joined,
         share_id' \in ShareIds \union {0}, ~server.deactivated => share_id' = server.share,
         Heeds(server, server'), server'.state = "up",
         (env.refresh \/ stage # "connecting") /\ share_id' = server.share => server'.painted,
         asked' \in {asked, Full(desktop')},
         arbitration' \in [takeover_sent : BOOLEAN, replies_sent : 0..1],
         UNCHANGED <<env, cause, cursor_trail>>
  PROVE  RInv'
<1>1. Joined' = Joined /\ ToSet(Declared)' = ToSet(Declared)
  BY SameChannels
<1>2. /\ server' \in ServerState /\ server'.share = server.share
      /\ server'.desktop = server.desktop /\ server'.attached = server.attached
      /\ server'.rounds = server.rounds /\ server'.deactivated = server.deactivated
      /\ server'.stamps = {}
  BY DEF Heeds, RInv, StampsInStep
<1>3. Full(desktop') \in Area /\ ~Inverted(Full(desktop'))
  BY FullIsArea
<1>4. SessionTypeOK'
  <2>1. pdus' \in Seq(Pdus') /\ Len(pdus') <= MaxQueue
    BY EmptySeq, BringUpAssumption
  <2>2. DOMAIN Joined = ToSet(Declared)
    BY DEF Joined
  <2> QED
    BY <1>1, <1>2, <1>3, <2>1, <2>2 DEF RInv, SessionTypeOK
<1>5. StagesInStep' /\ FlightInStep' /\ StampsInStep'
  <2>1. server.share \in ShareIds
    BY DEF RInv, StagesInStep
  <2> QED
    BY <1>1, <1>2, <2>1 DEF StagesInStep, FlightInStep, StampsInStep
<1>6. ChannelsSurvive'
  BY <1>1 DEF RInv, ChannelsSurvive
<1>7. PaintedUnlessDeactivated'
  <2>1. stage = "connecting" => ~server.attached /\ server.rounds = 0
    BY DEF RInv, StagesInStep
  <2> QED
    BY <1>2, <2>1 DEF PaintedUnlessDeactivated
<1>8. TrailCovers'
  BY <1>2, <1>3 DEF RInv, TrailCovers
<1> QED
  BY <1>4, <1>5, <1>6, <1>7, <1>8 DEF RInv

LEMMA ConnectRdpKeeps ==
  ASSUME RInv, ConnectRdp
  PROVE  RInv'
<1>1. stage = "connecting" /\ pdus # <<>> /\ Next1.kind = "demand"
  BY DEF ConnectRdp, Arrived
<1>2. /\ Tail(pdus) = <<>> /\ server.state = "demand"
      /\ server.share \in ShareIds /\ server.desktop \in Sizes
  BY <1>1, DemandAtHead
<1>3. PICK caps \in CapLists : Next1 = Demand(server.share, server.desktop, caps)
  BY <1>1, DemandAtHead
<1>4. Next1.frame.share = server.share /\ Next1.frame.size = server.desktop
      /\ Next1.frame.caps = caps
  BY <1>3, DemandSays
<1>5. \A j \in DOMAIN caps : ~Short(caps[j])
  <2>1. Next1 = pdus[1] /\ 1 \in DOMAIN pdus
    BY <1>1, QueueHead
  <2>2. \A j \in DOMAIN Next1.frame.caps : ~Short(Next1.frame.caps[j])
    BY <1>1, <2>1 DEF RInv, StagesInStep
  <2> QED
    BY <1>4, <2>2
<1>6. Decodes(Next1)
  BY <1>3, <1>5, CapListsAre, WholeDecodes
<1>7. /\ stage' = "active" /\ pdus' = <<>>
      /\ share_id' = server.share /\ desktop' = server.desktop
      /\ chans' = Joined /\ snapshot' = Joined
      /\ server' = AfterAll(server, <<Word("confirm")>> \o Prologue(share_id', desktop'))
      /\ asked' \in {asked, Full(desktop')}
      /\ UNCHANGED <<env, cause, arbitration, cursor_trail>>
  BY <1>2, <1>4, <1>6 DEF ConnectRdp, Took, SendAll
<1>8. PICK s, ms : s = server /\ ms = <<Word("confirm")>> \o Prologue(share_id', desktop')
  OBVIOUS
<1>9. PICK share, d : share = share_id' /\ d = desktop'
  OBVIOUS
<1>10. /\ Len(ms) \in Nat \ {0} /\ ms[1].kind = "confirm"
       /\ \A n \in 2..Len(ms) : ms[n].kind \in MessageKinds \ {"confirm"}
       /\ env.refresh => ms[Len(ms)] = Ask("refresh", share, Full(d))
  BY <1>8, <1>9, Preludes
<1>11. s \in ServerState
  BY <1>8 DEF RInv, SessionTypeOK
<1>12. /\ Heeds(s, AfterAll(s, ms)) /\ AfterAll(s, ms).state = "up"
       /\ LET m == ms[Len(ms)]
          IN  m.kind = "refresh" /\ m.share = s.share /\ m.area = Full(s.desktop)
                => AfterAll(s, ms).painted
  BY <1>10, <1>11, AfterConfirm
<1>13. env.refresh => AfterAll(s, ms).painted
  <2> SUFFICES ASSUME env.refresh PROVE AfterAll(s, ms).painted
    OBVIOUS
  <2>1. PICK m : m = ms[Len(ms)]
    OBVIOUS
  <2>2. m.kind = "refresh" /\ m.share = share /\ m.area = Full(d)
    BY <1>10, <2>1, WordsAndAsks
  <2> QED
    BY <1>7, <1>8, <1>9, <1>12, <2>1, <2>2
<1>14. server' = AfterAll(s, ms)
  BY <1>7, <1>8
<1>15. arbitration \in [takeover_sent : BOOLEAN, replies_sent : 0..1]
  BY DEF RInv, SessionTypeOK
<1> QED
  BY <1>1, <1>2, <1>7, <1>8, <1>12, <1>13, <1>14, <1>15, ActivatedKeeps

\* The channel set is rebuilt as it was joined.
LEMMA RebuiltAsJoined ==
  ASSUME snapshot = Joined
  PROVE  /\ env.arb => BuildWlcChannelSet = Joined
         /\ DOMAIN BuildWlcChannelSet \subseteq DOMAIN Joined
<1>1. CASE env.arb
  <2>1. Declared = WlcChannels
    BY <1>1 DEF Declared
  <2>2. DOMAIN Joined = ToSet(WlcChannels)
        /\ Joined = [n \in ToSet(WlcChannels) |-> Joined[n]]
    BY <2>1 DEF Joined
  <2>3. BuildWlcChannelSet = [n \in ToSet(WlcChannels) |-> Joined[n]]
    BY <1>1, <2>2 DEF BuildWlcChannelSet
  <2> QED
    BY <2>2, <2>3
<1>2. CASE ~env.arb
  BY <1>2 DEF BuildWlcChannelSet, NoChannels
<1> QED
  BY <1>1, <1>2

\* A reactivation, with the share id of the frame that started it.
LEMMA ReactivateKeeps ==
  ASSUME RInv, pdus # <<>>, Next1.kind = "demand", stage \in {"active", "reactivating"},
         NEW share \in ShareIds \union {0}, ~server.deactivated => share = server.share,
         Reactivate(FixShortRev2(Next1), share)
  PROVE  RInv'
<1>1. /\ Tail(pdus) = <<>> /\ server.state = "demand"
      /\ server.share \in ShareIds /\ server.desktop \in Sizes
  BY DemandAtHead
<1>2. PICK caps \in CapLists : Next1 = Demand(server.share, server.desktop, caps)
  BY DemandAtHead
<1>3. PICK sh, size : sh = server.share /\ size = server.desktop
  OBVIOUS
<1>4. PICK d : d = FixShortRev2(Demand(sh, size, caps))
  OBVIOUS
<1>5. d.frame.size = size
  BY <1>4, PaddedDecodes
<1>6. Reactivate(d, share)
  BY <1>2, <1>3, <1>4
<1>ends. CASE End("demand")
  BY <1>ends, EndKeeps
<1> SUFFICES ASSUME ~End("demand") PROVE RInv'
  BY <1>ends
<1>7. /\ stage' = "active" /\ pdus' = <<>> /\ share_id' = share /\ desktop' = server.desktop
      /\ chans' = BuildWlcChannelSet /\ arbitration' = FreshArbitration
      /\ server' = AfterAll(server, <<Word("confirm")>> \o Resumption(share, desktop'))
      /\ asked' = Full(desktop')
      /\ UNCHANGED <<env, cause, snapshot, cursor_trail>>
  BY <1>1, <1>3, <1>5, <1>6 DEF Reactivate, Took, SendAll
<1>8. snapshot = Joined
  BY DEF RInv, StagesInStep
<1>9. PICK s, ms : s = server /\ ms = <<Word("confirm")>> \o Resumption(share, desktop')
  OBVIOUS
<1>10. PICK e : e = desktop'
  OBVIOUS
<1>11. /\ Len(ms) \in Nat \ {0} /\ ms[1].kind = "confirm"
       /\ \A n \in 2..Len(ms) : ms[n].kind \in MessageKinds \ {"confirm"}
       /\ ms[Len(ms)] = Ask("refresh", share, Full(e))
  BY <1>9, <1>10, Preludes
<1>12. s \in ServerState
  BY <1>9 DEF RInv, SessionTypeOK
<1>13. /\ Heeds(s, AfterAll(s, ms)) /\ AfterAll(s, ms).state = "up"
       /\ LET m == ms[Len(ms)]
          IN  m.kind = "refresh" /\ m.share = s.share /\ m.area = Full(s.desktop)
                => AfterAll(s, ms).painted
  BY <1>11, <1>12, AfterConfirm
<1>14. share = s.share => AfterAll(s, ms).painted
  <2>1. PICK m : m = ms[Len(ms)]
    OBVIOUS
  <2>2. m.kind = "refresh" /\ m.share = share /\ m.area = Full(e)
    BY <1>11, <2>1, WordsAndAsks
  <2> QED
    BY <1>7, <1>9, <1>10, <1>13, <2>1, <2>2
<1>15. server' = AfterAll(s, ms)
  BY <1>7, <1>9
<1>16. FreshArbitration \in [takeover_sent : BOOLEAN, replies_sent : 0..1]
  BY DEF FreshArbitration
<1> QED
  BY <1>1, <1>7, <1>8, <1>9, <1>13, <1>14, <1>15, <1>16, RebuiltAsJoined, ActivatedKeeps

LEMMA DemandsKeep ==
  ASSUME RInv, HandleDemandActive \/ FinishReactivation
  PROVE  RInv'
<1>1. CASE HandleDemandActive
  <2>1. stage = "active" /\ pdus # <<>> /\ Next1.kind = "demand"
        /\ Reactivate(FixShortRev2(Next1), Next1.frame.share)
    BY <1>1 DEF HandleDemandActive, Arrived
  <2>2. PICK share : share = Next1.frame.share
    OBVIOUS
  <2>3. share = server.share /\ share \in ShareIds
    BY <2>1, <2>2, DemandAtHead, DemandSays
  <2>4. Reactivate(FixShortRev2(Next1), share)
    BY <2>1, <2>2
  <2> QED
    BY <2>1, <2>3, <2>4, ReactivateKeeps
<1>2. CASE FinishReactivation
  <2>1. stage = "reactivating" /\ pdus # <<>> /\ Next1.kind = "demand"
        /\ Reactivate(FixShortRev2(Next1), share_id)
    BY <1>2 DEF FinishReactivation, Arrived
  <2>2. server.deactivated
    BY <2>1 DEF RInv, StagesInStep
  <2>3. PICK share : share = share_id
    OBVIOUS
  <2>4. share \in ShareIds \union {0}
    BY <2>3 DEF RInv, SessionTypeOK
  <2>5. Reactivate(FixShortRev2(Next1), share)
    BY <2>1, <2>3
  <2> QED
    BY <2>1, <2>2, <2>4, <2>5, ReactivateKeeps
<1> QED
  BY <1>1, <1>2

\* A PDU is taken off the queue.
LEMMA TookKeepsFlight ==
  ASSUME RInv, pdus # <<>>, pdus' = Tail(pdus), env' = env,
         server'.state = server.state, server'.share = server.share,
         server'.desktop = server.desktop, server'.deactivated = server.deactivated
  PROVE  FlightInStep' /\ pdus' \in Seq(Pdus') /\ Len(pdus') <= MaxQueue
<1>1. PICK q, t : q = pdus /\ t = Tail(pdus)
  OBVIOUS
<1>2. /\ t \in Seq(Pdus) /\ Len(q) \in Nat /\ Len(t) = Len(q) - 1
      /\ \A i \in DOMAIN t : i + 1 \in DOMAIN q /\ t[i] = q[i + 1]
  BY <1>1, QueueHead
<1>3. Len(q) <= MaxQueue /\ MaxQueue \in Nat
  BY <1>1, BringUpAssumption DEF RInv, SessionTypeOK
<1>4. ASSUME NEW i \in DOMAIN t
      PROVE  /\ t[i].kind = "demand" =>
                  /\ i = Len(t) /\ server.state = "demand"
                  /\ t[i].frame.share = server.share /\ t[i].frame.size = server.desktop
             /\ t[i].kind = "deactivate" =>
                  server.state \in {"down", "demand"} /\ server.deactivated
  <2>1. i + 1 \in DOMAIN q /\ t[i] = q[i + 1]
    BY <1>2
  <2>2. /\ q[i + 1].kind = "demand" =>
             /\ i + 1 = Len(q) /\ server.state = "demand"
             /\ q[i + 1].frame.share = server.share /\ q[i + 1].frame.size = server.desktop
        /\ q[i + 1].kind = "deactivate" =>
             server.state \in {"down", "demand"} /\ server.deactivated
    BY <1>1, <2>1 DEF RInv, FlightInStep
  <2>3. i \in Nat
    BY <1>2
  <2>4. i + 1 = Len(q) => i = Len(t)
    BY <1>2, <2>3
  <2> QED
    BY <2>1, <2>2, <2>4
<1>5. FlightInStep'
  BY <1>1, <1>4 DEF FlightInStep
<1> QED
  BY <1>1, <1>2, <1>3, <1>5, SameChannels

LEMMA HandleDeactivateAllKeeps ==
  ASSUME RInv, HandleDeactivateAll
  PROVE  RInv'
<1>1. /\ stage = "active" /\ pdus # <<>> /\ Next1.kind = "deactivate"
      /\ stage' = "reactivating" /\ pdus' = Tail(pdus) /\ share_id' = Next1.share
      /\ UNCHANGED <<env, cause, desktop, chans, snapshot, arbitration, cursor_trail,
                     asked, server>>
  BY DEF HandleDeactivateAll, Arrived, Took
<1>2. /\ Next1.share \in ShareIds /\ server.state \in {"down", "demand"} /\ server.deactivated
  BY <1>1, QueueHead, PduKinds DEF RInv, FlightInStep
<1>3. FlightInStep' /\ pdus' \in Seq(Pdus') /\ Len(pdus') <= MaxQueue
  BY <1>1, TookKeepsFlight
<1>4. Joined' = Joined /\ ToSet(Declared)' = ToSet(Declared)
  BY <1>1, SameChannels
<1>5. SessionTypeOK'
  BY <1>1, <1>2, <1>3, <1>4 DEF RInv, SessionTypeOK
<1>6. StagesInStep' /\ StampsInStep' /\ ChannelsSurvive'
  BY <1>1, <1>2, <1>4
  DEF RInv, StagesInStep, StampsInStep, ChannelsSurvive
<1>7. PaintedUnlessDeactivated' /\ TrailCovers'
  BY <1>1 DEF RInv, PaintedUnlessDeactivated, TrailCovers
<1> QED
  BY <1>3, <1>5, <1>6, <1>7 DEF RInv

\* A PDU that the server hears in an active session.
LEMMA HeardKeeps ==
  ASSUME RInv, stage = "active", Heeds(server, server'), server'.state = server.state,
         FlightInStep', pdus' \in Seq(Pdus'), Len(pdus') <= MaxQueue,
         arbitration' \in [takeover_sent : BOOLEAN, replies_sent : 0..1],
         UNCHANGED <<env, stage, cause, share_id, desktop, chans, snapshot, cursor_trail, asked>>
  PROVE  RInv'
<1>1. /\ server' \in ServerState /\ server'.share = server.share
      /\ server'.desktop = server.desktop /\ server'.attached = server.attached
      /\ server'.rounds = server.rounds /\ server'.deactivated = server.deactivated
      /\ server'.stamps \subseteq server.stamps /\ (server.painted => server'.painted)
  BY DEF Heeds
<1>2. Joined' = Joined /\ ToSet(Declared)' = ToSet(Declared)
  BY SameChannels
<1>3. SessionTypeOK'
  BY <1>1, <1>2 DEF RInv, SessionTypeOK
<1>4. StagesInStep' /\ ChannelsSurvive'
  BY <1>1, <1>2 DEF RInv, StagesInStep, ChannelsSurvive
<1>5. StampsInStep'
  BY <1>1 DEF RInv, StampsInStep
<1>6. PaintedUnlessDeactivated'
  BY <1>1 DEF RInv, PaintedUnlessDeactivated
<1>7. TrailCovers'
  BY <1>1 DEF RInv, TrailCovers
<1> QED
  BY <1>3, <1>4, <1>5, <1>6, <1>7 DEF RInv

\* Data on a channel: with the WLC channels its id is always known.
LEMMA HandleSvcKeeps ==
  ASSUME RInv, HandleSvc
  PROVE  RInv'
<1>1. stage = "active" /\ pdus # <<>> /\ Next1.kind = "svc"
  BY DEF HandleSvc, Arrived
<1>2. PICK n \in DOMAIN Joined : Next1.id = Joined[n]
  BY <1>1, QueueHead, PduKinds
<1>3. CASE ~Knows(Next1.id) /\ End("channel")
  <2>1. ~env.arb
    BY <1>1, <1>2, <1>3 DEF RInv, ChannelsSurvive, Knows
  <2>2. env.channels
    <3>1. CASE ~env.channels
      <4>1. Declared = <<>>
        BY <2>1, <3>1 DEF Declared
      <4>2. DOMAIN Joined = {}
        BY <4>1 DEF Joined, ToSet
      <4> QED
        BY <4>2
    <3> QED
      BY <3>1
  <2> QED
    BY <1>3, <2>1, <2>2, EndKeeps
<1>4. CASE /\ Knows(Next1.id) /\ Took
           /\ IF env.arb /\ chans["sessarb"] = Next1.id THEN ProcessEvent(Next1.event)
              ELSE UNCHANGED <<arbitration, server>>
           /\ UNCHANGED <<env, stage, cause, share_id, desktop, chans, snapshot,
                          cursor_trail, asked>>
  <2>1. server \in ServerState /\ arbitration \in [takeover_sent : BOOLEAN, replies_sent : 0..1]
    BY DEF RInv, SessionTypeOK
  <2>2. \/ UNCHANGED <<arbitration, server>>
        \/ arbitration' = [arbitration EXCEPT !.takeover_sent = TRUE]
           /\ server' = AfterAll(server, <<Word("takeover")>>)
        \/ arbitration' = [arbitration EXCEPT !.replies_sent = 1]
           /\ server' = AfterAll(server, <<Word("reply")>>)
    BY <1>4 DEF ProcessEvent, SendAll
  <2>3. arbitration' \in [takeover_sent : BOOLEAN, replies_sent : 0..1]
    <3>1. CASE arbitration' = arbitration
      BY <2>1, <3>1
    <3>2. CASE arbitration' = [arbitration EXCEPT !.takeover_sent = TRUE]
      BY <2>1, <3>2
    <3>3. CASE arbitration' = [arbitration EXCEPT !.replies_sent = 1]
      BY <2>1, <3>3
    <3> QED
      BY <2>2, <3>1, <3>2, <3>3
  <2>4. Heeds(server, server') /\ server'.state = server.state
    <3>1. CASE server' = server
      BY <2>1, <3>1 DEF Heeds
    <3>2. ASSUME NEW k \in {"takeover", "reply"}, server' = AfterAll(server, <<Word(k)>>)
          PROVE  Heeds(server, server') /\ server'.state = server.state
      <4>1. PICK m, s : m = Word(k) /\ s = server
        OBVIOUS
      <4>2. m.kind = k /\ m.kind \in MessageKinds /\ m.kind # "confirm"
        BY <4>1, WordsAndAsks DEF MessageKinds
      <4>3. server' = Receive(s, m)
        BY <3>2, <4>1, AfterOne
      <4> QED
        BY <2>1, <4>1, <4>2, <4>3, ReceiveHeeds
    <3> QED
      BY <2>2, <3>1, <3>2
  <2>5. FlightInStep' /\ pdus' \in Seq(Pdus') /\ Len(pdus') <= MaxQueue
    BY <1>1, <1>4, <2>4, TookKeepsFlight DEF Took, Heeds
  <2> QED
    BY <1>1, <1>4, <2>3, <2>4, <2>5, HeardKeeps
<1> QED
  BY <1>3, <1>4 DEF HandleSvc

-----------------------------------------------------------------------------
(* The cursor's trail *)

\* The area around a point on the desktop has it inside, and what is inside
\* either area is inside their hull.
LEMMA AroundCovers ==
  ASSUME desktop \in Sizes, NEW p \in Points
  PROVE  /\ Around(p) \in Area
         /\ Inside(p, Full(desktop)) => Inside(p, Around(p))
<1>1. p.x \in Nat /\ p.y \in Nat /\ desktop.w \in Nat \ {0} /\ desktop.h \in Nat \ {0}
      /\ CursorPad \in Nat
  BY BringUpAssumption
<1>2. PICK a : a = Around(p)
  OBVIOUS
<1>3. /\ a.left = Saturating(p.x - CursorPad) /\ a.top = Saturating(p.y - CursorPad)
      /\ a.right = Lesser(p.x + CursorPad, desktop.w - 1)
      /\ a.bottom = Lesser(p.y + CursorPad, desktop.h - 1)
  BY <1>2 DEF Around
<1>4. a \in Area
  BY <1>1, <1>2 DEF Around, Area, Saturating, Lesser
<1>5. ASSUME Inside(p, Full(desktop)) PROVE Inside(p, a)
  <2>1. p.x <= desktop.w - 1 /\ p.y <= desktop.h - 1
    BY <1>1, <1>5 DEF Inside, Full
  <2>2. a.left \in Int /\ a.right \in Int /\ a.left <= p.x /\ p.x <= a.right
    BY <1>1, <1>3, <2>1 DEF Saturating, Lesser
  <2>3. a.top \in Int /\ a.bottom \in Int /\ a.top <= p.y /\ p.y <= a.bottom
    BY <1>1, <1>3, <2>1 DEF Saturating, Lesser
  <2> QED
    BY <1>1, <2>2, <2>3 DEF Inside
<1> QED
  BY <1>2, <1>4, <1>5

LEMMA HullCovers ==
  ASSUME NEW a \in Area, NEW b \in Area
  PROVE  /\ Hull(a, b) \in Area
         /\ \A p \in Points : Inside(p, a) \/ Inside(p, b) => Inside(p, Hull(a, b))
<1>1. /\ a.left \in Int /\ a.right \in Int /\ a.top \in Int /\ a.bottom \in Int
      /\ b.left \in Int /\ b.right \in Int /\ b.top \in Int /\ b.bottom \in Int
  BY DEF Area
<1>2. PICK h : h = Hull(a, b)
  OBVIOUS
<1>3. /\ h.left = Lesser(a.left, b.left) /\ h.top = Lesser(a.top, b.top)
      /\ h.right = Greater(a.right, b.right) /\ h.bottom = Greater(a.bottom, b.bottom)
  BY <1>2 DEF Hull
<1>4. h \in Area
  BY <1>1, <1>2 DEF Hull, Area, Lesser, Greater
<1>5. /\ h.left \in Int /\ h.left <= a.left /\ h.left <= b.left
      /\ h.top \in Int /\ h.top <= a.top /\ h.top <= b.top
      /\ h.right \in Int /\ h.right >= a.right /\ h.right >= b.right
      /\ h.bottom \in Int /\ h.bottom >= a.bottom /\ h.bottom >= b.bottom
  BY <1>1, <1>3 DEF Lesser, Greater
<1>6. ASSUME NEW p \in Points, Inside(p, a) \/ Inside(p, b) PROVE Inside(p, h)
  <2>1. p.x \in Int /\ p.y \in Int
    BY BringUpAssumption
  <2> QED
    BY <1>1, <1>5, <1>6, <2>1 DEF Inside
<1> QED
  BY <1>2, <1>4, <1>6

\* A step that only moves the cursor, its trail and the area asked for.
LEMMA TrailKeeps ==
  ASSUME RInv, stage = "active", UNCHANGED trailOnly,
         server' \in ServerState, server'.state = server.state, server'.share = server.share,
         server'.desktop = server.desktop, server'.attached = server.attached,
         server'.rounds = server.rounds, server'.deactivated = server.deactivated,
         server.painted => server'.painted, StampsInStep',
         cursor_trail' \in Area, asked' = asked \/ (asked' \in Area /\ ~Inverted(asked')),
         env.cursor /\ share_id = server.share =>
            \A p \in server'.stamps : Inside(p, cursor_trail')
  PROVE  RInv'
<1>1. UNCHANGED <<env, stage, cause, pdus, share_id, desktop, chans, snapshot, arbitration>>
  BY DEF trailOnly
<1>2. Joined' = Joined /\ ToSet(Declared)' = ToSet(Declared) /\ Pdus' = Pdus
  BY <1>1, SameChannels
<1>3. SessionTypeOK'
  BY <1>1, <1>2 DEF RInv, SessionTypeOK
<1>4. StagesInStep' /\ ChannelsSurvive'
  BY <1>1, <1>2 DEF RInv, StagesInStep, ChannelsSurvive
<1>5. FlightInStep'
  BY <1>1 DEF RInv, FlightInStep
<1>6. PaintedUnlessDeactivated' /\ TrailCovers'
  BY <1>1 DEF RInv, PaintedUnlessDeactivated, TrailCovers
<1> QED
  BY <1>3, <1>4, <1>5, <1>6 DEF RInv

\* A refresh the server hears, or does not.
LEMMA RefreshHeeds ==
  ASSUME NEW s \in ServerState, NEW share, NEW area
  PROVE  LET x == Receive(s, Ask("refresh", share, area))
         IN  /\ Heeds(s, x) /\ x.state = s.state
             /\ share = s.share => \A p \in x.stamps : ~Inside(p, area)
<1>1. PICK m : m = Ask("refresh", share, area)
  OBVIOUS
<1>2. m.kind = "refresh" /\ m.share = share /\ m.area = area /\ m.kind \in MessageKinds
  BY <1>1, WordsAndAsks DEF MessageKinds
<1> QED
  BY <1>1, <1>2, ReceiveHeeds

LEMMA MoveMouseKeeps ==
  ASSUME RInv, MoveMouse
  PROVE  RInv'
<1>1. PICK p \in Points :
          LET moved == IF server.state = "up" /\ Inside(p, Full(server.desktop))
                       THEN [server EXCEPT !.stamps = @ \union {p}] ELSE server
              trail == IF env.cursor THEN Extended(p) ELSE cursor_trail
          IN  \/ cursor_trail' = trail /\ server' = moved /\ UNCHANGED asked
              \/ env.cursor /\ FlushTrail(trail, moved)
  BY DEF MoveMouse
<1>2. stage = "active" /\ UNCHANGED trailOnly
  BY DEF MoveMouse
<1>3. PICK moved : moved = IF server.state = "up" /\ Inside(p, Full(server.desktop))
                           THEN [server EXCEPT !.stamps = @ \union {p}] ELSE server
  OBVIOUS
<1>4. PICK trail : trail = IF env.cursor THEN Extended(p) ELSE cursor_trail
  OBVIOUS
<1>5. \/ cursor_trail' = trail /\ server' = moved /\ UNCHANGED asked
      \/ env.cursor /\ FlushTrail(trail, moved)
  BY <1>1, <1>3, <1>4
<1>6. server \in ServerState /\ cursor_trail \in Area /\ desktop \in Sizes /\ StampsInStep
      /\ (server.state = "up" => desktop = server.desktop)
  BY <1>2 DEF RInv, SessionTypeOK, StagesInStep
<1>7. PICK S : S = IF server.state = "up" /\ Inside(p, Full(server.desktop))
                   THEN server.stamps \union {p} ELSE server.stamps
  OBVIOUS
<1>8. moved = [server EXCEPT !.stamps = S]
  BY <1>3, <1>6, <1>7 DEF ServerState
<1>9. S \subseteq Points
  BY <1>6, <1>7 DEF ServerState
<1>10. /\ moved \in ServerState /\ moved.stamps = S /\ moved.state = server.state
       /\ moved.share = server.share /\ moved.desktop = server.desktop
       /\ moved.attached = server.attached /\ moved.rounds = server.rounds
       /\ moved.deactivated = server.deactivated /\ moved.painted = server.painted
  <2>1. moved \in ServerState
    BY <1>6, <1>8, <1>9 DEF ServerState
  <2>2. moved.stamps = S
    BY <1>6, <1>8 DEF ServerState
  <2> QED
    BY <1>6, <1>8, <2>1, <2>2 DEF ServerState
<1>11. /\ server.state \in {"wait", "demand"} => S = {}
       /\ \A x \in S : Inside(x, Full(server.desktop))
  BY <1>6, <1>7 DEF StampsInStep
<1>12. trail \in Area
       /\ (env.cursor /\ share_id = server.share => \A x \in S : Inside(x, trail))
  <2>1. CASE ~env.cursor
    BY <1>4, <1>6, <2>1
  <2>2. CASE env.cursor
    <3>1. Around(p) \in Area /\ (Inside(p, Full(desktop)) => Inside(p, Around(p)))
      BY <1>6, AroundCovers
    <3>2. PICK a : a = Around(p)
      OBVIOUS
    <3>3. PICK c : c = cursor_trail
      OBVIOUS
    <3>4. a \in Area /\ c \in Area /\ trail = IF c = NoArea THEN a ELSE Hull(c, a)
      BY <1>4, <1>6, <2>2, <3>1, <3>2, <3>3 DEF Extended
    <3>5. trail \in Area
      BY <3>4, HullCovers
    <3>6. ASSUME share_id = server.share, NEW x \in S PROVE Inside(x, trail)
      <4>1. x \in server.stamps => Inside(x, c)
        BY <1>2, <2>2, <3>3, <3>6 DEF RInv, TrailCovers
      <4>2. x \notin server.stamps => x = p /\ Inside(p, a)
        <5>1. ASSUME x \notin server.stamps
              PROVE  x = p /\ server.state = "up" /\ Inside(p, Full(server.desktop))
          BY <1>7, <3>6, <5>1
        <5>2. ASSUME x \notin server.stamps PROVE Inside(p, Full(desktop))
          BY <1>6, <5>1, <5>2
        <5> QED
          BY <3>1, <3>2, <5>1, <5>2
      <4>3. Inside(x, c) \/ Inside(x, a)
        BY <4>1, <4>2
      <4>4. CASE c = NoArea
        <5>1. x \in Points /\ x.x \in Nat
          BY <1>9, <3>6, BringUpAssumption
        <5>2. ~Inside(x, c)
          BY <4>4, <5>1 DEF Inside, NoArea
        <5> QED
          BY <3>4, <4>3, <4>4, <5>2
      <4>5. CASE c # NoArea
        BY <1>9, <3>4, <3>6, <4>3, <4>5, HullCovers
      <4> QED
        BY <4>4, <4>5
    <3> QED
      BY <3>5, <3>6
  <2> QED
    BY <2>1, <2>2
<1>13. CASE cursor_trail' = trail /\ server' = moved /\ UNCHANGED asked
  <2>1. StampsInStep'
    BY <1>10, <1>11, <1>13 DEF StampsInStep
  <2> QED
    BY <1>2, <1>10, <1>12, <1>13, <2>1, TrailKeeps
<1>14. CASE env.cursor /\ FlushTrail(trail, moved)
  <2>1. NoArea \in Area
    BY DEF NoArea, Area
  <2>2. cursor_trail' = NoArea
    BY <1>14 DEF FlushTrail
  <2>3. CASE Inverted(trail)
    <3>1. asked' = asked /\ server' = moved
      BY <1>14, <2>3 DEF FlushTrail
    <3>2. StampsInStep'
      BY <1>10, <1>11, <3>1 DEF StampsInStep
    <3>3. ASSUME share_id = server.share PROVE S = {}
      <4>1. ASSUME NEW x \in S PROVE FALSE
        <5>1. Inside(x, trail)
          BY <1>12, <1>14, <3>3
        <5>2. /\ trail.left \in Int /\ trail.right \in Int /\ trail.top \in Int
              /\ trail.bottom \in Int /\ x.x \in Nat /\ x.y \in Nat
          BY <1>9, <1>12, BringUpAssumption DEF Area
        <5> QED
          BY <2>3, <5>1, <5>2 DEF Inside, Inverted
      <4> QED
        BY <4>1
    <3> QED
      BY <1>2, <1>10, <2>1, <2>2, <3>1, <3>2, <3>3, TrailKeeps
  <2>4. CASE ~Inverted(trail)
    <3>1. asked' = trail /\ server' = Receive(moved, Ask("refresh", share_id, trail))
      BY <1>14, <2>4 DEF FlushTrail
    <3>2. PICK id : id = share_id
      OBVIOUS
    <3>3. /\ Heeds(moved, server') /\ server'.state = moved.state
          /\ id = moved.share => \A x \in server'.stamps : ~Inside(x, trail)
      BY <1>10, <3>1, <3>2, RefreshHeeds
    <3>4. server'.stamps \subseteq S
      BY <1>10, <3>3 DEF Heeds
    <3>5. StampsInStep'
      BY <1>10, <1>11, <3>3, <3>4 DEF StampsInStep, Heeds
    <3>6. share_id = server.share => server'.stamps = {}
      BY <1>10, <1>12, <1>14, <3>2, <3>3, <3>4
    <3> QED
      BY <1>2, <1>10, <1>12, <2>1, <2>2, <2>4, <3>1, <3>3, <3>5, <3>6, TrailKeeps DEF Heeds
  <2> QED
    BY <2>3, <2>4
<1> QED
  BY <1>5, <1>13, <1>14

LEMMA IdleRefreshKeeps ==
  ASSUME RInv, IdleRefresh
  PROVE  RInv'
<1>1. /\ stage = "active" /\ cursor_trail' = NoArea /\ asked' = Full(desktop)
      /\ server' = AfterAll(server, <<Ask("refresh", share_id, Full(desktop))>>)
      /\ UNCHANGED trailOnly
  BY DEF IdleRefresh, SendAll
<1>2. /\ server \in ServerState /\ desktop \in Sizes /\ StampsInStep
      /\ server.state \in {"up", "down"} => desktop = server.desktop
  BY <1>1 DEF RInv, SessionTypeOK, StagesInStep
<1>3. PICK s, id, full, m : s = server /\ id = share_id /\ full = Full(desktop)
                            /\ m = Ask("refresh", id, full)
  OBVIOUS
<1>4. server' = Receive(s, m)
  BY <1>1, <1>3, AfterOne
<1>5. /\ Heeds(server, server') /\ server'.state = server.state
      /\ id = server.share => \A p \in server'.stamps : ~Inside(p, full)
  BY <1>2, <1>3, <1>4, RefreshHeeds
<1>6. StampsInStep'
  BY <1>2, <1>5 DEF StampsInStep, Heeds
<1>7. share_id = server.share => server'.stamps = {}
  <2>1. server.state \in {"wait", "demand", "up", "down"}
    BY <1>2 DEF ServerState
  <2>2. CASE server.state \in {"wait", "demand"}
    BY <1>2, <1>5, <2>2 DEF StampsInStep, Heeds
  <2>3. CASE server.state \in {"up", "down"}
    BY <1>2, <1>3, <1>5, <2>3 DEF StampsInStep, Heeds
  <2> QED
    BY <2>1, <2>2, <2>3
<1>8. NoArea \in Area /\ Full(desktop) \in Area /\ ~Inverted(Full(desktop))
  BY <1>2, FullIsArea DEF NoArea, Area
<1> QED
  BY <1>1, <1>5, <1>6, <1>7, <1>8, TrailKeeps DEF Heeds

-----------------------------------------------------------------------------
(* The server *)

\* A PDU joins the queue behind no DemandActive.
LEMMA AppendKeepsFlight ==
  ASSUME RInv, NEW p \in Pdus, pdus' = Append(pdus, p), Len(pdus) < MaxQueue, env' = env,
         server.state # "demand",
         \A i \in DOMAIN pdus : pdus[i].kind = "deactivate" =>
            server'.state \in {"down", "demand"} /\ server'.deactivated,
         p.kind = "demand" =>
            /\ server'.state = "demand"
            /\ p.frame.share = server'.share /\ p.frame.size = server'.desktop,
         p.kind = "deactivate" => server'.state \in {"down", "demand"} /\ server'.deactivated
  PROVE  FlightInStep' /\ pdus' \in Seq(Pdus') /\ Len(pdus') <= MaxQueue
<1>1. PICK q, a : q = pdus /\ a = Append(pdus, p)
  OBVIOUS
<1>2. PICK S : S = Pdus
  OBVIOUS
<1>3. q \in Seq(S) /\ p \in S /\ Len(q) \in Nat /\ MaxQueue \in Nat
  BY <1>1, <1>2, BringUpAssumption DEF RInv, SessionTypeOK
<1>4. /\ a \in Seq(S) /\ Len(a) = Len(q) + 1 /\ a[Len(q) + 1] = p
      /\ \A i \in 1..Len(q) : a[i] = q[i]
  BY <1>1, <1>3, AppendProperties
<1>5. DOMAIN a = 1..(Len(q) + 1) /\ DOMAIN q = 1..Len(q)
  BY <1>3, <1>4
<1>6. ASSUME NEW i \in DOMAIN a
      PROVE  /\ a[i].kind = "demand" =>
                  /\ i = Len(a) /\ server'.state = "demand"
                  /\ a[i].frame.share = server'.share /\ a[i].frame.size = server'.desktop
             /\ a[i].kind = "deactivate" =>
                  server'.state \in {"down", "demand"} /\ server'.deactivated
  <2>1. CASE i = Len(q) + 1
    BY <1>4, <2>1
  <2>2. CASE i \in DOMAIN q
    <3>1. a[i] = q[i]
      BY <1>4, <1>5, <2>2
    <3>2. q[i].kind # "demand"
      BY <1>1, <2>2 DEF RInv, FlightInStep
    <3>3. q[i].kind = "deactivate" => server'.state \in {"down", "demand"} /\ server'.deactivated
      BY <1>1, <2>2
    <3> QED
      BY <3>1, <3>2, <3>3
  <2> QED
    BY <1>3, <1>5, <2>1, <2>2
<1>7. FlightInStep'
  BY <1>1, <1>6 DEF FlightInStep
<1>8. Len(a) <= MaxQueue
  BY <1>1, <1>3, <1>4
<1> QED
  BY <1>1, <1>2, <1>4, <1>7, <1>8, SameChannels

\* An activation of a server that waits, is up or is down.
LEMMA NewActivationKeeps ==
  ASSUME RInv, NEW s \in ServerState, NEW lists \in SUBSET CapLists, NewActivation(s, lists),
         server.state # "demand",
         s.attached = server.attached \/ server.state = "up",
         s.rounds = server.rounds \/ server.state = "up",
         server.state # "up" => s.deactivated = server.deactivated,
         UNCHANGED <<env, cause, share_id, desktop, chans, snapshot, arbitration,
                     cursor_trail, asked>>,
         \/ stage' = stage /\ server.state \in {"up", "down"}
         \/ /\ stage = "none" /\ stage' = "connecting"
            /\ \A caps \in lists : \A i \in DOMAIN caps : ~Short(caps[i])
  PROVE  RInv'
<1>1. PICK caps \in lists, share \in ShareIds, size \in Sizes :
         /\ ServerSends(Demand(share, size, caps))
         /\ server' = [s EXCEPT !.state = "demand", !.share = share, !.desktop = size,
                          !.painted = FALSE, !.stamps = {}, !.heard = @ \ {"wlc", "output"}]
  BY DEF NewActivation
<1>2. /\ server' \in ServerState /\ server'.state = "demand" /\ server'.share = share
      /\ server'.desktop = size /\ server'.stamps = {} /\ server'.attached = s.attached
      /\ server'.rounds = s.rounds /\ server'.deactivated = s.deactivated
  <2>1. PICK t : t = server'
    OBVIOUS
  <2>2. t = [s EXCEPT !.state = "demand", !.share = share, !.desktop = size,
                !.painted = FALSE, !.stamps = {}, !.heard = @ \ {"wlc", "output"}]
    BY <1>1, <2>1
  <2>3. /\ t \in ServerState /\ t.state = "demand" /\ t.share = share /\ t.desktop = size
        /\ t.stamps = {} /\ t.attached = s.attached /\ t.rounds = s.rounds
        /\ t.deactivated = s.deactivated
    BY <2>2 DEF ServerState
  <2> QED
    BY <2>1, <2>3
<1>3. PICK d : d = Demand(share, size, caps)
  OBVIOUS
<1>4. /\ d \in Pdus /\ d.kind = "demand" /\ d.frame.share = share
      /\ d.frame.size = size /\ d.frame.caps = caps
  BY <1>3, DemandSays DEF Pdus
<1>5. pdus' = Append(pdus, d) /\ Len(pdus) < MaxQueue
  BY <1>1, <1>3 DEF ServerSends
<1>6. \A i \in DOMAIN pdus : pdus[i].kind = "deactivate" =>
         server'.state \in {"down", "demand"} /\ server'.deactivated
  BY <1>2 DEF RInv, FlightInStep
<1>7. FlightInStep' /\ pdus' \in Seq(Pdus') /\ Len(pdus') <= MaxQueue
  BY <1>2, <1>4, <1>5, <1>6, AppendKeepsFlight
<1>8. Joined' = Joined /\ ToSet(Declared)' = ToSet(Declared)
  BY SameChannels
<1>9. SessionTypeOK'
  BY <1>2, <1>7, <1>8 DEF RInv, SessionTypeOK
<1>10. StagesInStep'
  <2>1. CASE stage' = stage /\ server.state \in {"up", "down"}
    BY <1>2, <1>8, <2>1 DEF RInv, StagesInStep
  <2>2. CASE /\ stage = "none" /\ stage' = "connecting"
             /\ \A c \in lists : \A i \in DOMAIN c : ~Short(c[i])
    <3>1. pdus = <<>> /\ server.state = "wait"
      BY <2>2 DEF RInv, StagesInStep
    <3>2. pdus' = <<d>>
      BY <1>5, <3>1
    <3>3. \A i \in DOMAIN pdus' : pdus'[i] = d
      BY <3>2
    <3>4. \A j \in DOMAIN d.frame.caps : ~Short(d.frame.caps[j])
      BY <1>4, <2>2
    <3> QED
      BY <1>2, <1>4, <2>2, <3>1, <3>3, <3>4 DEF RInv, StagesInStep
  <2> QED
    BY <2>1, <2>2
<1>11. StampsInStep'
  BY <1>2 DEF StampsInStep
<1>12. ChannelsSurvive'
  BY <1>8 DEF RInv, ChannelsSurvive
<1>13. PaintedUnlessDeactivated' /\ TrailCovers'
  BY <1>2 DEF RInv, PaintedUnlessDeactivated, TrailCovers
<1> QED
  BY <1>7, <1>9, <1>10, <1>11, <1>12, <1>13 DEF RInv

LEMMA ServerActivatesKeeps ==
  ASSUME RInv, ServerActivates
  PROVE  RInv'
<1>1. PICK s, lists : s = server /\ lists = {caps \in CapLists : \A i \in DOMAIN caps : ~Short(caps[i])}
  OBVIOUS
<1>2. s \in ServerState /\ lists \in SUBSET CapLists /\ server.state = "wait"
  BY <1>1 DEF ServerActivates, RInv, SessionTypeOK, StagesInStep
<1>3. NewActivation(s, lists)
  BY <1>1 DEF ServerActivates
<1> QED
  BY <1>1, <1>2, <1>3, NewActivationKeeps DEF ServerActivates

\* The server's counters at the start of an activation.
LEMMA ServerActivatesAgainKeeps ==
  ASSUME RInv, ServerAttaches \/ ServerReactivates \/ ServerDemands
  PROVE  RInv'
<1>1. server \in ServerState /\ CapLists \in SUBSET CapLists /\ MaxReactivations \in Nat
  BY BringUpAssumption DEF RInv, SessionTypeOK
<1>2. CASE ServerAttaches
  <2>1. PICK s : s = [server EXCEPT !.attached = TRUE, !.deactivated = FALSE]
    OBVIOUS
  <2>2. s \in ServerState /\ s.rounds = server.rounds
    BY <1>1, <2>1 DEF ServerState
  <2> QED
    BY <1>1, <1>2, <2>1, <2>2, NewActivationKeeps DEF ServerAttaches, clientSide
<1>3. CASE ServerReactivates
  <2>1. PICK s : s = [server EXCEPT !.rounds = @ + 1, !.deactivated = FALSE]
    OBVIOUS
  <2>2. server.rounds + 1 \in 0..MaxReactivations
    BY <1>1, <1>3 DEF ServerReactivates, ServerState
  <2>3. s \in ServerState /\ s.attached = server.attached
    BY <1>1, <2>1, <2>2 DEF ServerState
  <2> QED
    BY <1>1, <1>3, <2>1, <2>3, NewActivationKeeps DEF ServerReactivates, clientSide
<1>4. CASE ServerDemands
  <2>1. PICK s : s = server
    OBVIOUS
  <2> QED
    BY <1>1, <1>4, <2>1, NewActivationKeeps DEF ServerDemands, clientSide
<1> QED
  BY <1>2, <1>3, <1>4

\* A PDU of a server that stays on its activation.
LEMMA SpeaksKeeps ==
  ASSUME RInv, server.state = "up", UNCHANGED clientSide,
         server' \in ServerState, server'.state \in {"up", "down"},
         server'.share = server.share, server'.desktop = server.desktop,
         server'.painted = server.painted, server'.stamps = server.stamps,
         server'.attached = server.attached,
         server'.state = "up" =>
            server'.deactivated = server.deactivated /\ server'.rounds = server.rounds,
         FlightInStep', pdus' \in Seq(Pdus'), Len(pdus') <= MaxQueue
  PROVE  RInv'
<1>1. Joined' = Joined /\ ToSet(Declared)' = ToSet(Declared)
  BY SameChannels DEF clientSide
<1>2. SessionTypeOK'
  BY <1>1 DEF RInv, SessionTypeOK, clientSide
<1>3. StagesInStep'
  BY <1>1 DEF RInv, StagesInStep, clientSide
<1>4. StampsInStep' /\ ChannelsSurvive'
  BY <1>1 DEF RInv, StampsInStep, ChannelsSurvive, clientSide
<1>5. PaintedUnlessDeactivated' /\ TrailCovers'
  BY DEF RInv, PaintedUnlessDeactivated, TrailCovers, clientSide
<1> QED
  BY <1>2, <1>3, <1>4, <1>5 DEF RInv

LEMMA ServerSpeaksKeeps ==
  ASSUME RInv, ServerArbitrates \/ ServerDeactivates \/ ServerTraffic
  PROVE  RInv'
<1>1. /\ server \in ServerState /\ MaxReactivations \in Nat
      /\ server.state = "up" /\ UNCHANGED clientSide /\ env' = env
  BY BringUpAssumption
  DEF RInv, SessionTypeOK, ServerArbitrates, ServerDeactivates, ServerTraffic, clientSide
<1>2. \A i \in DOMAIN pdus : pdus[i].kind # "deactivate"
  BY <1>1 DEF RInv, FlightInStep
<1>3. CASE ServerArbitrates
  <2>1. "sessarb" \in DOMAIN Joined
    <3>1. Declared = WlcChannels
      BY <1>3 DEF ServerArbitrates, Declared
    <3> QED
      BY <3>1 DEF Joined, WlcChannels, ToSet
  <2>2. PICK taken \in BOOLEAN :
           /\ ServerSends(Svc("sessarb", IF taken THEN "in_use" ELSE "allowed"))
           /\ server' = [server EXCEPT !.allowed = ~taken]
    <3>1. PICK t : t = (server.inUse /\ "takeover" \notin server.heard)
      OBVIOUS
    <3>2. t \in BOOLEAN
      BY <1>1, <3>1 DEF ServerState
    <3> QED
      BY <1>3, <3>1, <3>2 DEF ServerArbitrates
  <2>3. PICK p : p = Svc("sessarb", IF taken THEN "in_use" ELSE "allowed")
    OBVIOUS
  <2>4. p \in Pdus /\ p.kind = "svc"
    BY <2>1, <2>3 DEF Pdus, Svc
  <2>5. /\ server' \in ServerState /\ server'.state = "up" /\ server'.share = server.share
        /\ server'.desktop = server.desktop /\ server'.painted = server.painted
        /\ server'.stamps = server.stamps /\ server'.attached = server.attached
        /\ server'.rounds = server.rounds /\ server'.deactivated = server.deactivated
    BY <1>1, <2>2 DEF ServerState
  <2>6. pdus' = Append(pdus, p) /\ Len(pdus) < MaxQueue
    BY <2>2, <2>3 DEF ServerSends
  <2>7. FlightInStep' /\ pdus' \in Seq(Pdus') /\ Len(pdus') <= MaxQueue
    BY <1>1, <1>2, <2>4, <2>5, <2>6, AppendKeepsFlight
  <2> QED
    BY <1>1, <2>5, <2>7, SpeaksKeeps
<1>4. CASE ServerDeactivates
  <2>1. PICK p : p = [kind |-> "deactivate", share |-> server.share]
    OBVIOUS
  <2>2. server.share \in ShareIds
    BY <1>1 DEF RInv, StagesInStep
  <2>3. p \in Pdus /\ p.kind = "deactivate"
    BY <2>1, <2>2 DEF Pdus
  <2>4. server.rounds + 1 \in 0..MaxReactivations
    BY <1>1, <1>4 DEF ServerDeactivates, ServerState
  <2>5. /\ server' \in ServerState /\ server'.state = "down" /\ server'.share = server.share
        /\ server'.desktop = server.desktop /\ server'.painted = server.painted
        /\ server'.stamps = server.stamps /\ server'.attached = server.attached
        /\ server'.deactivated
    BY <1>1, <1>4, <2>4 DEF ServerState, ServerDeactivates
  <2>6. pdus' = Append(pdus, p) /\ Len(pdus) < MaxQueue
    BY <1>4, <2>1 DEF ServerDeactivates, ServerSends
  <2>7. FlightInStep' /\ pdus' \in Seq(Pdus') /\ Len(pdus') <= MaxQueue
    BY <1>1, <1>2, <2>3, <2>5, <2>6, AppendKeepsFlight
  <2> QED
    BY <1>1, <2>5, <2>7, SpeaksKeeps
<1>5. CASE ServerTraffic
  <2>1. PICK n \in DOMAIN Joined : ServerSends(Svc(n, "data"))
    BY <1>5 DEF ServerTraffic
  <2>2. PICK p : p = Svc(n, "data")
    OBVIOUS
  <2>3. p \in Pdus /\ p.kind = "svc"
    BY <2>1, <2>2 DEF Pdus, Svc
  <2>4. server' = server
    BY <1>5 DEF ServerTraffic
  <2>5. pdus' = Append(pdus, p) /\ Len(pdus) < MaxQueue
    BY <2>1, <2>2 DEF ServerSends
  <2>6. FlightInStep' /\ pdus' \in Seq(Pdus') /\ Len(pdus') <= MaxQueue
    BY <1>1, <1>2, <2>3, <2>4, <2>5, AppendKeepsFlight
  <2> QED
    BY <1>1, <2>4, <2>6, SpeaksKeeps
<1> QED
  BY <1>3, <1>4, <1>5

-----------------------------------------------------------------------------
(* The whole *)

LEMMA SessionStarts ==
  ASSUME Init
  PROVE  RInv
<1>1. PICK s : s = server
  OBVIOUS
<1>2. s \in [state : {"wait"}, share : {0}, desktop : Sizes,
            inUse : BOOLEAN, allowed : {FALSE}, attached : {FALSE},
            heard : {{}}, painted : {FALSE}, stamps : {{}},
            deactivated : {FALSE}, rounds : {0}]
  BY <1>1 DEF Init
<1>3. /\ s.state = "wait" /\ s.attached = FALSE /\ s.stamps = {} /\ s.deactivated = FALSE
      /\ s.rounds = 0
  BY <1>2
<1>4. s \in ServerState
  <2>1. 0 \in 0..MaxReactivations
    BY BringUpAssumption
  <2>2. s.rounds \in 0..MaxReactivations
    BY <1>3, <2>1
  <2>3. /\ s.allowed \in BOOLEAN /\ s.attached \in BOOLEAN /\ s.painted \in BOOLEAN
        /\ s.deactivated \in BOOLEAN /\ s.inUse \in BOOLEAN /\ s.desktop \in Sizes
        /\ s.share \in ShareIds \union {0} /\ s.state \in {"wait", "demand", "up", "down"}
        /\ s.heard \in SUBSET {"event", "takeover", "reply", "wlc", "keys", "output"}
        /\ s.stamps \in SUBSET Points
    BY <1>2
  <2>4. s = [state |-> s.state, share |-> s.share, desktop |-> s.desktop,
             inUse |-> s.inUse, allowed |-> s.allowed, attached |-> s.attached,
             heard |-> s.heard, painted |-> s.painted, stamps |-> s.stamps,
             deactivated |-> s.deactivated, rounds |-> s.rounds]
    BY <1>2
  <2> QED
    BY <2>2, <2>3, <2>4 DEF ServerState
<1>5. SessionTypeOK
  <2>1. pdus \in Seq(Pdus) /\ Len(pdus) <= MaxQueue
    BY EmptySeq, BringUpAssumption DEF Init
  <2>2. DOMAIN chans = {} /\ DOMAIN snapshot = {}
    BY DEF Init, NoChannels
  <2> QED
    BY <1>1, <1>4, <2>1, <2>2 DEF Init, SessionTypeOK, FreshArbitration, NoArea, Area
<1>6. StagesInStep /\ StampsInStep
  BY <1>1, <1>3 DEF Init, StagesInStep, StampsInStep
<1>7. FlightInStep
  BY DEF Init, FlightInStep
<1>8. ChannelsSurvive /\ PaintedUnlessDeactivated /\ TrailCovers
  BY DEF Init, ChannelsSurvive, PaintedUnlessDeactivated, TrailCovers
<1> QED
  BY <1>5, <1>6, <1>7, <1>8 DEF RInv

\* Nothing of the session's invariant is about the handshake, and the other way
\* round.
LEMMA SessionStays ==
  ASSUME RInv, UNCHANGED activationVars
  PROVE  RInv'
<1>1. Joined' = Joined /\ Pdus' = Pdus /\ ToSet(Declared)' = ToSet(Declared)
  BY SameChannels DEF activationVars
<1>2. SessionTypeOK'
  BY <1>1 DEF RInv, SessionTypeOK, activationVars
<1>3. StagesInStep' /\ FlightInStep' /\ StampsInStep'
  BY <1>1 DEF RInv, StagesInStep, FlightInStep, StampsInStep, activationVars
<1>4. ChannelsSurvive' /\ PaintedUnlessDeactivated' /\ TrailCovers'
  BY <1>1 DEF RInv, ChannelsSurvive, PaintedUnlessDeactivated,
     TrailCovers, activationVars
<1> QED
  BY <1>2, <1>3, <1>4 DEF RInv

LEMMA HandshakeStays ==
  ASSUME HInv, UNCHANGED handshakeVars
  PROVE  HInv'
  BY DEF HInv, HandshakeTypeOK, ExchangeInStep, AnswersInStep, GrantIsTheServers, Tokens,
     handshakeVars

LEMMA SessionKeeps ==
  ASSUME RInv,
         \/ SessionStep \/ MoveMouse \/ IdleRefresh
         \/ ServerActs \/ ServerReactivates \/ ServerDeactivates \/ ServerTraffic
  PROVE  RInv'
<1>1. CASE SessionStep
  BY <1>1, ConnectRdpKeeps, DemandsKeep, HandleDeactivateAllKeeps, HandleSvcKeeps DEF SessionStep
<1>2. CASE MoveMouse \/ IdleRefresh
  BY <1>2, MoveMouseKeeps, IdleRefreshKeeps
<1>3. CASE ServerActs
  BY <1>3, ServerActivatesKeeps, ServerActivatesAgainKeeps, ServerSpeaksKeeps DEF ServerActs
<1>4. CASE ServerReactivates \/ ServerDeactivates \/ ServerTraffic
  BY <1>4, ServerActivatesAgainKeeps, ServerSpeaksKeeps
<1> QED
  BY <1>1, <1>2, <1>3, <1>4

\* A session begins only where the server's grant has been read.
LEMMA BeginsGranted ==
  ASSUME \/ SessionStep \/ MoveMouse \/ IdleRefresh
         \/ ServerActs \/ ServerReactivates \/ ServerDeactivates \/ ServerTraffic,
         stage = "none", stage' # "none"
  PROVE  phase = "granted"
<1>1. CASE SessionStep
  BY <1>1 DEF SessionStep, ConnectRdp, HandleDemandActive, HandleDeactivateAll,
     FinishReactivation, HandleSvc, Arrived
<1>2. CASE MoveMouse \/ IdleRefresh
  BY <1>2 DEF MoveMouse, IdleRefresh
<1>3. CASE ServerActs \/ ServerReactivates \/ ServerDeactivates \/ ServerTraffic
  BY <1>3 DEF ServerActs, ServerActivates, ServerArbitrates, ServerAttaches, ServerDemands,
     ServerReactivates, ServerDeactivates, ServerTraffic, clientSide
<1> QED
  BY <1>1, <1>2, <1>3

LEMMA IInvParts ==
  IInv <=> HInv /\ RInv /\ (stage # "none" => phase = "granted")
  BY DEF IInv, HInv, RInv, TypeOK

LEMMA NextKeeps ==
  ASSUME IInv, [Next]_vars
  PROVE  IInv'
<1>1. HInv /\ RInv /\ (stage # "none" => phase = "granted")
  BY IInvParts
<1>2. CASE HandshakeNext /\ UNCHANGED activationVars
  <2>1. HInv' /\ (phase = "granted" => phase' = "granted")
    BY <1>1, <1>2, HandshakeKeeps
  <2>2. RInv' /\ stage' = stage
    BY <1>1, <1>2, SessionStays DEF activationVars
  <2> QED
    BY <1>1, <2>1, <2>2 DEF IInv, HInv, RInv, TypeOK
<1>3. CASE /\ \/ SessionStep \/ MoveMouse \/ IdleRefresh
              \/ ServerActs \/ ServerReactivates \/ ServerDeactivates \/ ServerTraffic
           /\ UNCHANGED handshakeVars
  <2>1. HInv' /\ phase' = phase
    BY <1>1, <1>3, HandshakeStays DEF handshakeVars
  <2>2. RInv'
    BY <1>1, <1>3, SessionKeeps
  <2>3. stage' # "none" => phase = "granted"
    BY <1>1, <1>3, BeginsGranted
  <2> QED
    BY <2>1, <2>2, <2>3 DEF IInv, HInv, RInv, TypeOK
<1>4. CASE UNCHANGED vars
  <2>1. HInv' /\ phase' = phase
    BY <1>1, <1>4, HandshakeStays DEF handshakeVars, vars
  <2>2. RInv' /\ stage' = stage
    BY <1>1, <1>4, SessionStays DEF activationVars, vars
  <2> QED
    BY <1>1, <2>1, <2>2 DEF IInv, HInv, RInv, TypeOK
<1> QED
  BY <1>2, <1>3, <1>4 DEF Next

\* From the connect to any number of reactivations the two ends of the handshake
\* and the two ends of the RDP session stay in step, whatever the package's
\* exchange, the settings, the share ids, sizes and capabilities the server
\* chooses and the mouse does (SccmSession::connect, run_active_session).
THEOREM Invariance == Spec => []IInv
<1>1. Init => IInv
  BY HandshakeStarts, SessionStarts, IInvParts DEF Init
<1>2. IInv /\ [Next]_vars => IInv'
  BY NextKeeps
<1> QED
  BY <1>1, <1>2, PTL DEF Spec

\* connect returns a session only when the server granted that very access over a
\* context that encrypts and that both ends have completed
\* (SccmSession::connect).
THEOREM GrantedByTheServer == Spec => []GrantIsTheServers
<1>1. IInv => GrantIsTheServers
  BY DEF IInv
<1> QED
  BY <1>1, Invariance, PTL

\* The WLC channel set keeps every id the server joined over every reactivation
\* (build_wlc_channel_set).
THEOREM ChannelsKept == Spec => []ChannelsSurvive
<1>1. IInv => ChannelsSurvive
  BY DEF IInv
<1> QED
  BY <1>1, Invariance, PTL

\* What is put behind the queue, and the queue as it is, is not the rest of it.
LEMMA NotTook ==
  ASSUME RInv, pdus # <<>>, pdus' = pdus \/ \E d : pdus' = Append(pdus, d)
  PROVE  ~Took
<1> SUFFICES ASSUME Took PROVE FALSE
  OBVIOUS
<1>1. Len(pdus) \in Nat /\ Len(Tail(pdus)) = Len(pdus) - 1
  BY QueueHead
<1>2. PICK m : m = Len(pdus')
  OBVIOUS
<1>3. m = Len(pdus) - 1
  <2>1. Len(pdus') = Len(Tail(pdus))
    BY Zenon DEF Took
  <2> QED
    BY <1>1, <1>2, <2>1, Zenon
<1>4. CASE pdus' = pdus
  <2>1. m = Len(pdus)
    BY <1>2, <1>4, Zenon
  <2> QED
    BY <1>1, <1>3, <2>1
<1>5. CASE \E d : pdus' = Append(pdus, d)
  <2>1. PICK q, d : q = pdus /\ pdus' = Append(q, d)
    BY <1>5
  <2>2. PICK S : q \in Seq(S)
    BY <2>1 DEF RInv, SessionTypeOK
  <2>3. Len(Append(q, d)) = Len(q) + 1
    BY <2>2
  <2>4. m = Len(pdus) + 1
    BY <1>2, <2>1, <2>3, Zenon
  <2> QED
    BY <1>1, <1>3, <2>4
<1> QED
  BY <1>4, <1>5

\* The server puts PDUs behind the queue and does not end the session.
LEMMA ServerOnlySends ==
  ASSUME ServerActs \/ ServerReactivates \/ ServerDeactivates \/ ServerTraffic
  PROVE  cause' = cause /\ \E d : pdus' = Append(pdus, d)
<1>1. \A s, lists : NewActivation(s, lists) => \E d : pdus' = Append(pdus, d)
  BY DEF NewActivation, ServerSends
<1>2. CASE ServerActivates \/ ServerAttaches \/ ServerDemands \/ ServerReactivates
  BY <1>1, <1>2 DEF ServerActivates, ServerAttaches, ServerDemands, ServerReactivates, clientSide
<1>3. CASE ServerArbitrates \/ ServerDeactivates \/ ServerTraffic
  BY <1>3 DEF ServerArbitrates, ServerDeactivates, ServerTraffic, ServerSends, clientSide
<1> QED
  BY <1>2, <1>3 DEF ServerActs

\* What a DemandActive at the head of the queue does to the session.
Decided ==
    /\ cause' # cause => Beyond(Next1.frame)
    /\ Took /\ stage' = "active" => ~Beyond(Next1.frame)

LEMMA ReactivateDecides ==
  ASSUME RInv, pdus # <<>>, Next1.kind = "demand", NEW share,
         Reactivate(FixShortRev2(Next1), share)
  PROVE  Decided
<1>1. PICK caps \in CapLists : Next1 = Demand(server.share, server.desktop, caps)
  BY DemandAtHead
<1>2. PICK d : d = FixShortRev2(Next1)
  OBVIOUS
<1>3. Decodes(d) <=> ~Beyond(Next1.frame)
  BY <1>1, <1>2, PaddedDecodes
<1>4. CASE ~Decodes(d) /\ End("demand")
  <2>1. stage' # "active"
    BY <1>4 DEF End
  <2> QED
    BY <1>3, <1>4, <2>1 DEF Decided
<1>5. CASE Decodes(d) /\ cause' = cause
  BY <1>3, <1>5 DEF Decided
<1>6. Reactivate(d, share)
  BY <1>2
<1> QED
  BY <1>4, <1>5, <1>6 DEF Reactivate

LEMMA ConnectDecides ==
  ASSUME RInv, ConnectRdp
  PROVE  Decided
<1>1. stage = "connecting" /\ pdus # <<>> /\ Next1.kind = "demand"
  BY DEF ConnectRdp, Arrived
<1>2. PICK caps \in CapLists : Next1 = Demand(server.share, server.desktop, caps)
  BY <1>1, DemandAtHead
<1>3. Next1.frame.caps = caps
  BY <1>2, DemandSays
<1>4. \A j \in DOMAIN caps : ~Short(caps[j])
  <2>1. Next1 = pdus[1] /\ 1 \in DOMAIN pdus
    BY <1>1, QueueHead
  <2>2. \A j \in DOMAIN Next1.frame.caps : ~Short(Next1.frame.caps[j])
    BY <1>1, <2>1 DEF RInv, StagesInStep
  <2> QED
    BY <1>3, <2>2
<1>5. Decodes(Next1)
  BY <1>2, <1>4, CapListsAre, WholeDecodes
<1>6. ~Beyond(Next1.frame)
  BY <1>3, <1>4 DEF Beyond
<1>7. cause' = cause
  BY <1>5 DEF ConnectRdp
<1> QED
  BY <1>6, <1>7 DEF Decided

\* Whatever capabilities, short or whole and as many as there may be, the server puts
\* into the DemandActives of its reactivations, and whatever lengths they give the
\* frame: a DemandActive ends the session exactly when it is one the padding does not
\* get right; the first one of the connection is not padded and has whole capabilities
\* (fix_short_bitmap_cache_rev2, drive_reactivation).
THEOREM PaddingDecodes == Spec => ReactivationDecodes
<1>1. IInv /\ [Next]_vars => [pdus # <<>> /\ Next1.kind = "demand" => Decided]_vars
  <2> SUFFICES ASSUME IInv, Next, pdus # <<>>, Next1.kind = "demand" PROVE Decided
    OBVIOUS
  <2>1. RInv
    BY IInvParts
  <2>2. ASSUME cause' = cause, pdus' = pdus \/ \E d : pdus' = Append(pdus, d) PROVE Decided
    BY <2>1, <2>2, NotTook DEF Decided
  <2>3. CASE UNCHANGED activationVars
    BY <2>2, <2>3 DEF activationVars
  <2>4. CASE SessionStep
    <3>1. CASE ConnectRdp
      BY <2>1, <3>1, ConnectDecides
    <3>2. CASE HandleDemandActive
      BY <2>1, <3>2, ReactivateDecides DEF HandleDemandActive
    <3>3. CASE FinishReactivation
      BY <2>1, <3>3, ReactivateDecides DEF FinishReactivation
    <3>4. ~HandleDeactivateAll /\ ~HandleSvc
      BY DEF HandleDeactivateAll, HandleSvc, Arrived
    <3> QED
      BY <2>4, <3>1, <3>2, <3>3, <3>4 DEF SessionStep
  <2>5. CASE MoveMouse \/ IdleRefresh
    BY <2>2, <2>5 DEF MoveMouse, IdleRefresh, trailOnly
  <2>6. CASE ServerActs \/ ServerReactivates \/ ServerDeactivates \/ ServerTraffic
    BY <2>2, <2>6, ServerOnlySends
  <2> QED
    BY <2>3, <2>4, <2>5, <2>6 DEF Next
<1>2. Spec => [][pdus # <<>> /\ Next1.kind = "demand" => Decided]_vars
  BY <1>1, Invariance, PTL DEF Spec
<1> QED
  BY <1>2 DEF ReactivationDecodes, Decided

\* The client has the server's share id and a painted desktop, unless a
\* DeactivateAll came first (drive_reactivation, send_refresh_rect).
THEOREM Painted == Spec => []PaintedUnlessDeactivated
<1>1. IInv => PaintedUnlessDeactivated
  BY DEF IInv
<1> QED
  BY <1>1, Invariance, PTL

\* No cursor image is left outside the trail, and no inverted area is asked for,
\* whatever the desktop's size and the padding (flush_cursor_trail).
THEOREM TrailKept == Spec => []TrailCovers
<1>1. IInv => TrailCovers
  BY DEF IInv
<1> QED
  BY <1>1, Invariance, PTL
=============================================================================
