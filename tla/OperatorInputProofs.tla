------------------------- MODULE OperatorInputProofs -------------------------
(***************************************************************************)
(* Proofs about OperatorInput, for every set of keys, keyboard layout,      *)
(* clipboard text and channel capacity.                                     *)
(***************************************************************************)
EXTENDS OperatorInput, SequenceTheorems, WellFoundedInduction, TLAPS

-----------------------------------------------------------------------------
(* Walking through text and events *)

\* A nonempty set of naturals has a least element.
LEMMA LeastNat ==
  ASSUME NEW T, T \subseteq Nat, T # {}
  PROVE  \E x \in T : \A y \in T : x <= y
<1>1. \E x \in T : \A y \in T : ~ (<<y, x>> \in OpToRel(<, Nat))
  BY NatLessThanWellFounded, WFMin, Zenon DEF OpToRel
<1>2. PICK x \in T : \A y \in T : ~ (<<y, x>> \in OpToRel(<, Nat))
  BY <1>1, Zenon
<1>3. \A y \in T : ~(y < x)
  BY <1>2 DEF OpToRel
<1> QED
  BY <1>3

\* Induction up to N.
LEMMA UpTo ==
  ASSUME NEW N \in Nat, NEW T, 0 \in T, \A n \in 0..N : n < N /\ n \in T => n + 1 \in T
  PROVE  0..N \subseteq T
<1> SUFFICES ASSUME (0..N) \ T # {} PROVE FALSE
  OBVIOUS
<1> DEFINE U == (0..N) \ T
<1>1. PICK x \in U : \A y \in U : x <= y
  <2>1. U \subseteq Nat /\ U # {}
    OBVIOUS
  <2> HIDE DEF U
  <2> QED
    BY <2>1, LeastNat
<1>2. x # 0 /\ x - 1 \in 0..N /\ x - 1 \in T
  BY <1>1
<1> QED
  BY <1>1, <1>2

\* encode_string takes one character after the other.
LEMMA EncodedSteps ==
  ASSUME NEW text, Len(text) \in Nat
  PROVE  \E h : /\ h[0] = [shift |-> FALSE, out |-> <<>>]
                /\ \A n \in 1..Len(text) : h[n] = Put(h[n - 1], text[n])
                /\ Encoded(text) = h[Len(text)]
<1> DEFINE L == Len(text)
           One(f, n) == IF n = 0 THEN [shift |-> FALSE, out |-> <<>>] ELSE Put(f[n - 1], text[n])
           Is(f, m) == f = [n \in 0..m |-> One(f, n)]
           T == {m \in 0..L : \E f : Is(f, m)}
<1>1. 0 \in T
  <2>1. Is([n \in 0..0 |-> [shift |-> FALSE, out |-> <<>>]], 0)
    OBVIOUS
  <2>2. 0 \in 0..L
    OBVIOUS
  <2> HIDE DEF Is
  <2> QED
    BY <2>1, <2>2
<1>2. ASSUME NEW m \in 0..L, m < L, m \in T PROVE m + 1 \in T
  <2>1. PICK f : Is(f, m)
    BY <1>2
  <2> DEFINE g == [n \in 0..(m + 1) |-> IF n = m + 1 THEN One(f, n) ELSE f[n]]
  <2>2. ASSUME NEW n \in 0..(m + 1) PROVE g[n] = One(g, n)
    <3>1. CASE n = 0
      <4>1. g[0] = f[0] /\ f[0] = One(f, 0)
        BY <2>1
      <4> QED
        BY <3>1, <4>1
    <3>2. CASE n # 0
      <4>1. n - 1 \in 0..m /\ g[n - 1] = f[n - 1]
        BY <3>2
      <4>2. One(g, n) = One(f, n)
        BY <3>2, <4>1
      <4>3. g[n] = One(f, n)
        <5>1. f = [i \in 0..m |-> One(f, i)]
          BY <2>1
        <5> HIDE DEF One
        <5>2. CASE n = m + 1
          BY <5>2
        <5>3. CASE n # m + 1
          <6>1. n \in 0..m
            BY <5>3
          <6>2. g[n] = f[n]
            BY <5>3
          <6> QED
            BY <5>1, <6>1, <6>2
        <5> QED
          BY <5>2, <5>3
      <4> QED
        BY <4>2, <4>3
    <3> QED
      BY <3>1, <3>2
  <2>3. g = [n \in 0..(m + 1) |-> One(g, n)]
    BY <2>2
  <2>4. Is(g, m + 1)
    BY <2>3
  <2>5. m + 1 \in 0..L
    BY <1>2
  <2> HIDE DEF Is, g
  <2> QED
    BY <2>4, <2>5
<1>3. L \in T
  <2> HIDE DEF T
  <2>1. 0..L \subseteq T
    BY <1>1, <1>2, UpTo
  <2> QED
    BY <2>1
<1>4. \E f : f = [n \in 0..L |-> One(f, n)]
  BY <1>3
<1> DEFINE h == CHOOSE f : f = [n \in 0..L |-> One(f, n)]
<1>5. h = [n \in 0..L |-> One(h, n)]
  BY <1>4, Zenon
<1>6. Encoded(text) = h[L]
  BY DEF Encoded
<1> HIDE DEF h
<1>7. \A n \in 0..L : h[n] = One(h, n)
  <2> HIDE DEF One
  <2> QED
    BY <1>5
<1>8. h[0] = [shift |-> FALSE, out |-> <<>>] /\ \A n \in 1..L : h[n] = Put(h[n - 1], text[n])
  BY <1>7
<1> QED
  BY <1>6, <1>8

\* So does what is kept of a text.
LEMMA OnlySteps ==
  ASSUME NEW text, NEW S, Len(text) \in Nat
  PROVE  \E h : /\ h[0] = <<>>
                /\ \A n \in 1..Len(text) : h[n] = (IF text[n] \in S THEN Append(h[n - 1], text[n]) ELSE h[n - 1])
                /\ Only(text, S) = h[Len(text)]
<1> DEFINE L == Len(text)
           One(f, n) == IF n = 0 THEN <<>> ELSE (IF text[n] \in S THEN Append(f[n - 1], text[n]) ELSE f[n - 1])
           Is(f, m) == f = [n \in 0..m |-> One(f, n)]
           T == {m \in 0..L : \E f : Is(f, m)}
<1>1. 0 \in T
  <2>1. Is([n \in 0..0 |-> <<>>], 0)
    OBVIOUS
  <2>2. 0 \in 0..L
    OBVIOUS
  <2> HIDE DEF Is
  <2> QED
    BY <2>1, <2>2
<1>2. ASSUME NEW m \in 0..L, m < L, m \in T PROVE m + 1 \in T
  <2>1. PICK f : Is(f, m)
    BY <1>2
  <2> DEFINE g == [n \in 0..(m + 1) |-> IF n = m + 1 THEN One(f, n) ELSE f[n]]
  <2>2. ASSUME NEW n \in 0..(m + 1) PROVE g[n] = One(g, n)
    <3>1. CASE n = 0
      <4>1. g[0] = f[0] /\ f[0] = One(f, 0)
        BY <2>1
      <4> QED
        BY <3>1, <4>1
    <3>2. CASE n # 0
      <4>1. n - 1 \in 0..m /\ g[n - 1] = f[n - 1]
        BY <3>2
      <4>2. One(g, n) = One(f, n)
        BY <3>2, <4>1
      <4>3. g[n] = One(f, n)
        <5>1. f = [i \in 0..m |-> One(f, i)]
          BY <2>1
        <5> HIDE DEF One
        <5>2. CASE n = m + 1
          BY <5>2
        <5>3. CASE n # m + 1
          <6>1. n \in 0..m
            BY <5>3
          <6>2. g[n] = f[n]
            BY <5>3
          <6> QED
            BY <5>1, <6>1, <6>2
        <5> QED
          BY <5>2, <5>3
      <4> QED
        BY <4>2, <4>3
    <3> QED
      BY <3>1, <3>2
  <2>3. g = [n \in 0..(m + 1) |-> One(g, n)]
    BY <2>2
  <2>4. Is(g, m + 1)
    BY <2>3
  <2>5. m + 1 \in 0..L
    BY <1>2
  <2> HIDE DEF Is, g
  <2> QED
    BY <2>4, <2>5
<1>3. L \in T
  <2> HIDE DEF T
  <2>1. 0..L \subseteq T
    BY <1>1, <1>2, UpTo
  <2> QED
    BY <2>1
<1>4. \E f : f = [n \in 0..L |-> One(f, n)]
  BY <1>3
<1> DEFINE h == CHOOSE f : f = [n \in 0..L |-> One(f, n)]
<1>5. h = [n \in 0..L |-> One(h, n)]
  BY <1>4, Zenon
<1>6. Only(text, S) = h[L]
  BY DEF Only
<1> HIDE DEF h
<1>7. \A n \in 0..L : h[n] = One(h, n)
  <2> HIDE DEF One
  <2> QED
    BY <1>5
<1>8. h[0] = <<>> /\ \A n \in 1..L : h[n] = (IF text[n] \in S THEN Append(h[n - 1], text[n]) ELSE h[n - 1])
  BY <1>7
<1> QED
  BY <1>6, <1>8

\* The remote takes one event after the other.
LEMMA AfterSteps ==
  ASSUME NEW r, NEW events, Len(events) \in Nat
  PROVE  \E h : /\ h[0] = r
                /\ \A n \in 1..Len(events) : h[n] = Press(h[n - 1], events[n])
                /\ After(r, events) = h[Len(events)]
<1> DEFINE L == Len(events)
           One(f, n) == IF n = 0 THEN r ELSE Press(f[n - 1], events[n])
           Is(f, m) == f = [n \in 0..m |-> One(f, n)]
           T == {m \in 0..L : \E f : Is(f, m)}
<1>1. 0 \in T
  <2>1. Is([n \in 0..0 |-> r], 0)
    OBVIOUS
  <2>2. 0 \in 0..L
    OBVIOUS
  <2> HIDE DEF Is
  <2> QED
    BY <2>1, <2>2
<1>2. ASSUME NEW m \in 0..L, m < L, m \in T PROVE m + 1 \in T
  <2>1. PICK f : Is(f, m)
    BY <1>2
  <2> DEFINE g == [n \in 0..(m + 1) |-> IF n = m + 1 THEN One(f, n) ELSE f[n]]
  <2>2. ASSUME NEW n \in 0..(m + 1) PROVE g[n] = One(g, n)
    <3>1. CASE n = 0
      <4>1. g[0] = f[0] /\ f[0] = One(f, 0)
        BY <2>1
      <4> QED
        BY <3>1, <4>1
    <3>2. CASE n # 0
      <4>1. n - 1 \in 0..m /\ g[n - 1] = f[n - 1]
        BY <3>2
      <4>2. One(g, n) = One(f, n)
        BY <3>2, <4>1
      <4>3. g[n] = One(f, n)
        <5>1. f = [i \in 0..m |-> One(f, i)]
          BY <2>1
        <5> HIDE DEF One
        <5>2. CASE n = m + 1
          BY <5>2
        <5>3. CASE n # m + 1
          <6>1. n \in 0..m
            BY <5>3
          <6>2. g[n] = f[n]
            BY <5>3
          <6> QED
            BY <5>1, <6>1, <6>2
        <5> QED
          BY <5>2, <5>3
      <4> QED
        BY <4>2, <4>3
    <3> QED
      BY <3>1, <3>2
  <2>3. g = [n \in 0..(m + 1) |-> One(g, n)]
    BY <2>2
  <2>4. Is(g, m + 1)
    BY <2>3
  <2>5. m + 1 \in 0..L
    BY <1>2
  <2> HIDE DEF Is, g
  <2> QED
    BY <2>4, <2>5
<1>3. L \in T
  <2> HIDE DEF T
  <2>1. 0..L \subseteq T
    BY <1>1, <1>2, UpTo
  <2> QED
    BY <2>1
<1>4. \E f : f = [n \in 0..L |-> One(f, n)]
  BY <1>3
<1> DEFINE h == CHOOSE f : f = [n \in 0..L |-> One(f, n)]
<1>5. h = [n \in 0..L |-> One(h, n)]
  BY <1>4, Zenon
<1>6. After(r, events) = h[L]
  BY DEF After
<1> HIDE DEF h
<1>7. \A n \in 0..L : h[n] = One(h, n)
  <2> HIDE DEF One
  <2> QED
    BY <1>5
<1>8. h[0] = r /\ \A n \in 1..L : h[n] = Press(h[n - 1], events[n])
  BY <1>7
<1> QED
  BY <1>6, <1>8

\* The last event of a sequence comes last.
LEMMA AfterAppend ==
  ASSUME NEW r, NEW events \in Seq(InputEvent), NEW e \in InputEvent
  PROVE  After(r, Append(events, e)) = Press(After(r, events), e)
<1>1. PICK a : a = Append(events, e)
  OBVIOUS
<1>2. PICK L : L = Len(events)
  OBVIOUS
<1>3. /\ L \in Nat /\ Len(a) = L + 1 /\ Len(a) \in Nat /\ a[L + 1] = e
      /\ \A i \in 1..L : a[i] = events[i]
  BY <1>1, <1>2, AppendProperties
<1>4. PICK g : /\ g[0] = r
               /\ \A n \in 1..Len(events) : g[n] = Press(g[n - 1], events[n])
               /\ After(r, events) = g[Len(events)]
  <2>1. Len(events) \in Nat
    OBVIOUS
  <2> QED
    BY <2>1, AfterSteps, ZenonT(60)
<1>5. PICK h : /\ h[0] = r
               /\ \A n \in 1..Len(a) : h[n] = Press(h[n - 1], a[n])
               /\ After(r, a) = h[Len(a)]
  <2>1. Len(a) \in Nat
    BY <1>3
  <2> QED
    BY <2>1, AfterSteps, ZenonT(60)
<1> DEFINE T == {n \in 0..L : g[n] = h[n]}
<1>6. 0 \in T
  BY <1>3, <1>4, <1>5
<1>7. ASSUME NEW n \in 0..L, n < L, n \in T PROVE n + 1 \in T
  <2>1. n + 1 \in 1..L /\ n + 1 \in 1..Len(a) /\ (n + 1) - 1 = n
    BY <1>3, <1>7
  <2>2. g[n + 1] = Press(g[n], events[n + 1])
    BY <1>2, <1>4, <2>1
  <2>3. h[n + 1] = Press(h[n], a[n + 1])
    BY <1>5, <2>1
  <2>4. a[n + 1] = events[n + 1]
    BY <1>3, <2>1
  <2> QED
    BY <1>3, <1>7, <2>1, <2>2, <2>3, <2>4
<1>8. L \in T
  <2> HIDE DEF T
  <2>1. 0..L \subseteq T
    BY <1>3, <1>6, <1>7, UpTo
  <2> QED
    BY <1>3, <2>1
<1>9. h[L + 1] = Press(h[L], a[L + 1])
  <2>1. L + 1 \in 1..Len(a) /\ (L + 1) - 1 = L
    BY <1>3
  <2> QED
    BY <1>5, <2>1
<1>10. h[L] = After(r, events) /\ h[L + 1] = After(r, a)
  BY <1>2, <1>3, <1>4, <1>5, <1>8
<1> QED
  BY <1>1, <1>3, <1>9, <1>10

LEMMA AfterNothing ==
  ASSUME NEW r
  PROVE  After(r, <<>>) = r
<1>1. PICK q : q = <<>>
  OBVIOUS
<1>2. Len(q) = 0
  BY <1>1
<1>3. PICK g : /\ g[0] = r
               /\ \A n \in 1..Len(q) : g[n] = Press(g[n - 1], q[n])
               /\ After(r, q) = g[Len(q)]
  <2>1. Len(q) \in Nat
    BY <1>2
  <2> QED
    BY <2>1, AfterSteps, ZenonT(60)
<1> QED
  BY <1>1, <1>2, <1>3

-----------------------------------------------------------------------------
(* What events do to the remote *)

\* A remote with what it has typed.
Screen == [held : SUBSET KeyNames, out : Seq(DOMAIN Scancode), wants : BOOLEAN]

\* The keys that are named in the code.
LEMMA Names ==
  /\ "shift" \in KeyNames /\ "ctrl" \in KeyNames /\ "alt" \in KeyNames
  /\ "win" \in KeyNames /\ "del" \in KeyNames /\ "left" \in KeyNames
  /\ "pointer" \in KeyNames /\ Keys \subseteq KeyNames
  BY DEF KeyNames, Modifiers

LEMMA EventsAre ==
  ASSUME NEW k \in KeyNames
  PROVE  /\ Down(k) \in InputEvent /\ Up(k) \in InputEvent
         /\ Down(k).key = k /\ Down(k).down = TRUE /\ Up(k).key = k /\ Up(k).down = FALSE
  BY DEF Down, Up, InputEvent

LEMMA EventIs ==
  ASSUME NEW e \in InputEvent
  PROVE  /\ e.key \in KeyNames /\ e.down \in BOOLEAN
         /\ e.down => e = Down(e.key)
         /\ ~e.down => e = Up(e.key)
  BY DEF Down, Up, InputEvent

\* A release, and a press.
LEMMA PressUp ==
  ASSUME NEW r \in Screen, NEW k \in KeyNames
  PROVE  LET q == Press(r, Up(k))
         IN  q \in Screen /\ q.held = r.held \ {k} /\ q.out = r.out
<1>1. PICK e : e = Up(k)
  OBVIOUS
<1>2. e.key = k /\ e.down = FALSE
  BY <1>1, EventsAre
<1>3. Press(r, e) = [r EXCEPT !.held = r.held \ {k}]
  BY <1>2 DEF Press
<1> QED
  BY <1>1, <1>3 DEF Screen

LEMMA PressDown ==
  ASSUME NEW r \in Screen, NEW k \in KeyNames
  PROVE  LET q == Press(r, Down(k))
             chars == {c \in DOMAIN Scancode : Scancode[c].key = k
                          /\ Scancode[c].shift = ("shift" \in r.held)}
         IN  /\ q \in Screen /\ q.held = r.held \union ({k} \ {"pointer"})
             /\ chars = {} => q.out = r.out
<1>1. PICK e : e = Down(k)
  OBVIOUS
<1>2. e.key = k /\ e.down = TRUE
  BY <1>1, EventsAre
<1> DEFINE chars == {c \in DOMAIN Scancode : Scancode[c].key = k
                        /\ Scancode[c].shift = ("shift" \in r.held)}
           plain == r.held \intersect (Modifiers \ {"shift"}) = {}
<1>3. PICK held, out, wants :
         /\ held = r.held \union ({k} \ {"pointer"})
         /\ out = (IF plain /\ chars # {} THEN Append(r.out, CHOOSE c \in chars : TRUE) ELSE r.out)
         /\ wants = (r.wants \/ (k = "v" /\ "ctrl" \in r.held))
  OBVIOUS
<1>4. Press(r, e) = [held |-> held, out |-> out, wants |-> wants]
  BY <1>2, <1>3 DEF Press
<1>5. held \in SUBSET KeyNames
  BY <1>3 DEF Screen
<1>6. out \in Seq(DOMAIN Scancode)
  <2>1. r.out \in Seq(DOMAIN Scancode)
    BY DEF Screen
  <2>2. CASE plain /\ chars # {}
    <3>1. PICK d : d = CHOOSE c \in chars : TRUE
      OBVIOUS
    <3>2. d \in chars
      BY <2>2, <3>1
    <3>3. d \in DOMAIN Scancode
      BY <3>2
    <3>4. out = Append(r.out, d)
      BY <1>3, <2>2, <3>1
    <3> HIDE DEF chars
    <3> QED
      BY <2>1, <3>3, <3>4, AppendProperties
  <2>3. CASE ~(plain /\ chars # {})
    <3>1. out = r.out
      BY <1>3, <2>3
    <3> QED
      BY <2>1, <3>1
  <2> QED
    BY <2>2, <2>3
<1>7. wants \in BOOLEAN
  BY <1>3 DEF Screen
<1>8. [held |-> held, out |-> out, wants |-> wants] \in Screen
  BY <1>5, <1>6, <1>7 DEF Screen
<1>9. chars = {} => out = r.out
  BY <1>3
<1> QED
  BY <1>1, <1>3, <1>4, <1>8, <1>9

LEMMA PressTypes ==
  ASSUME NEW r \in Screen, NEW k \in KeyNames, NEW c,
         {d \in DOMAIN Scancode : Scancode[d].key = k
              /\ Scancode[d].shift = ("shift" \in r.held)} = {c},
         r.held \intersect (Modifiers \ {"shift"}) = {}
  PROVE  Press(r, Down(k)).out = Append(r.out, c)
<1>1. PICK e : e = Down(k)
  OBVIOUS
<1>2. e.key = k /\ e.down = TRUE
  BY <1>1, EventsAre
<1>3. PICK chars : chars = {d \in DOMAIN Scancode : Scancode[d].key = k
                              /\ Scancode[d].shift = ("shift" \in r.held)}
  OBVIOUS
<1>4. PICK p : p = CHOOSE d \in chars : TRUE
  OBVIOUS
<1>5. chars = {c} /\ p = c
  BY <1>3, <1>4
<1>6. PICK held, wants : /\ held = r.held \union ({k} \ {"pointer"})
                         /\ wants = (r.wants \/ (k = "v" /\ "ctrl" \in r.held))
  OBVIOUS
<1>7. Press(r, e) = [held |-> held, out |-> Append(r.out, p), wants |-> wants]
  <2>1. chars # {}
    BY <1>5
  <2> QED
    BY <1>2, <1>3, <1>4, <1>6, <2>1 DEF Press
<1> QED
  BY <1>1, <1>5, <1>7

LEMMA PressKeeps ==
  ASSUME NEW r \in Screen, NEW e \in InputEvent
  PROVE  /\ Press(r, e) \in Screen
         /\ \A k \in Press(r, e).held : \/ k \in r.held /\ e # Up(k)
                                        \/ k # "pointer" /\ e = Down(k)
<1>1. e.key \in KeyNames /\ e.down \in BOOLEAN
  BY EventIs
<1>2. CASE e.down
  <2>1. e = Down(e.key) /\ \A k : e # Up(k)
    BY <1>1, <1>2, EventIs, EventsAre DEF Up
  <2>2. Press(r, e) \in Screen /\ Press(r, e).held = r.held \union ({e.key} \ {"pointer"})
    BY <1>1, <2>1, PressDown
  <2> QED
    BY <2>1, <2>2
<1>3. CASE ~e.down
  <2>1. e = Up(e.key)
    BY <1>3, EventIs
  <2>2. Press(r, e) \in Screen /\ Press(r, e).held = r.held \ {e.key}
    BY <1>1, <2>1, PressUp
  <2>3. \A k : e = Up(k) => k = e.key
    BY DEF Up
  <2> QED
    BY <2>2, <2>3
<1> QED
  BY <1>1, <1>2, <1>3

\* What is down after some events was down before and not let go, or was pressed
\* and not let go since.
LEMMA AfterKeeps ==
  ASSUME NEW r \in Screen, NEW events \in Seq(InputEvent)
  PROVE  /\ After(r, events) \in Screen
         /\ \A k \in After(r, events).held :
              \/ k \in r.held /\ \A j \in DOMAIN events : events[j] # Up(k)
              \/ /\ k # "pointer"
                 /\ \E i \in DOMAIN events :
                      events[i] = Down(k) /\ \A j \in DOMAIN events : i < j => events[j] # Up(k)
<1>1. PICK L : L = Len(events)
  OBVIOUS
<1>2. L \in Nat /\ DOMAIN events = 1..L /\ \A i \in 1..L : events[i] \in InputEvent
  BY <1>1
<1>3. PICK g : /\ g[0] = r
               /\ \A n \in 1..L : g[n] = Press(g[n - 1], events[n])
               /\ After(r, events) = g[L]
  <2>1. Len(events) \in Nat
    BY <1>1, <1>2
  <2>2. \E g : /\ g[0] = r
               /\ \A n \in 1..Len(events) : g[n] = Press(g[n - 1], events[n])
               /\ After(r, events) = g[Len(events)]
    BY <2>1, AfterSteps, ZenonT(60)
  <2> QED
    BY <1>1, <2>2
<1> DEFINE Why(k, n) ==
             \/ k \in r.held /\ \A j \in 1..n : events[j] # Up(k)
             \/ /\ k # "pointer"
                /\ \E i \in 1..n :
                     events[i] = Down(k) /\ \A j \in 1..n : i < j => events[j] # Up(k)
           T == {n \in 0..L : g[n] \in Screen /\ \A k \in g[n].held : Why(k, n)}
<1>4. 0 \in T
  BY <1>2, <1>3
<1>5. ASSUME NEW n \in 0..L, n < L, n \in T PROVE n + 1 \in T
  <2>1. n + 1 \in 1..L /\ (n + 1) - 1 = n /\ n \in Nat
    BY <1>2, <1>5
  <2>2. PICK e : e = events[n + 1]
    OBVIOUS
  <2>3. e \in InputEvent /\ g[n + 1] = Press(g[n], e)
    BY <1>2, <1>3, <2>1, <2>2
  <2>4. g[n] \in Screen /\ \A k \in g[n].held : Why(k, n)
    BY <1>5
  <2>5. /\ g[n + 1] \in Screen
        /\ \A k \in g[n + 1].held : \/ k \in g[n].held /\ e # Up(k)
                                    \/ k # "pointer" /\ e = Down(k)
    BY <2>3, <2>4, PressKeeps
  <2>6. ASSUME NEW k \in g[n + 1].held PROVE Why(k, n + 1)
    <3>1. CASE k # "pointer" /\ e = Down(k)
      <4>1. n + 1 \in 1..(n + 1) /\ events[n + 1] = Down(k)
            /\ \A j \in 1..(n + 1) : n + 1 < j => events[j] # Up(k)
        BY <2>1, <2>2, <3>1
      <4> QED
        BY <3>1, <4>1
    <3>2. CASE k \in g[n].held /\ e # Up(k)
      <4>1. \A j \in 1..(n + 1) : j \in 1..n \/ j = n + 1
        BY <2>1
      <4>2. Why(k, n)
        BY <2>4, <3>2
      <4>3. CASE k \in r.held /\ \A j \in 1..n : events[j] # Up(k)
        BY <2>2, <3>2, <4>1, <4>3
      <4>4. CASE /\ k # "pointer"
                 /\ \E i \in 1..n :
                      events[i] = Down(k) /\ \A j \in 1..n : i < j => events[j] # Up(k)
        <5>1. PICK i \in 1..n :
                 events[i] = Down(k) /\ \A j \in 1..n : i < j => events[j] # Up(k)
          BY <4>4
        <5>2. i \in 1..(n + 1) /\ \A j \in 1..(n + 1) : i < j => events[j] # Up(k)
          BY <2>1, <2>2, <3>2, <4>1, <5>1
        <5> QED
          BY <4>4, <5>1, <5>2
      <4> QED
        BY <4>2, <4>3, <4>4
    <3> QED
      BY <2>5, <3>1, <3>2
  <2>7. n + 1 \in 0..L
    BY <2>1
  <2> QED
    BY <2>5, <2>6, <2>7
<1>6. L \in T
  <2> HIDE DEF T
  <2>1. 0..L \subseteq T
    BY <1>2, <1>4, <1>5, UpTo
  <2> QED
    BY <1>2, <2>1
<1> QED
  BY <1>2, <1>3, <1>6

-----------------------------------------------------------------------------
(* encode_string *)

\* Of what q presses only keys of K are still down at its end.
LeavesDown(q, K) ==
    \A i \in DOMAIN q : q[i].down =>
        q[i].key \in K \/ \E j \in DOMAIN q : i < j /\ q[j] = Up(q[i].key)

LEMMA LeavesDownAppend ==
  ASSUME NEW q \in Seq(InputEvent), NEW K, LeavesDown(q, K), NEW k \in KeyNames
  PROVE  /\ LeavesDown(Append(q, Down(k)), K \union {k})
         /\ LeavesDown(Append(q, Up(k)), K \ {k})
         /\ Append(q, Down(k)) \in Seq(InputEvent) /\ Append(q, Up(k)) \in Seq(InputEvent)
<1>1. PICK L : L = Len(q)
  OBVIOUS
<1>2. L \in Nat /\ DOMAIN q = 1..L
  BY <1>1
<1>3. PICK d, u : d = Append(q, Down(k)) /\ u = Append(q, Up(k))
  OBVIOUS
<1>4. PICK dk, uk : dk = Down(k) /\ uk = Up(k)
  OBVIOUS
<1>5. dk \in InputEvent /\ uk \in InputEvent
  BY <1>4, EventsAre
<1>6. /\ d \in Seq(InputEvent) /\ Len(d) = L + 1 /\ d[L + 1] = Down(k)
      /\ \A i \in 1..L : d[i] = q[i]
  BY <1>1, <1>3, <1>4, <1>5, AppendProperties
<1>7. /\ u \in Seq(InputEvent) /\ Len(u) = L + 1 /\ u[L + 1] = Up(k)
      /\ \A i \in 1..L : u[i] = q[i]
  BY <1>1, <1>3, <1>4, <1>5, AppendProperties
<1>8. DOMAIN d = 1..(L + 1) /\ DOMAIN u = 1..(L + 1)
  BY <1>6, <1>7
<1>9. Down(k).key = k /\ ~Up(k).down
  BY EventsAre
<1>10. LeavesDown(d, K \union {k})
  <2> SUFFICES ASSUME NEW i \in DOMAIN d, d[i].down
               PROVE  d[i].key \in K \union {k} \/ \E j \in DOMAIN d : i < j /\ d[j] = Up(d[i].key)
    BY DEF LeavesDown
  <2>1. CASE i = L + 1
    BY <1>6, <1>9, <2>1
  <2>2. CASE i \in 1..L
    <3>1. d[i] = q[i]
      BY <1>6, <2>2
    <3>2. q[i].key \in K \/ \E j \in DOMAIN q : i < j /\ q[j] = Up(q[i].key)
      BY <1>2, <2>2, <3>1 DEF LeavesDown
    <3>3. \A j \in DOMAIN q : j \in DOMAIN d /\ d[j] = q[j]
      BY <1>2, <1>6, <1>8
    <3> QED
      BY <3>1, <3>2, <3>3
  <2> QED
    BY <1>2, <1>8, <2>1, <2>2
<1>11. LeavesDown(u, K \ {k})
  <2> SUFFICES ASSUME NEW i \in DOMAIN u, u[i].down
               PROVE  u[i].key \in K \ {k} \/ \E j \in DOMAIN u : i < j /\ u[j] = Up(u[i].key)
    BY DEF LeavesDown
  <2>1. i # L + 1
    BY <1>7, <1>9
  <2>2. i \in 1..L
    BY <1>2, <1>8, <2>1
  <2>3. u[i] = q[i]
    BY <1>7, <2>2
  <2>4. q[i].key \in K \/ \E j \in DOMAIN q : i < j /\ q[j] = Up(q[i].key)
    BY <1>2, <2>2, <2>3 DEF LeavesDown
  <2>5. \A j \in DOMAIN q : j \in DOMAIN u /\ u[j] = q[j]
    BY <1>2, <1>7, <1>8
  <2>6. CASE u[i].key = k
    <3>1. L + 1 \in DOMAIN u /\ i < L + 1 /\ u[L + 1] = Up(u[i].key)
      BY <1>2, <1>7, <1>8, <2>2, <2>6
    <3> QED
      BY <3>1
  <2>7. CASE u[i].key # k
    BY <2>3, <2>4, <2>5, <2>7
  <2> QED
    BY <2>6, <2>7
<1> QED
  BY <1>3, <1>6, <1>7, <1>10, <1>11

\* A sequence with one event behind it, or two.
LEMMA Joins ==
  ASSUME NEW q \in Seq(InputEvent), NEW e \in InputEvent, NEW f \in InputEvent
  PROVE  /\ q \o <<>> = q
         /\ q \o <<e>> = Append(q, e)
         /\ q \o <<e, f>> = Append(Append(q, e), f)
<1>1. q \o <<>> = q
  BY ConcatEmptySeq
<1>2. q \o <<e>> = Append(q, e)
  BY AppendIsConcat
<1>3. q \o <<e, f>> = Append(Append(q, e), f)
  <2>1. <<e>> \in Seq(InputEvent) /\ <<f>> \in Seq(InputEvent)
    OBVIOUS
  <2>2. <<e, f>> = <<e>> \o <<f>>
    <3>1. <<e, f>> = Append(<<e>>, f)
      OBVIOUS
    <3> QED
      BY <2>1, <3>1, AppendIsConcat
  <2>3. q \o <<e, f>> = (q \o <<e>>) \o <<f>>
    BY <2>1, <2>2, ConcatAssociative
  <2>4. Append(q, e) \in Seq(InputEvent)
    BY AppendProperties
  <2>5. Append(q, e) \o <<f>> = Append(Append(q, e), f)
    BY <2>4, AppendIsConcat
  <2> QED
    BY <1>2, <2>3, <2>5
<1> QED
  BY <1>1, <1>2, <1>3

\* Shift as one character after the other leaves it.
Turned(acc, c) ==
    IF Scancode[c].shift = acc.shift THEN acc.out
    ELSE Append(acc.out, IF Scancode[c].shift THEN Down("shift") ELSE Up("shift"))

LEMMA PutSays ==
  ASSUME NEW acc \in [shift : BOOLEAN, out : Seq(InputEvent)], NEW c \in DOMAIN Scancode
  PROVE  LET k == Scancode[c].key
         IN  /\ Put(acc, c).shift = Scancode[c].shift
             /\ Put(acc, c).out = Append(Append(Turned(acc, c), Down(k)), Up(k))
             /\ Turned(acc, c) \in Seq(InputEvent) /\ k \in KeyNames
             /\ Put(acc, c) \in [shift : BOOLEAN, out : Seq(InputEvent)]
<1>1. PICK s, k : s = Scancode[c] /\ k = s.key
  OBVIOUS
<1>2. s.shift \in BOOLEAN /\ k \in KeyNames
  BY <1>1, LayoutAssumption DEF KeyNames
<1>3. /\ Down(k) \in InputEvent /\ Up(k) \in InputEvent
      /\ Down("shift") \in InputEvent /\ Up("shift") \in InputEvent
  <2>1. "shift" \in KeyNames
    BY Names
  <2>2. Down("shift") \in InputEvent /\ Up("shift") \in InputEvent
    BY <2>1, EventsAre, Zenon
  <2>3. Down(k) \in InputEvent /\ Up(k) \in InputEvent
    BY <1>2, EventsAre, Zenon
  <2> QED
    BY <2>2, <2>3
<1>4. PICK q, t : q = acc.out /\ t = Turned(acc, c)
  OBVIOUS
<1>5. q \in Seq(InputEvent)
  BY <1>4
<1> DEFINE turn == IF s.shift = acc.shift THEN <<>>
                   ELSE IF s.shift THEN <<Down("shift")>> ELSE <<Up("shift")>>
<1>6. q \o turn = t /\ t \in Seq(InputEvent)
  <2>1. /\ q \o <<>> = q
        /\ q \o <<Down("shift")>> = Append(q, Down("shift"))
        /\ q \o <<Up("shift")>> = Append(q, Up("shift"))
    BY <1>3, <1>5, Joins
  <2>2. Append(q, Down("shift")) \in Seq(InputEvent) /\ Append(q, Up("shift")) \in Seq(InputEvent)
    BY <1>3, <1>5, AppendProperties
  <2> QED
    BY <1>1, <1>4, <1>5, <2>1, <2>2 DEF Turned
<1>7. Put(acc, c) = [shift |-> s.shift, out |-> q \o turn \o <<Down(k), Up(k)>>]
  BY <1>1, <1>4 DEF Put
<1>8. (q \o turn) \o <<Down(k), Up(k)>> = Append(Append(t, Down(k)), Up(k))
  <2>1. t \o <<Down(k), Up(k)>> = Append(Append(t, Down(k)), Up(k))
    BY <1>3, <1>6, Joins
  <2> HIDE DEF turn
  <2> QED
    BY <1>6, <2>1
<1>9. Append(Append(t, Down(k)), Up(k)) \in Seq(InputEvent)
  <2>1. Append(t, Down(k)) \in Seq(InputEvent)
    BY <1>3, <1>6, AppendProperties
  <2> QED
    BY <1>3, <2>1, AppendProperties
<1> HIDE DEF turn
<1>10. /\ Put(acc, c).shift = s.shift
       /\ Put(acc, c).out = Append(Append(t, Down(k)), Up(k))
       /\ Put(acc, c) \in [shift : BOOLEAN, out : Seq(InputEvent)]
  <2>1. PICK o, sh : o = Append(Append(t, Down(k)), Up(k)) /\ sh = s.shift
    OBVIOUS
  <2>2. Put(acc, c) = [shift |-> sh, out |-> o]
    BY <1>7, <1>8, <2>1
  <2>3. o \in Seq(InputEvent) /\ sh \in BOOLEAN
    BY <1>2, <1>9, <2>1
  <2>4. /\ Put(acc, c).shift = sh /\ Put(acc, c).out = o
        /\ Put(acc, c) \in [shift : BOOLEAN, out : Seq(InputEvent)]
    BY <2>2, <2>3
  <2> QED
    BY <2>1, <2>4
<1> QED
  BY <1>1, <1>2, <1>4, <1>6, <1>10

\* How far encode_string has come.
Typing == [shift : BOOLEAN, out : Seq(InputEvent)]
ShiftKey(down) == IF down THEN {"shift"} ELSE {}

LEMMA TypedKeys ==
  ASSUME NEW c \in DOMAIN Scancode
  PROVE  /\ Scancode[c].key \in KeyNames /\ Scancode[c].shift \in BOOLEAN
         /\ Scancode[c].key # "shift" /\ Scancode[c].key # "pointer"
         /\ \A d \in DOMAIN Scancode : Scancode[d].key # "shift"
<1>1. \A d \in DOMAIN Scancode : Scancode[d].key \notin Modifiers \union {"pointer"}
  BY LayoutAssumption
<1> QED
  BY <1>1, LayoutAssumption DEF KeyNames, Modifiers

\* What is pressed for a character is let go but Shift, which the next one may need.
LEMMA PutLeaves ==
  ASSUME NEW acc \in Typing, LeavesDown(acc.out, ShiftKey(acc.shift)), NEW c \in DOMAIN Scancode
  PROVE  LeavesDown(Put(acc, c).out, ShiftKey(Put(acc, c).shift))
<1>1. PICK k, sh, q, t : k = Scancode[c].key /\ sh = Scancode[c].shift /\ q = acc.out /\ t = Turned(acc, c)
  OBVIOUS
<1>2. acc \in [shift : BOOLEAN, out : Seq(InputEvent)] /\ q \in Seq(InputEvent) /\ acc.shift \in BOOLEAN
  BY <1>1 DEF Typing
<1>3. /\ Put(acc, c).shift = sh /\ Put(acc, c).out = Append(Append(t, Down(k)), Up(k))
      /\ t \in Seq(InputEvent) /\ k \in KeyNames
  BY <1>1, <1>2, PutSays
<1>4. k # "shift" /\ sh \in BOOLEAN
  BY <1>1, TypedKeys
<1>5. PICK K : K = ShiftKey(acc.shift)
  OBVIOUS
<1>6. LeavesDown(q, K)
  BY <1>1, <1>5
<1>7. LeavesDown(t, ShiftKey(sh))
  <2>1. CASE sh = acc.shift
    <3>1. t = q
      BY <1>1, <2>1 DEF Turned
    <3> QED
      BY <1>5, <1>6, <2>1, <3>1
  <2>2. CASE sh # acc.shift /\ sh
    <3>1. t = Append(q, Down("shift"))
      BY <1>1, <2>2 DEF Turned
    <3>2. LeavesDown(Append(q, Down("shift")), K \union {"shift"})
      BY <1>2, <1>6, Names, LeavesDownAppend
    <3>3. ShiftKey(sh) = K \union {"shift"}
      BY <1>2, <1>5, <2>2 DEF ShiftKey
    <3> QED
      BY <3>1, <3>2, <3>3
  <2>3. CASE sh # acc.shift /\ ~sh
    <3>1. t = Append(q, Up("shift"))
      BY <1>1, <2>3 DEF Turned
    <3>2. LeavesDown(Append(q, Up("shift")), K \ {"shift"})
      BY <1>2, <1>6, Names, LeavesDownAppend
    <3>3. ShiftKey(sh) = K \ {"shift"}
      BY <1>2, <1>5, <2>3 DEF ShiftKey
    <3> QED
      BY <3>1, <3>2, <3>3
  <2> QED
    BY <1>4, <2>1, <2>2, <2>3
<1>8. PICK J, d : J = ShiftKey(sh) /\ d = Append(t, Down(k))
  OBVIOUS
<1>9. LeavesDown(d, J \union {k}) /\ d \in Seq(InputEvent)
  BY <1>3, <1>7, <1>8, LeavesDownAppend
<1>10. LeavesDown(Append(d, Up(k)), (J \union {k}) \ {k})
  <2>1. PICK M : M = J \union {k}
    OBVIOUS
  <2>2. LeavesDown(d, M)
    BY <1>9, <2>1
  <2>3. LeavesDown(Append(d, Up(k)), M \ {k})
    BY <1>3, <1>9, <2>2, LeavesDownAppend
  <2> QED
    BY <2>1, <2>3
<1>11. (J \union {k}) \ {k} = J
  BY <1>4, <1>8 DEF ShiftKey
<1> QED
  BY <1>3, <1>8, <1>10, <1>11

\* The remote has typed got so far.
HasTyped(r, r0, shift, got) ==
    /\ r \in Screen /\ r.held \ {"shift"} \subseteq r0.held
    /\ ("shift" \in r.held) = shift /\ r.out = got

\* A character is typed as it was meant, whatever Shift did before.
LEMMA PutTypes ==
  ASSUME NEW r0 \in Screen, r0.held \intersect Modifiers = {}, NEW acc \in Typing, NEW got,
         NEW c \in DOMAIN Scancode, HasTyped(After(r0, acc.out), r0, acc.shift, got)
  PROVE  HasTyped(After(r0, Put(acc, c).out), r0, Put(acc, c).shift, Append(got, c))
<1>1. PICK k, sh, q, t : k = Scancode[c].key /\ sh = Scancode[c].shift /\ q = acc.out /\ t = Turned(acc, c)
  OBVIOUS
<1>2. acc \in [shift : BOOLEAN, out : Seq(InputEvent)] /\ q \in Seq(InputEvent) /\ acc.shift \in BOOLEAN
  BY <1>1 DEF Typing
<1>3. /\ Put(acc, c).shift = sh /\ Put(acc, c).out = Append(Append(t, Down(k)), Up(k))
      /\ t \in Seq(InputEvent) /\ k \in KeyNames
  BY <1>1, <1>2, PutSays
<1>4. k # "shift" /\ k # "pointer" /\ sh \in BOOLEAN
  BY <1>1, TypedKeys
<1>5. /\ Down(k) \in InputEvent /\ Up(k) \in InputEvent
      /\ Down("shift") \in InputEvent /\ Up("shift") \in InputEvent
  <2>1. Down("shift") \in InputEvent /\ Up("shift") \in InputEvent
    BY Names, EventsAre, Zenon
  <2>2. Down(k) \in InputEvent /\ Up(k) \in InputEvent
    BY <1>3, EventsAre, Zenon
  <2> QED
    BY <2>1, <2>2
<1>6. PICK r, rt : r = After(r0, q) /\ rt = After(r0, t)
  OBVIOUS
<1>7. /\ r \in Screen /\ r.held \ {"shift"} \subseteq r0.held
      /\ ("shift" \in r.held) = acc.shift /\ r.out = got
  BY <1>1, <1>6 DEF HasTyped
<1>8. /\ rt \in Screen /\ rt.held \ {"shift"} \subseteq r0.held
      /\ ("shift" \in rt.held) = sh /\ rt.out = got
  <2>1. CASE sh = acc.shift
    <3>1. t = q
      BY <1>1, <2>1 DEF Turned
    <3> QED
      BY <1>6, <1>7, <2>1, <3>1
  <2>2. CASE sh # acc.shift /\ sh
    <3>1. t = Append(q, Down("shift"))
      BY <1>1, <2>2 DEF Turned
    <3>2. rt = Press(r, Down("shift"))
      BY <1>2, <1>5, <1>6, <3>1, AfterAppend
    <3>3. "shift" \in KeyNames
      BY Names
    <3> DEFINE chars == {x \in DOMAIN Scancode : Scancode[x].key = "shift"
                            /\ Scancode[x].shift = ("shift" \in r.held)}
    <3>4. chars = {}
      BY TypedKeys
    <3>5. /\ rt \in Screen /\ rt.held = r.held \union ({"shift"} \ {"pointer"})
          /\ rt.out = r.out
      BY <1>7, <3>2, <3>3, <3>4, PressDown
    <3> QED
      BY <1>7, <2>2, <3>5
  <2>3. CASE sh # acc.shift /\ ~sh
    <3>1. t = Append(q, Up("shift"))
      BY <1>1, <2>3 DEF Turned
    <3>2. rt = Press(r, Up("shift"))
      BY <1>2, <1>5, <1>6, <3>1, AfterAppend
    <3>3. "shift" \in KeyNames
      BY Names
    <3>4. rt \in Screen /\ rt.held = r.held \ {"shift"} /\ rt.out = r.out
      BY <1>7, <3>2, <3>3, PressUp
    <3> QED
      BY <1>4, <1>7, <2>3, <3>4
  <2> QED
    BY <1>4, <2>1, <2>2, <2>3
<1>9. PICK d, rd : d = Append(t, Down(k)) /\ rd = Press(rt, Down(k))
  OBVIOUS
<1>10. After(r0, d) = rd /\ d \in Seq(InputEvent)
  BY <1>3, <1>5, <1>6, <1>9, AfterAppend, AppendProperties
<1>11. /\ rd \in Screen /\ rd.held = rt.held \union ({k} \ {"pointer"})
       /\ rd.out = Append(got, c)
  <2> DEFINE chars == {x \in DOMAIN Scancode : Scancode[x].key = k
                          /\ Scancode[x].shift = ("shift" \in rt.held)}
  <2>1. chars = {c}
    <3>1. c \in chars
      BY <1>1, <1>8
    <3>2. ASSUME NEW x \in chars PROVE x = c
      <4>1. /\ x \in DOMAIN Scancode /\ Scancode[x].key = Scancode[c].key
            /\ Scancode[x].shift = Scancode[c].shift
        BY <1>1, <1>8
      <4>2. Scancode[x] = Scancode[c]
        BY <4>1, LayoutAssumption
      <4> QED
        BY <4>1, <4>2, LayoutAssumption
    <3> HIDE DEF chars
    <3> QED
      BY <3>1, <3>2
  <2>2. rt.held \intersect (Modifiers \ {"shift"}) = {}
    BY <1>8
  <2>3. rt \in Screen /\ k \in KeyNames
    BY <1>3, <1>8
  <2>4. rd \in Screen /\ rd.held = rt.held \union ({k} \ {"pointer"})
    BY <1>9, <2>3, PressDown
  <2> HIDE DEF chars
  <2>5. rd.out = Append(rt.out, c)
    BY <1>9, <2>1, <2>2, <2>3, PressTypes DEF chars
  <2> QED
    BY <1>8, <2>4, <2>5
<1>12. PICK ru : ru = Press(rd, Up(k))
  OBVIOUS
<1>13. After(r0, Append(d, Up(k))) = ru
  BY <1>5, <1>10, <1>12, AfterAppend
<1>14. ru \in Screen /\ ru.held = rd.held \ {k} /\ ru.out = rd.out
  BY <1>3, <1>11, <1>12, PressUp
<1>15. ru.held \ {"shift"} \subseteq r0.held /\ ("shift" \in ru.held) = sh
  BY <1>4, <1>8, <1>11, <1>14
<1> QED
  BY <1>3, <1>9, <1>11, <1>13, <1>14, <1>15 DEF HasTyped

\* The whole of a text: the events let go of everything they press, and on a remote
\* without a modifier down they type it.
LEMMA TextEncodes ==
  ASSUME NEW X, NEW text \in Seq(X)
  PROVE  /\ EncodeString(text) \in Seq(InputEvent)
         /\ LeavesDown(EncodeString(text), {})
         /\ Typable(text) \in Seq(DOMAIN Scancode)
         /\ \A r0 \in Screen : r0.held \intersect Modifiers = {} /\ r0.out = <<>> =>
              LET r == After(r0, EncodeString(text))
              IN  r.out = Typable(text) /\ r.held \subseteq r0.held
<1>1. PICK L : L = Len(text)
  OBVIOUS
<1>2. L \in Nat /\ Len(text) \in Nat
  BY <1>1
<1>3. PICK h : /\ h[0] = [shift |-> FALSE, out |-> <<>>]
               /\ \A n \in 1..L : h[n] = Put(h[n - 1], text[n])
               /\ Encoded(text) = h[L]
  <2>1. \E h : /\ h[0] = [shift |-> FALSE, out |-> <<>>]
               /\ \A n \in 1..Len(text) : h[n] = Put(h[n - 1], text[n])
               /\ Encoded(text) = h[Len(text)]
    BY <1>2, EncodedSteps, Zenon
  <2> QED
    BY <1>1, <2>1
<1>4. PICK g : /\ g[0] = <<>>
               /\ \A n \in 1..L : g[n] = (IF text[n] \in DOMAIN Scancode THEN Append(g[n - 1], text[n]) ELSE g[n - 1])
               /\ Only(text, DOMAIN Scancode) = g[L]
  <2>1. PICK S : S = DOMAIN Scancode
    OBVIOUS
  <2>2. \E g : /\ g[0] = <<>>
               /\ \A n \in 1..L : g[n] = (IF text[n] \in S THEN Append(g[n - 1], text[n]) ELSE g[n - 1])
               /\ Only(text, S) = g[L]
    <3>1. \E g : /\ g[0] = <<>>
                 /\ \A n \in 1..Len(text) : g[n] = (IF text[n] \in S THEN Append(g[n - 1], text[n]) ELSE g[n - 1])
                 /\ Only(text, S) = g[Len(text)]
      BY <1>2, OnlySteps, Zenon
    <3> QED
      BY <1>1, <3>1
  <2> QED
    BY <2>1, <2>2
<1> DEFINE Fresh(r0) == r0.held \intersect Modifiers = {} /\ r0.out = <<>>
           Good(n) == /\ h[n] \in Typing /\ g[n] \in Seq(DOMAIN Scancode)
                      /\ LeavesDown(h[n].out, ShiftKey(h[n].shift))
                      /\ \A r0 \in Screen : Fresh(r0) =>
                           HasTyped(After(r0, h[n].out), r0, h[n].shift, g[n])
           T == {n \in 0..L : Good(n)}
<1>5. Good(0)
  <2>1. h[0] \in Typing /\ h[0].out = <<>> /\ h[0].shift = FALSE
    BY <1>3 DEF Typing
  <2>2. g[0] \in Seq(DOMAIN Scancode)
    BY <1>4
  <2>3. LeavesDown(h[0].out, ShiftKey(h[0].shift))
    BY <2>1 DEF LeavesDown
  <2>4. ASSUME NEW r0 \in Screen, Fresh(r0)
        PROVE  HasTyped(After(r0, h[0].out), r0, h[0].shift, g[0])
    <3>1. After(r0, h[0].out) = r0
      BY <2>1, AfterNothing
    <3>2. "shift" \notin r0.held
      BY <2>4 DEF Modifiers
    <3>3. PICK sh : sh = h[0].shift
      OBVIOUS
    <3>4. ("shift" \in r0.held) = sh
      <4>1. sh = FALSE
        BY <2>1, <3>3
      <4>2. ("shift" \in r0.held) = FALSE
        BY <3>2
      <4> QED
        BY <4>1, <4>2
    <3>5. r0.out = g[0] /\ r0.held \ {"shift"} \subseteq r0.held
      BY <1>4, <2>4
    <3>6. HasTyped(r0, r0, sh, g[0])
      BY <3>4, <3>5 DEF HasTyped
    <3> QED
      BY <3>1, <3>3, <3>6
  <2> QED
    BY <2>1, <2>2, <2>3, <2>4
<1>6. ASSUME NEW n \in 0..L, n < L, Good(n) PROVE Good(n + 1)
  <2>1. n + 1 \in 1..L /\ (n + 1) - 1 = n
    BY <1>2, <1>6
  <2>2. PICK c, acc, got : c = text[n + 1] /\ acc = h[n] /\ got = g[n]
    OBVIOUS
  <2>3. /\ h[n + 1] = Put(acc, c)
        /\ g[n + 1] = (IF c \in DOMAIN Scancode THEN Append(got, c) ELSE got)
    BY <1>3, <1>4, <2>1, <2>2
  <2>4. /\ acc \in Typing /\ got \in Seq(DOMAIN Scancode)
        /\ LeavesDown(acc.out, ShiftKey(acc.shift))
        /\ \A r0 \in Screen : Fresh(r0) => HasTyped(After(r0, acc.out), r0, acc.shift, got)
    BY <1>6, <2>2
  <2>5. CASE c \notin DOMAIN Scancode
    <3>1. h[n + 1] = acc /\ g[n + 1] = got
      BY <2>3, <2>5 DEF Put
    <3> QED
      BY <2>4, <3>1
  <2>6. CASE c \in DOMAIN Scancode
    <3>1. Put(acc, c) \in Typing
      BY <2>4, <2>6, PutSays DEF Typing
    <3>2. LeavesDown(Put(acc, c).out, ShiftKey(Put(acc, c).shift))
      BY <2>4, <2>6, PutLeaves
    <3>3. ASSUME NEW r0 \in Screen, Fresh(r0)
          PROVE  HasTyped(After(r0, Put(acc, c).out), r0, Put(acc, c).shift, Append(got, c))
      <4>1. HasTyped(After(r0, acc.out), r0, acc.shift, got)
        BY <2>4, <3>3
      <4> QED
        BY <2>4, <2>6, <3>3, <4>1, PutTypes
    <3>4. Append(got, c) \in Seq(DOMAIN Scancode)
      BY <2>4, <2>6, AppendProperties
    <3>5. g[n + 1] = Append(got, c)
      BY <2>3, <2>6
    <3> QED
      BY <2>3, <3>1, <3>2, <3>3, <3>4, <3>5
  <2> QED
    BY <2>5, <2>6
<1>7. Good(L)
  <2> HIDE DEF Good
  <2>1. 0 \in T
    BY <1>2, <1>5
  <2>2. ASSUME NEW n \in 0..L, n < L, n \in T PROVE n + 1 \in T
    <3>1. n + 1 \in 0..L
      BY <1>2, <2>2
    <3> QED
      BY <1>6, <2>2, <3>1
  <2> HIDE DEF T
  <2>3. 0..L \subseteq T
    BY <1>2, <2>1, <2>2, UpTo
  <2>4. L \in T
    BY <1>2, <2>3
  <2> QED
    BY <2>4 DEF T
<1>8. PICK o, sh, x : o = h[L].out /\ sh = h[L].shift /\ x = EncodeString(text)
  OBVIOUS
<1>9. /\ o \in Seq(InputEvent) /\ sh \in BOOLEAN /\ g[L] \in Seq(DOMAIN Scancode)
      /\ LeavesDown(o, ShiftKey(sh))
      /\ \A r0 \in Screen : Fresh(r0) => HasTyped(After(r0, o), r0, sh, g[L])
  BY <1>7, <1>8 DEF Typing
<1>10. Typable(text) = g[L]
  BY <1>4 DEF Typable
<1>11. Up("shift") \in InputEvent
  BY Names, EventsAre, Zenon
<1>12. x = IF sh THEN Append(o, Up("shift")) ELSE o
  <2>1. o \o <<Up("shift")>> = Append(o, Up("shift")) /\ o \o <<>> = o
    BY <1>9, <1>11, Joins
  <2> QED
    BY <1>3, <1>8, <2>1 DEF EncodeString
<1>13. x \in Seq(InputEvent)
  BY <1>9, <1>11, <1>12, AppendProperties
<1>14. LeavesDown(x, {})
  <2>1. CASE sh
    <3>1. LeavesDown(Append(o, Up("shift")), ShiftKey(sh) \ {"shift"})
      <4>1. PICK K : K = ShiftKey(sh)
        OBVIOUS
      <4> QED
        BY <1>9, <4>1, Names, LeavesDownAppend
    <3>2. ShiftKey(sh) \ {"shift"} = {}
      BY DEF ShiftKey
    <3> QED
      BY <1>12, <2>1, <3>1, <3>2
  <2>2. CASE ~sh
    BY <1>9, <1>12, <2>2 DEF ShiftKey
  <2> QED
    BY <1>9, <2>1, <2>2
<1>15. ASSUME NEW r0 \in Screen, Fresh(r0)
       PROVE  After(r0, x).out = g[L] /\ After(r0, x).held \subseteq r0.held
  <2>1. PICK r : r = After(r0, o)
    OBVIOUS
  <2>2. /\ r \in Screen /\ r.held \ {"shift"} \subseteq r0.held
        /\ ("shift" \in r.held) = sh /\ r.out = g[L]
    BY <1>9, <1>15, <2>1 DEF HasTyped
  <2>3. CASE sh
    <3>1. After(r0, x) = Press(r, Up("shift"))
      BY <1>9, <1>11, <1>12, <2>1, <2>3, AfterAppend
    <3>2. Press(r, Up("shift")).held = r.held \ {"shift"} /\ Press(r, Up("shift")).out = r.out
      BY <2>2, Names, PressUp
    <3> QED
      BY <2>2, <3>1, <3>2
  <2>4. CASE ~sh
    BY <1>12, <2>1, <2>2, <2>4
  <2> QED
    BY <1>9, <2>3, <2>4
<1> HIDE DEF Fresh
<1>16. \A r0 \in Screen : r0.held \intersect Modifiers = {} /\ r0.out = <<>> =>
         After(r0, x).out = Typable(text) /\ After(r0, x).held \subseteq r0.held
  BY <1>10, <1>15 DEF Fresh
<1> QED
  BY <1>8, <1>9, <1>10, <1>13, <1>14, <1>16

\* What is kept of a text is in the set.
LEMMA OnlyIs ==
  ASSUME NEW X, NEW S, NEW text \in Seq(X)
  PROVE  Only(text, S) \in Seq(S)
<1>1. PICK L : L = Len(text)
  OBVIOUS
<1>2. L \in Nat /\ Len(text) \in Nat
  BY <1>1
<1>3. PICK g : /\ g[0] = <<>>
               /\ \A n \in 1..L : g[n] = (IF text[n] \in S THEN Append(g[n - 1], text[n]) ELSE g[n - 1])
               /\ Only(text, S) = g[L]
  <2>1. \E g : /\ g[0] = <<>>
               /\ \A n \in 1..Len(text) : g[n] = (IF text[n] \in S THEN Append(g[n - 1], text[n]) ELSE g[n - 1])
               /\ Only(text, S) = g[Len(text)]
    BY <1>2, OnlySteps, Zenon
  <2> QED
    BY <1>1, <2>1
<1> DEFINE T == {n \in 0..L : g[n] \in Seq(S)}
<1>4. 0 \in T
  <2>1. g[0] \in Seq(S)
    BY <1>3
  <2> QED
    BY <1>2, <2>1
<1>5. ASSUME NEW n \in 0..L, n < L, n \in T PROVE n + 1 \in T
  <2>1. n + 1 \in 1..L /\ (n + 1) - 1 = n /\ n + 1 \in 0..L
    BY <1>2, <1>5
  <2>2. PICK c, q : c = text[n + 1] /\ q = g[n]
    OBVIOUS
  <2>3. g[n + 1] = IF c \in S THEN Append(q, c) ELSE q
    BY <1>3, <2>1, <2>2
  <2>4. q \in Seq(S)
    BY <1>5, <2>2
  <2>5. c \in S => Append(q, c) \in Seq(S)
    BY <2>4, AppendProperties
  <2>6. g[n + 1] \in Seq(S)
    BY <2>3, <2>4, <2>5
  <2> QED
    BY <2>1, <2>6
<1> HIDE DEF T
<1>6. 0..L \subseteq T
  BY <1>2, <1>4, <1>5, UpTo
<1>7. L \in T
  BY <1>2, <1>6
<1> QED
  BY <1>3, <1>7 DEF T

-----------------------------------------------------------------------------
(* Batches *)

\* What the handlers put into the channel.
Sendable(b) ==
    /\ b \in InputBatch /\ (LonePress(b) \/ Closed(b))
    /\ b.text # <<>> => \E text \in SourceTexts : b = TextBatch(text)

LEMMA ClosedIsNotLone ==
  ASSUME NEW b \in InputBatch, Closed(b)
  PROVE  ~LonePress(b)
<1> SUFFICES ASSUME LonePress(b) PROVE FALSE
  OBVIOUS
<1>1. b.events \in Seq(InputEvent) /\ Len(b.events) = 1
  BY DEF LonePress, InputBatch
<1>2. DOMAIN b.events = {1}
  BY <1>1
<1> QED
  BY <1>2 DEF LonePress, Closed

LEMMA SingleIs ==
  ASSUME NEW k \in KeyNames
  PROVE  /\ Sendable(Single(Down(k))) /\ LonePress(Single(Down(k)))
         /\ Single(Down(k)).events[1].key = k
         /\ Sendable(Single(Up(k))) /\ ~LonePress(Single(Up(k)))
         /\ Releases(Single(Up(k)), k)
<1>1. PICK d, u : d = Down(k) /\ u = Up(k)
  OBVIOUS
<1>2. d \in InputEvent /\ u \in InputEvent /\ d.key = k /\ d.down = TRUE /\ u.down = FALSE
  BY <1>1, EventsAre
<1>3. PICK D, U : D = Single(d) /\ U = Single(u)
  OBVIOUS
<1>4. /\ D.events = <<d>> /\ D.text = <<>> /\ U.events = <<u>> /\ U.text = <<>>
      /\ D = [events |-> <<d>>, text |-> <<>>] /\ U = [events |-> <<u>>, text |-> <<>>]
  BY <1>3 DEF Single, Batch
<1>5. <<d>> \in Seq(InputEvent) /\ <<u>> \in Seq(InputEvent) /\ <<>> \in Seq(DOMAIN Scancode)
  BY <1>2
<1>6. D \in InputBatch /\ U \in InputBatch
  BY <1>4, <1>5 DEF InputBatch
<1>7. LonePress(D) /\ D.events[1].key = k
  BY <1>2, <1>4 DEF LonePress
<1>8. ~LonePress(U) /\ Closed(U)
  BY <1>2, <1>4 DEF LonePress, Closed
<1>9. Releases(U, k)
  <2>1. 1 \in DOMAIN U.events /\ U.events[1] = Up(k)
    BY <1>1, <1>4
  <2> QED
    BY <2>1 DEF Releases
<1> QED
  BY <1>1, <1>3, <1>4, <1>6, <1>7, <1>8, <1>9 DEF Sendable

LEMMA ChordsAre ==
  /\ Sendable(CtrlAltDel) /\ ~LonePress(CtrlAltDel)
  /\ Sendable(WinTap) /\ ~LonePress(WinTap)
<1>1. /\ Down("ctrl") \in InputEvent /\ Up("ctrl") \in InputEvent
      /\ Down("ctrl").key = "ctrl" /\ ~Up("ctrl").down
  BY Names, EventsAre, Zenon
<1>2. /\ Down("alt") \in InputEvent /\ Up("alt") \in InputEvent
      /\ Down("alt").key = "alt" /\ ~Up("alt").down
  BY Names, EventsAre, Zenon
<1>3. /\ Down("del") \in InputEvent /\ Up("del") \in InputEvent
      /\ Down("del").key = "del" /\ ~Up("del").down
  BY Names, EventsAre, Zenon
<1>4. /\ Down("win") \in InputEvent /\ Up("win") \in InputEvent
      /\ Down("win").key = "win" /\ ~Up("win").down
  BY Names, EventsAre, Zenon
<1>5. PICK c, w : c = CtrlAltDel.events /\ w = WinTap.events
  OBVIOUS
<1>6. /\ c = <<Down("ctrl"), Down("alt"), Down("del"), Up("del"), Up("alt"), Up("ctrl")>>
      /\ w = <<Down("win"), Up("win")>>
      /\ CtrlAltDel = [events |-> c, text |-> <<>>] /\ WinTap = [events |-> w, text |-> <<>>]
      /\ CtrlAltDel.text = <<>> /\ WinTap.text = <<>>
  BY <1>5 DEF CtrlAltDel, WinTap, Batch
<1>7. c \in Seq(InputEvent) /\ w \in Seq(InputEvent) /\ <<>> \in Seq(DOMAIN Scancode)
  BY <1>1, <1>2, <1>3, <1>4, <1>6
<1>8. CtrlAltDel \in InputBatch /\ WinTap \in InputBatch
  BY <1>6, <1>7 DEF InputBatch
<1>9. Closed(CtrlAltDel)
  <2>1. /\ DOMAIN c = 1..6 /\ c[1] = Down("ctrl") /\ c[2] = Down("alt") /\ c[3] = Down("del")
        /\ c[4] = Up("del") /\ c[5] = Up("alt") /\ c[6] = Up("ctrl")
    BY <1>6
  <2>2. ASSUME NEW i \in DOMAIN c, c[i].down
        PROVE  \E j \in DOMAIN c : i < j /\ c[j] = Up(c[i].key)
    <3>1. i = 1 \/ i = 2 \/ i = 3
      BY <1>1, <1>2, <1>3, <2>1, <2>2
    <3> QED
      BY <1>1, <1>2, <1>3, <2>1, <3>1
  <2> QED
    BY <1>5, <2>2 DEF Closed
<1>10. Closed(WinTap)
  <2>1. DOMAIN w = 1..2 /\ w[1] = Down("win") /\ w[2] = Up("win")
    BY <1>6
  <2>2. ASSUME NEW i \in DOMAIN w, w[i].down
        PROVE  \E j \in DOMAIN w : i < j /\ w[j] = Up(w[i].key)
    <3>1. i = 1
      BY <1>4, <2>1, <2>2
    <3> QED
      BY <1>4, <2>1, <3>1
  <2> QED
    BY <1>5, <2>2 DEF Closed
<1> QED
  BY <1>6, <1>8, <1>9, <1>10, ClosedIsNotLone DEF Sendable

LEMMA SourcesAre ==
  ASSUME NEW text \in SourceTexts
  PROVE  \E X : text \in Seq(X)
<1>1. CASE text = Clip
  BY <1>1, InputAssumption
<1>2. CASE text # Clip
  <2>1. PICK n \in 0..MaxInput : text \in [1..n -> Printable]
    BY <1>2 DEF SourceTexts
  <2>2. n \in Nat
    BY <2>1, InputAssumption
  <2>3. text \in Seq(Printable)
    BY <2>1, <2>2
  <2> QED
    BY <2>3
<1> QED
  BY <1>1, <1>2

LEMMA TextIs ==
  ASSUME NEW text \in SourceTexts
  PROVE  Sendable(TextBatch(text)) /\ ~LonePress(TextBatch(text))
<1>1. PICK X : text \in Seq(X)
  BY SourcesAre
<1>2. PICK e, t : e = EncodeString(text) /\ t = Typable(text)
  OBVIOUS
<1>3. e \in Seq(InputEvent) /\ LeavesDown(e, {}) /\ t \in Seq(DOMAIN Scancode)
  BY <1>1, <1>2, TextEncodes
<1>4. PICK b : b = TextBatch(text)
  OBVIOUS
<1>5. b = [events |-> e, text |-> t] /\ b.events = e
  BY <1>2, <1>4 DEF TextBatch, Batch
<1>6. b \in InputBatch
  BY <1>3, <1>5 DEF InputBatch
<1>7. Closed(b)
  BY <1>3, <1>5 DEF Closed, LeavesDown
<1> QED
  BY <1>4, <1>6, <1>7, ClosedIsNotLone DEF Sendable

-----------------------------------------------------------------------------
(* The invariant *)

\* Nothing in the channel: what is stuck is what StuckHasCause explains.
LEMMA StuckIsStuck ==
  ASSUME WindowOK', PasteOK', ChannelOK', PromptFits', BatchesClosed', BatchesType', StuckHasCause'
  PROVE  IInv'
<1>1. StuckKeyHasCause'
  <2> SUFFICES ASSUME (channel = <<>>)', NEW k \in remote'.held, k \notin pressed'
               PROVE  k \in swallowed'
    BY DEF StuckKeyHasCause
  <2>1. Stays(k, 0)'
    BY DEF Stays
  <2> QED
    BY <2>1 DEF StuckHasCause
<1> QED
  BY <1>1 DEF IInv, TypeOK

\* A step that leaves the channel alone and forgets the cause of no key.
LEMMA SameChannel ==
  ASSUME IInv, WindowOK', PasteOK', ChannelOK', PromptFits', channel' = channel,
         remote'.held \subseteq remote.held,
         pressed \union swallowed \subseteq pressed' \union swallowed'
  PROVE  IInv'
<1>1. BatchesClosed' /\ BatchesType'
  BY DEF IInv, BatchesClosed, BatchesType
<1>2. \A k, i : Stays(k, i)' = Stays(k, i)
  BY DEF Stays
<1>3. StuckHasCause'
  <2>1. \A k \in remote'.held : Stays(k, 0)' => k \in pressed' \union swallowed'
    BY <1>2 DEF IInv, StuckHasCause
  <2>2. ASSUME NEW i \in DOMAIN channel', NEW k \in KeyNames \ {"pointer"},
               LonePress(channel'[i]), channel'[i].events[1].key = k, Stays(k, i)'
        PROVE  k \in pressed' \union swallowed'
    BY <1>2, <2>2 DEF IInv, StuckHasCause
  <2> QED
    BY <2>1, <2>2 DEF StuckHasCause
<1> QED
  BY <1>1, <1>3, StuckIsStuck

\* A step that puts a batch behind the others: it is one of those above, and a key
\* whose cause it forgets is let go by it.
LEMMA OneMore ==
  ASSUME IInv, WindowOK', PasteOK', PromptFits', UNCHANGED <<linked, remote>>,
         NEW b, Sendable(b), Fits, channel' = Append(channel, b),
         \A k \in pressed \union swallowed : k \in pressed' \union swallowed' \/ Releases(b, k),
         LonePress(b) => \/ b.events[1].key = "pointer"
                         \/ b.events[1].key \in pressed' \union swallowed'
  PROVE  IInv'
<1>1. PICK L : L = Len(channel)
  OBVIOUS
<1>2. /\ channel \in Seq(InputBatch) /\ L \in Nat /\ L < Capacity /\ DOMAIN channel = 1..L
      /\ b \in InputBatch
  BY <1>1 DEF IInv, TypeOK, ChannelOK, Fits, Sendable
<1>3. /\ channel' \in Seq(InputBatch) /\ Len(channel') = L + 1 /\ channel'[L + 1] = b
      /\ \A i \in 1..L : channel'[i] = channel[i]
  BY <1>1, <1>2, AppendProperties
<1>4. DOMAIN channel' = 1..(L + 1)
  BY <1>3
<1>5. Capacity \in Nat
  BY InputAssumption
<1>6. ChannelOK'
  <2>1. Len(channel') <= Capacity
    BY <1>2, <1>3, <1>5
  <2> QED
    BY <1>3, <2>1 DEF IInv, TypeOK, ChannelOK
<1>7. \A i \in 1..(L + 1) : i \in 1..L \/ i = L + 1
  BY <1>2
<1>8. BatchesClosed'
  BY <1>2, <1>3, <1>4, <1>7 DEF IInv, BatchesClosed, Sendable
<1>9. BatchesType'
  <2> SUFFICES ASSUME NEW i \in DOMAIN channel', channel'[i].text # <<>>
               PROVE  \E text \in SourceTexts : channel'[i] = TextBatch(text)
    BY DEF BatchesType
  <2>1. CASE i = L + 1
    BY <1>3, <2>1 DEF Sendable
  <2>2. CASE i \in 1..L
    <3>1. channel'[i] = channel[i] /\ i \in DOMAIN channel
      BY <1>2, <1>3, <2>2
    <3> QED
      BY <3>1 DEF IInv, BatchesType
  <2> QED
    BY <1>4, <1>7, <2>1, <2>2
<1>10. ASSUME NEW k, NEW i \in 0..L, Stays(k, i)'
       PROVE  Stays(k, i) /\ ~Releases(b, k)
  <2>1. L + 1 \in DOMAIN channel' /\ L + 1 > i
    BY <1>2, <1>4
  <2>2. ~Releases(b, k)
    BY <1>3, <1>10, <2>1 DEF Stays
  <2>3. \A j \in DOMAIN channel : j \in DOMAIN channel' /\ channel'[j] = channel[j]
    BY <1>2, <1>3, <1>4
  <2>4. Stays(k, i)
    BY <1>10, <2>3 DEF Stays
  <2> QED
    BY <2>2, <2>4
<1>11. StuckHasCause'
  <2>1. ASSUME NEW k \in remote'.held, Stays(k, 0)' PROVE k \in pressed' \union swallowed'
    <3>1. Stays(k, 0) /\ ~Releases(b, k)
      BY <1>2, <1>10, <2>1
    <3>2. k \in pressed \union swallowed
      BY <2>1, <3>1 DEF IInv, StuckHasCause
    <3> QED
      BY <3>1, <3>2
  <2>2. ASSUME NEW i \in DOMAIN channel', NEW k \in KeyNames \ {"pointer"},
               LonePress(channel'[i]), channel'[i].events[1].key = k, Stays(k, i)'
        PROVE  k \in pressed' \union swallowed'
    <3>1. CASE i = L + 1
      BY <1>3, <2>2, <3>1
    <3>2. CASE i \in 1..L
      <4>2. channel'[i] = channel[i] /\ i \in DOMAIN channel /\ i \in 0..L
        BY <1>2, <1>3, <3>2
      <4>4. Stays(k, i) /\ ~Releases(b, k)
        BY <1>10, <2>2, <4>2
      <4>5. k \in pressed \union swallowed
        BY <2>2, <4>2, <4>4 DEF IInv, StuckHasCause
      <4> QED
        BY <4>4, <4>5
    <3> QED
      BY <1>4, <1>7, <3>1, <3>2
  <2> QED
    BY <2>1, <2>2 DEF StuckHasCause
<1> QED
  BY <1>6, <1>8, <1>9, <1>11, StuckIsStuck

\* try_send of a batch that lets go of what it presses, or nothing.
LEMMA MaySend ==
  ASSUME IInv, WindowOK', PasteOK', PromptFits', UNCHANGED <<linked, remote>>,
         NEW b, Sendable(b), ~LonePress(b), Offer(b) \/ UNCHANGED channel,
         pressed \union swallowed \subseteq pressed' \union swallowed'
  PROVE  IInv'
<1>1. CASE UNCHANGED channel
  <2>1. ChannelOK'
    BY <1>1 DEF IInv, TypeOK, ChannelOK
  <2> QED
    BY <1>1, <2>1, SameChannel
<1>2. CASE Offer(b) /\ Fits
  <2>1. channel' = Append(channel, b)
    BY <1>2 DEF Offer
  <2> QED
    BY <1>2, <2>1, OneMore
<1>3. CASE Offer(b) /\ ~Fits
  <2>1. UNCHANGED channel
    BY <1>3 DEF Offer
  <2> QED
    BY <1>1, <2>1
<1> QED
  BY <1>1, <1>2, <1>3

\* send_input of a key that is down under the operator's hand.
LEMMA ForwardsDown ==
  ASSUME IInv, WindowOK', PasteOK', PromptFits', UNCHANGED <<linked, remote>>,
         NEW k \in KeyNames, Forward(Down(k)), pressed' = pressed \union {k}
  PROVE  IInv'
<1>1. PICK b : b = Single(Down(k))
  OBVIOUS
<1>2. Sendable(b) /\ b.events[1].key = k
  BY <1>1, SingleIs
<1>3. Down(k).key = k /\ Down(k).down = TRUE
  BY EventsAre
<1>4. CASE ~view_only /\ Fits
  <2>1. channel' = Append(channel, b) /\ swallowed' = swallowed \ {k}
    BY <1>1, <1>3, <1>4 DEF Forward
  <2>2. \A x \in pressed \union swallowed : x \in pressed' \union swallowed' \/ Releases(b, x)
    BY <2>1
  <2>3. b.events[1].key \in pressed' \union swallowed'
    BY <1>2
  <2> QED
    BY <1>2, <1>4, <2>1, <2>2, <2>3, OneMore
<1>5. CASE ~(~view_only /\ Fits)
  <2>1. channel' = channel /\ swallowed' = swallowed
    BY <1>3, <1>5 DEF Forward
  <2>2. ChannelOK'
    BY <2>1 DEF IInv, TypeOK, ChannelOK
  <2> QED
    BY <2>1, <2>2, SameChannel
<1> QED
  BY <1>4, <1>5

\* send_input of a key the operator lets go.
LEMMA ForwardsUp ==
  ASSUME IInv, WindowOK', PasteOK', PromptFits', UNCHANGED <<linked, remote>>,
         NEW k \in KeyNames, Forward(Up(k)), pressed' = pressed \ {k}
  PROVE  IInv'
<1>1. PICK b : b = Single(Up(k))
  OBVIOUS
<1>2. Sendable(b) /\ ~LonePress(b) /\ Releases(b, k)
  BY <1>1, SingleIs
<1>3. Up(k).key = k /\ Up(k).down = FALSE
  BY EventsAre
<1>4. CASE ~view_only /\ Fits
  <2>1. channel' = Append(channel, b) /\ swallowed' = swallowed \ {k}
    BY <1>1, <1>3, <1>4 DEF Forward
  <2>2. \A x \in pressed \union swallowed : x \in pressed' \union swallowed' \/ Releases(b, x)
    BY <1>2, <2>1
  <2> QED
    BY <1>2, <1>4, <2>1, <2>2, OneMore
<1>5. CASE ~(~view_only /\ Fits)
  <2>1. channel' = channel /\ swallowed' = swallowed \union {k}
    BY <1>3, <1>5 DEF Forward
  <2>2. ChannelOK'
    BY <2>1 DEF IInv, TypeOK, ChannelOK
  <2> QED
    BY <2>1, <2>2, SameChannel
<1> QED
  BY <1>4, <1>5

\* A release nobody forwards.
LEMMA Swallows ==
  ASSUME IInv, WindowOK', PasteOK', PromptFits', UNCHANGED <<linked, remote>>,
         NEW k, Swallow(k), pressed' = pressed \ {k}
  PROVE  IInv'
<1>1. channel' = channel /\ swallowed' = swallowed \union {k}
  BY DEF Swallow
<1>2. ChannelOK'
  BY <1>1 DEF IInv, TypeOK, ChannelOK
<1> QED
  BY <1>1, <1>2, SameChannel

\* What every step leaves of the event loop's state.
LoopOK == loop \in {"awake", "drained", "wait", "until"} /\ repaints \in BOOLEAN

LEMMA ActIs ==
  ASSUME IInv, NEW seen, Act(seen)
  PROVE  LoopOK'
  BY DEF IInv, TypeOK, WindowOK, Act, LoopOK

\* What the handlers may leave in `swallowed`.
LEMMA SwallowedIs ==
  ASSUME IInv, NEW k \in Keys \union {"left"}, pressed' = pressed \union {k} \/ pressed' = pressed \ {k},
         swallowed' \subseteq swallowed \union {k},
         UNCHANGED <<focused, hooked, view_only, prompt>>, overlay' \in {overlay, "none"},
         LoopOK'
  PROVE  WindowOK' /\ PromptFits'
  BY DEF IInv, TypeOK, WindowOK, PromptFits, LoopOK

LEMMA ForwardSwallows ==
  ASSUME NEW k \in KeyNames, Forward(Down(k)) \/ Forward(Up(k))
  PROVE  swallowed' \subseteq swallowed \union {k}
<1>1. Down(k).key = k /\ Up(k).key = k
  BY EventsAre
<1> QED
  BY <1>1 DEF Forward

LEMMA ClipIs ==
  Clip \in SourceTexts
  BY DEF SourceTexts

LEMMA KeyDownKeeps ==
  ASSUME IInv, NEW k \in Keys, KeyDown(k)
  PROVE  IInv'
<1>1. k \in KeyNames /\ k \in Keys \union {"left"}
  BY Names
<1>2. /\ pressed' = pressed \union {k} /\ UNCHANGED <<focused, hooked, view_only, prompt>>
      /\ UNCHANGED <<linked, remote>> /\ UNCHANGED counter /\ LoopOK'
  BY ActIs DEF KeyDown, session
<1>3. \/ UNCHANGED <<channel, swallowed, paste>> /\ overlay' \in {overlay, "none"}
      \/ TakenByHook(k) /\ HookDown(k) /\ UNCHANGED <<paste, overlay>>
      \/ Pressed(k) /\ UNCHANGED overlay
  BY DEF KeyDown, TakenByHook
<1>4. CASE UNCHANGED <<channel, swallowed, paste>> /\ overlay' \in {overlay, "none"}
  <2>1. WindowOK' /\ PromptFits'
    BY <1>1, <1>2, <1>4, SwallowedIs
  <2>2. PasteOK' /\ ChannelOK'
    BY <1>2, <1>4 DEF IInv, TypeOK, PasteOK, ChannelOK
  <2> QED
    BY <1>2, <1>4, <2>1, <2>2, SameChannel
<1>5. CASE HookDown(k) /\ UNCHANGED <<paste, overlay>>
  <2>1. PICK b : b = IF k = "win" THEN Single(Down("win")) ELSE WinTap
    OBVIOUS
  <2>2. \/ Fits /\ channel' = Append(channel, b) /\ swallowed' = swallowed \ {}
        \/ UNCHANGED channel /\ swallowed' = swallowed \union {}
    BY <1>5, <2>1 DEF HookDown, HookSends
  <2>3. swallowed' = swallowed
    BY <2>2
  <2>4. WindowOK' /\ PromptFits'
    BY <1>1, <1>2, <1>5, <2>3, SwallowedIs
  <2>5. PasteOK'
    BY <1>2, <1>5 DEF IInv, TypeOK, PasteOK
  <2>6. CASE UNCHANGED channel
    <3>1. ChannelOK'
      BY <1>2, <2>6 DEF IInv, TypeOK, ChannelOK
    <3> QED
      BY <1>2, <2>3, <2>4, <2>5, <2>6, <3>1, SameChannel
  <2>7. CASE Fits /\ channel' = Append(channel, b)
    <3>1. Sendable(b)
      BY <2>1, ChordsAre, SingleIs, Names
    <3>2. LonePress(b) => b.events[1].key \in pressed'
      <4>1. CASE k = "win"
        BY <1>2, <2>1, <4>1, SingleIs, Names
      <4>2. CASE k # "win"
        BY <2>1, <4>2, ChordsAre
      <4> QED
        BY <4>1, <4>2
    <3>3. \A x \in pressed \union swallowed : x \in pressed' \union swallowed' \/ Releases(b, x)
      BY <1>2, <2>3
    <3> QED
      BY <1>2, <2>4, <2>5, <2>7, <3>1, <3>2, <3>3, OneMore
  <2> QED
    BY <2>2, <2>6, <2>7
<1>6. CASE Pressed(k) /\ UNCHANGED overlay
  <2>1. \/ /\ OfferUnlessViewOnly(CtrlAltDel) \/ OfferText(Clip)
              \/ OfferUnlessViewOnly(WinTap) \/ UNCHANGED channel
           /\ UNCHANGED <<paste, swallowed>>
        \/ /\ Forward(Down(k))
           /\ paste' = IF Arms(k) THEN [age |-> 0, baseline |-> counter, v_released |-> FALSE]
                       ELSE paste
    BY <1>6 DEF Pressed
  <2>2. CASE /\ OfferUnlessViewOnly(CtrlAltDel) \/ OfferText(Clip)
                \/ OfferUnlessViewOnly(WinTap) \/ UNCHANGED channel
             /\ UNCHANGED <<paste, swallowed>>
    <3>1. WindowOK' /\ PromptFits'
      BY <1>1, <1>2, <1>6, <2>2, SwallowedIs
    <3>2. PasteOK'
      BY <1>2, <2>2 DEF IInv, TypeOK, PasteOK
    <3>3. PICK t : t = TextBatch(Clip)
      OBVIOUS
    <3>4. Sendable(t) /\ ~LonePress(t)
      BY <3>3, ClipIs, TextIs
    <3>5. Offer(CtrlAltDel) \/ Offer(WinTap) \/ Offer(t) \/ UNCHANGED channel
      BY <2>2, <3>3 DEF OfferUnlessViewOnly, OfferText
    <3>6. pressed \union swallowed \subseteq pressed' \union swallowed'
      BY <1>2, <2>2
    <3> QED
      BY <1>2, <3>1, <3>2, <3>4, <3>5, <3>6, ChordsAre, MaySend
  <2>3. CASE /\ Forward(Down(k))
             /\ paste' = IF Arms(k) THEN [age |-> 0, baseline |-> counter, v_released |-> FALSE]
                         ELSE paste
    <3>1. swallowed' \subseteq swallowed \union {k}
      BY <1>1, <2>3, ForwardSwallows
    <3>2. WindowOK' /\ PromptFits'
      BY <1>1, <1>2, <1>6, <3>1, SwallowedIs
    <3>3. PasteOK'
      BY <1>2, <2>3 DEF IInv, TypeOK, PasteOK
    <3> QED
      BY <1>1, <1>2, <2>3, <3>2, <3>3, ForwardsDown
  <2> QED
    BY <2>1, <2>2, <2>3
<1> QED
  BY <1>3, <1>4, <1>5, <1>6

LEMMA KeyUpKeeps ==
  ASSUME IInv, NEW k \in Keys, KeyUp(k)
  PROVE  IInv'
<1>1. k \in KeyNames /\ k \in Keys \union {"left"}
  BY Names
<1>2. /\ pressed' = pressed \ {k} /\ UNCHANGED <<focused, hooked, view_only, prompt>>
      /\ overlay' = overlay /\ UNCHANGED <<linked, remote>> /\ UNCHANGED counter /\ LoopOK'
  BY ActIs DEF KeyUp, window, session
<1>3. \/ Swallow(k) /\ UNCHANGED paste
      \/ HookUp(k) /\ UNCHANGED paste
      \/ Released(k)
  BY DEF KeyUp, TakenByHook
<1>4. ASSUME Swallow(k), PasteOK' PROVE IInv'
  <2>1. swallowed' \subseteq swallowed \union {k}
    BY <1>4 DEF Swallow
  <2>2. WindowOK' /\ PromptFits'
    BY <1>1, <1>2, <2>1, SwallowedIs
  <2> QED
    BY <1>2, <1>4, <2>2, Swallows
<1>5. ASSUME UNCHANGED paste PROVE PasteOK'
  BY <1>2, <1>5 DEF IInv, TypeOK, PasteOK
<1>6. CASE HookUp(k) /\ k = "win" /\ UNCHANGED paste
  <2>1. PICK b : b = Single(Up(k))
    OBVIOUS
  <2>2. Sendable(b) /\ ~LonePress(b) /\ Releases(b, k)
    BY <1>1, <2>1, SingleIs
  <2>3. \/ Fits /\ channel' = Append(channel, b) /\ swallowed' = swallowed \ {k}
        \/ UNCHANGED channel /\ swallowed' = swallowed \union {k}
    BY <1>6, <2>1 DEF HookUp, HookSends
  <2>4. WindowOK' /\ PromptFits'
    <3>1. swallowed' \subseteq swallowed \union {k}
      BY <2>3
    <3> QED
      BY <1>1, <1>2, <3>1, SwallowedIs
  <2>5. CASE Fits /\ channel' = Append(channel, b) /\ swallowed' = swallowed \ {k}
    <3>1. \A x \in pressed \union swallowed : x \in pressed' \union swallowed' \/ Releases(b, x)
      BY <1>2, <2>2, <2>5
    <3> QED
      BY <1>2, <1>5, <1>6, <2>2, <2>4, <2>5, <3>1, OneMore
  <2>6. CASE UNCHANGED channel /\ swallowed' = swallowed \union {k}
    BY <1>4, <1>5, <1>6, <2>6 DEF Swallow
  <2> QED
    BY <2>3, <2>5, <2>6
<1>7. CASE HookUp(k) /\ k # "win" /\ UNCHANGED paste
  BY <1>4, <1>5, <1>7 DEF HookUp
<1>8. CASE Released(k)
  <2>1. PasteOK'
    BY <1>2, <1>8 DEF IInv, TypeOK, PasteOK, Released
  <2>2. CASE LocalChord(k)
    BY <1>4, <1>8, <2>1, <2>2 DEF Released
  <2>3. CASE ~LocalChord(k)
    <3>1. Forward(Up(k))
      BY <1>8, <2>3 DEF Released
    <3>2. swallowed' \subseteq swallowed \union {k}
      BY <1>1, <3>1, ForwardSwallows
    <3>3. WindowOK' /\ PromptFits'
      BY <1>1, <1>2, <3>2, SwallowedIs
    <3> QED
      BY <1>1, <1>2, <2>1, <3>1, <3>3, ForwardsUp
  <2> QED
    BY <2>2, <2>3
<1> QED
  BY <1>3, <1>4, <1>5, <1>6, <1>7, <1>8

LEMMA MouseKeeps ==
  ASSUME IInv, MouseDown \/ \E b \in BOOLEAN : MouseUp(b)
  PROVE  IInv'
<1>1. "left" \in KeyNames /\ "left" \in Keys \union {"left"}
  BY Names
<1>2. CASE MouseDown
  <2>1. /\ pressed' = pressed \union {"left"} /\ UNCHANGED <<focused, hooked, view_only, prompt>>
        /\ UNCHANGED <<linked, remote>> /\ UNCHANGED <<counter, paste>>
        /\ overlay' \in {overlay, "none"}
        /\ Forward(Down("left")) \/ UNCHANGED <<channel, swallowed>>
        /\ LoopOK'
    BY <1>2, ActIs DEF MouseDown, session
  <2>2. swallowed' \subseteq swallowed \union {"left"}
    BY <1>1, <2>1, ForwardSwallows
  <2>3. WindowOK' /\ PromptFits'
    BY <1>1, <2>1, <2>2, SwallowedIs
  <2>4. PasteOK'
    BY <2>1 DEF IInv, TypeOK, PasteOK
  <2>5. CASE Forward(Down("left"))
    BY <1>1, <2>1, <2>3, <2>4, <2>5, ForwardsDown
  <2>6. CASE UNCHANGED <<channel, swallowed>>
    <3>1. ChannelOK'
      BY <2>1, <2>6 DEF IInv, TypeOK, ChannelOK
    <3> QED
      BY <2>1, <2>3, <2>4, <2>6, <3>1, SameChannel
  <2> QED
    BY <2>1, <2>5, <2>6
<1>3. ASSUME NEW b \in BOOLEAN, MouseUp(b) PROVE IInv'
  <2>1. /\ pressed' = pressed \ {"left"} /\ UNCHANGED <<focused, hooked, view_only, prompt>>
        /\ UNCHANGED <<linked, remote>> /\ UNCHANGED <<counter, paste>>
        /\ overlay' \in {overlay, "none"}
        /\ Forward(Up("left")) \/ Swallow("left")
        /\ LoopOK'
    BY <1>3, ActIs DEF MouseUp, window, session
  <2>2. swallowed' \subseteq swallowed \union {"left"}
    BY <1>1, <2>1, ForwardSwallows DEF Swallow
  <2>3. WindowOK' /\ PromptFits'
    BY <1>1, <2>1, <2>2, SwallowedIs
  <2>4. PasteOK'
    BY <2>1 DEF IInv, TypeOK, PasteOK
  <2>5. CASE Forward(Up("left"))
    BY <1>1, <2>1, <2>3, <2>4, <2>5, ForwardsUp
  <2>6. CASE Swallow("left")
    BY <2>1, <2>3, <2>4, <2>6, Swallows
  <2> QED
    BY <2>1, <2>5, <2>6
<1> QED
  BY <1>2, <1>3

LEMMA MoveKeeps ==
  ASSUME IInv, NEW w \in BOOLEAN, MoveOrScroll(w)
  PROVE  IInv'
<1>1. PICK b : b = Single(Down("pointer"))
  OBVIOUS
<1>2. Sendable(b) /\ b.events[1].key = "pointer"
  BY <1>1, Names, SingleIs
<1>3. /\ UNCHANGED <<pressed, swallowed, focused, hooked, view_only, overlay, prompt, paste, counter>>
      /\ UNCHANGED <<linked, remote>> /\ LoopOK'
  BY ActIs DEF MoveOrScroll, window, session
<1>4. WindowOK' /\ PasteOK' /\ PromptFits'
  BY <1>3 DEF IInv, TypeOK, WindowOK, PasteOK, PromptFits, LoopOK
<1>5. UNCHANGED channel \/ (Fits /\ channel' = Append(channel, b))
  BY <1>1 DEF MoveOrScroll, OfferUnlessViewOnly, Offer
<1>6. CASE UNCHANGED channel
  <2>1. ChannelOK'
    BY <1>3, <1>6 DEF IInv, TypeOK, ChannelOK
  <2> QED
    BY <1>3, <1>4, <1>6, <2>1, SameChannel
<1>7. CASE Fits /\ channel' = Append(channel, b)
  <2>1. \A x \in pressed \union swallowed : x \in pressed' \union swallowed' \/ Releases(b, x)
    BY <1>3
  <2> QED
    BY <1>2, <1>3, <1>4, <1>7, <2>1, OneMore
<1> QED
  BY <1>5, <1>6, <1>7

LEMMA EmptyPromptIs ==
  /\ EmptyPrompt \in [input : Seq(Printable),
                      outcome : [kind : {"none", "confirmed", "cancelled"}, text : Seq(Printable)]]
  /\ Len(EmptyPrompt.input) <= MaxInput /\ Len(EmptyPrompt.outcome.text) <= MaxInput
<1>1. MaxInput \in Nat
  BY InputAssumption
<1>2. <<>> \in Seq(Printable) /\ Len(<<>>) <= MaxInput
  BY <1>1
<1> QED
  BY <1>2 DEF EmptyPrompt, NoOutcome

LEMMA ToolbarKeeps ==
  ASSUME IInv, NEW a \in {"cad", "win", "view_only", "type", "about"}, Toolbar(a)
  PROVE  IInv'
<1>1. /\ UNCHANGED <<pressed, swallowed, focused, hooked, paste, counter>>
      /\ UNCHANGED <<linked, remote>>
      /\ view_only' \in {view_only, ~view_only}
      /\ overlay' \in {overlay, "type", "about"} /\ prompt' \in {EmptyPrompt, prompt}
      /\ LoopOK'
  BY ActIs DEF Toolbar, session
<1>2. Offer(CtrlAltDel) \/ Offer(WinTap) \/ UNCHANGED channel
  BY DEF Toolbar, OfferUnlessViewOnly
<1>3. PasteOK'
  BY <1>1 DEF IInv, TypeOK, PasteOK
<1>4. WindowOK'
  BY <1>1, EmptyPromptIs DEF IInv, TypeOK, WindowOK, LoopOK
<1>5. PromptFits'
  BY <1>1, EmptyPromptIs DEF IInv, PromptFits
<1>6. pressed \union swallowed \subseteq pressed' \union swallowed'
  BY <1>1
<1> QED
  BY <1>1, <1>2, <1>3, <1>4, <1>5, <1>6, ChordsAre, MaySend

LEMMA FocusKeeps ==
  ASSUME IInv, FocusChanges
  PROVE  IInv'
<1>1. /\ UNCHANGED <<pressed, swallowed, hooked, view_only, overlay, prompt, paste, counter, channel>>
      /\ UNCHANGED <<linked, remote>> /\ focused' = ~focused /\ LoopOK'
  BY ActIs DEF FocusChanges, session
<1>2. WindowOK' /\ PasteOK' /\ ChannelOK' /\ PromptFits'
  BY <1>1 DEF IInv, TypeOK, WindowOK, PasteOK, ChannelOK, PromptFits, LoopOK
<1> QED
  BY <1>1, <1>2, SameChannel

\* The prompt stays text that is not control characters.
LEMMA EditIs ==
  ASSUME NEW p \in [input : Seq(Printable),
                    outcome : [kind : {"none", "confirmed", "cancelled"}, text : Seq(Printable)]],
         NEW kind \in {"text", "paste", "backspace", "clear", "enter", "esc"}, NEW c,
         Len(p.input) <= MaxInput, Len(p.outcome.text) <= MaxInput
  PROVE  /\ Edit(p, kind, c) \in [input : Seq(Printable),
                    outcome : [kind : {"none", "confirmed", "cancelled"}, text : Seq(Printable)]]
         /\ Len(Edit(p, kind, c).outcome.text) <= MaxInput
<1> DEFINE Prompts == [input : Seq(Printable),
                       outcome : [kind : {"none", "confirmed", "cancelled"}, text : Seq(Printable)]]
<1>1. PICK i, o : i = p.input /\ o = p.outcome
  OBVIOUS
<1>2. i \in Seq(Printable) /\ o \in [kind : {"none", "confirmed", "cancelled"}, text : Seq(Printable)]
  BY <1>1
<1>3. MaxInput \in Nat /\ Clip \in Seq(STRING)
  BY InputAssumption
<1>4. ASSUME NEW j \in Seq(Printable)
      PROVE  /\ [p EXCEPT !.input = j] \in Prompts
             /\ [p EXCEPT !.input = j].outcome = o
  BY <1>1
<1>5. ASSUME NEW q \in Prompts, q.outcome = o PROVE Len(q.outcome.text) <= MaxInput
  BY <1>1, <1>5
<1>6. CASE kind = "text"
  <2>1. PICK q : q = Only(<<c>>, Printable)
    OBVIOUS
  <2>2. q \in Seq(Printable)
    <3>1. <<c>> \in Seq({c})
      OBVIOUS
    <3> QED
      BY <2>1, <3>1, OnlyIs
  <2>3. i \o q \in Seq(Printable)
    BY <1>2, <2>2, ConcatProperties
  <2>4. Edit(p, kind, c) = [p EXCEPT !.input = i \o q]
    BY <1>1, <1>6, <2>1 DEF Edit
  <2> QED
    BY <1>4, <1>5, <2>3, <2>4
<1>7. CASE kind = "paste"
  <2>1. PICK q : q = Only(Clip, Printable)
    OBVIOUS
  <2>2. q \in Seq(Printable)
    BY <1>3, <2>1, OnlyIs
  <2>3. i \o q \in Seq(Printable)
    BY <1>2, <2>2, ConcatProperties
  <2>4. Edit(p, kind, c) = [p EXCEPT !.input = i \o q]
    BY <1>1, <1>7, <2>1 DEF Edit
  <2> QED
    BY <1>4, <1>5, <2>3, <2>4
<1>8. CASE kind = "backspace"
  <2>1. PICK q : q = IF i = <<>> THEN i ELSE Front(i)
    OBVIOUS
  <2>2. q \in Seq(Printable)
    <3>1. CASE i = <<>>
      BY <1>2, <2>1, <3>1
    <3>2. CASE i # <<>>
      <4>1. q = SubSeq(i, 1, Len(i) - 1) /\ Len(i) \in Nat /\ Len(i) # 0
        BY <1>2, <2>1, <3>2 DEF Front
      <4> QED
        BY <1>2, <4>1
    <3> QED
      BY <3>1, <3>2
  <2>3. Edit(p, kind, c) = [p EXCEPT !.input = q]
    BY <1>1, <1>8, <2>1 DEF Edit
  <2> QED
    BY <1>4, <1>5, <2>2, <2>3
<1>9. CASE kind = "clear"
  <2>1. Edit(p, kind, c) = [p EXCEPT !.input = <<>>]
    BY <1>9 DEF Edit
  <2>2. <<>> \in Seq(Printable)
    OBVIOUS
  <2> QED
    BY <1>4, <1>5, <2>1, <2>2
<1>10. CASE kind = "enter"
  <2>1. Edit(p, kind, c) = IF i = <<>> THEN p
                           ELSE [p EXCEPT !.outcome = [kind |-> "confirmed", text |-> i]]
    BY <1>1, <1>10 DEF Edit
  <2> QED
    BY <1>1, <1>2, <2>1, SMTT(60)
<1>11. CASE kind = "esc"
  <2>1. PICK q : q = <<>>
    OBVIOUS
  <2>2. q \in Seq(Printable) /\ Len(q) <= MaxInput
    BY <1>3, <2>1
  <2>3. Edit(p, kind, c) = [p EXCEPT !.outcome = [kind |-> "cancelled", text |-> q]]
    BY <1>11, <2>1 DEF Edit
  <2> QED
    BY <2>2, <2>3
<1> QED
  BY <1>6, <1>7, <1>8, <1>9, <1>10, <1>11

LEMMA TypeEditKeeps ==
  ASSUME IInv, TypeEdit
  PROVE  IInv'
<1>1. /\ UNCHANGED <<pressed, swallowed, focused, hooked, view_only, overlay, paste, counter, channel>>
      /\ UNCHANGED <<linked, remote>> /\ LoopOK'
  BY ActIs DEF TypeEdit, session
<1>2. PICK kind \in {"text", "paste", "backspace", "clear", "enter", "esc"}, c \in DOMAIN Scancode :
         prompt' = Edit(prompt, kind, c) /\ Len(prompt'.input) <= MaxInput
  BY DEF TypeEdit
<1>3. /\ prompt \in [input : Seq(Printable),
                     outcome : [kind : {"none", "confirmed", "cancelled"}, text : Seq(Printable)]]
      /\ Len(prompt.input) <= MaxInput /\ Len(prompt.outcome.text) <= MaxInput
  BY DEF IInv, TypeOK, WindowOK, PromptFits
<1>4. /\ prompt' \in [input : Seq(Printable),
                     outcome : [kind : {"none", "confirmed", "cancelled"}, text : Seq(Printable)]]
      /\ Len(prompt'.outcome.text) <= MaxInput
  BY <1>2, <1>3, EditIs
<1>5. WindowOK' /\ PromptFits'
  BY <1>1, <1>2, <1>4 DEF IInv, TypeOK, WindowOK, PromptFits, LoopOK
<1>6. PasteOK' /\ ChannelOK'
  BY <1>1 DEF IInv, TypeOK, PasteOK, ChannelOK
<1> QED
  BY <1>1, <1>5, <1>6, SameChannel

LEMMA DrainKeeps ==
  ASSUME IInv, DrainTypePrompt
  PROVE  IInv'
<1>1. /\ UNCHANGED <<pressed, swallowed, focused, hooked, view_only, paste, counter>>
      /\ UNCHANGED <<linked, remote>> /\ overlay' = "none" /\ prompt' = EmptyPrompt
      /\ loop' = "drained" /\ UNCHANGED repaints
  BY DEF DrainTypePrompt, session
<1>2. PICK t : t = prompt.outcome.text
  OBVIOUS
<1>3. t \in SourceTexts
  <2>1. t \in Seq(Printable) /\ Len(t) <= MaxInput
    BY <1>2 DEF IInv, TypeOK, WindowOK, PromptFits
  <2>2. Len(t) \in Nat /\ MaxInput \in Nat
    BY <2>1, InputAssumption
  <2>3. Len(t) \in 0..MaxInput /\ t \in [1..Len(t) -> Printable]
    BY <2>1, <2>2
  <2> QED
    BY <2>3 DEF SourceTexts
<1>4. PICK b : b = TextBatch(t)
  OBVIOUS
<1>5. Sendable(b) /\ ~LonePress(b)
  BY <1>3, <1>4, TextIs
<1>6. Offer(b) \/ UNCHANGED channel
  BY <1>2, <1>4 DEF DrainTypePrompt
<1>7. WindowOK' /\ PromptFits' /\ PasteOK'
  <2>1. WindowOK'
    BY <1>1, EmptyPromptIs DEF IInv, TypeOK, WindowOK
  <2>2. PromptFits'
    BY <1>1, EmptyPromptIs DEF PromptFits
  <2>3. PasteOK'
    BY <1>1 DEF IInv, TypeOK, PasteOK
  <2> QED
    BY <2>1, <2>2, <2>3
<1>8. pressed \union swallowed \subseteq pressed' \union swallowed'
  BY <1>1
<1> QED
  BY <1>1, <1>5, <1>6, <1>7, <1>8, MaySend

LEMMA PasteKeeps ==
  ASSUME IInv, TimePasses \/ DecidePaste
  PROVE  IInv'
<1>1. /\ UNCHANGED <<pressed, swallowed, focused, hooked, view_only, overlay, prompt, counter>>
      /\ UNCHANGED <<linked, remote>>
      /\ loop' \in {loop, "wait", "until"} /\ UNCHANGED repaints
  BY DEF TimePasses, DecidePaste, ControlFlow, window, session, eventLoop
<1>2. WindowOK' /\ PromptFits'
  BY <1>1 DEF IInv, TypeOK, WindowOK, PromptFits
<1>3. pressed \union swallowed \subseteq pressed' \union swallowed'
  BY <1>1
<1>4. PasteOK'
  <2>1. paste \in [age : -1..2, baseline : Nat, v_released : BOOLEAN]
    BY DEF IInv, TypeOK, PasteOK
  <2>2. CASE TimePasses
    BY <1>1, <2>1, <2>2 DEF IInv, TypeOK, PasteOK, TimePasses
  <2>3. CASE DecidePaste
    <3>1. paste' = paste \/ paste' = NoPaste
      BY <2>3 DEF DecidePaste
    <3>2. NoPaste \in [age : -1..2, baseline : Nat, v_released : BOOLEAN]
      BY DEF NoPaste
    <3> QED
      BY <1>1, <2>1, <3>1, <3>2 DEF IInv, TypeOK, PasteOK
  <2> QED
    BY <2>2, <2>3
<1>5. PICK b : b = TextBatch(Clip)
  OBVIOUS
<1>6. Sendable(b) /\ ~LonePress(b)
  BY <1>5, ClipIs, TextIs
<1>7. Offer(b) \/ UNCHANGED channel
  BY <1>5 DEF TimePasses, DecidePaste, OfferText
<1> QED
  BY <1>1, <1>2, <1>3, <1>4, <1>6, <1>7, MaySend

\* The remote before a batch.
Before == [held |-> remote.held, out |-> <<>>, wants |-> remote.wants]

LEMMA HeadIs ==
  ASSUME IInv, channel # <<>>
  PROVE  /\ Before \in Screen /\ Head(channel) = channel[1] /\ channel[1] \in InputBatch
         /\ channel[1].events \in Seq(InputEvent)
         /\ Tail(channel) \in Seq(InputBatch) /\ Len(Tail(channel)) = Len(channel) - 1
         /\ DOMAIN Tail(channel) = 1..(Len(channel) - 1) /\ Len(channel) \in Nat \ {0}
         /\ DOMAIN channel = 1..Len(channel)
         /\ \A i \in 1..(Len(channel) - 1) : Tail(channel)[i] = channel[i + 1]
<1>1. channel \in Seq(InputBatch)
  BY DEF IInv, TypeOK, ChannelOK
<1>2. Len(channel) \in Nat \ {0} /\ DOMAIN channel = 1..Len(channel) /\ channel[1] \in InputBatch
  BY <1>1, EmptySeq
<1>3. Before \in Screen
  BY DEF IInv, TypeOK, ChannelOK, Before, Screen
<1>4. channel[1].events \in Seq(InputEvent)
  BY <1>2 DEF InputBatch
<1>5. /\ Head(channel) = channel[1] /\ Tail(channel) \in Seq(InputBatch)
      /\ Len(Tail(channel)) = Len(channel) - 1
      /\ \A i \in 1..(Len(channel) - 1) : Tail(channel)[i] = channel[i + 1]
  BY <1>1, <1>2, HeadTailProperties
<1>6. DOMAIN Tail(channel) = 1..(Len(channel) - 1)
  BY <1>5
<1> QED
  BY <1>2, <1>3, <1>4, <1>5, <1>6

LEMMA ForwardBatchKeeps ==
  ASSUME IInv, ForwardBatch
  PROVE  IInv'
<1>1. /\ UNCHANGED <<pressed, swallowed, focused, hooked, view_only, overlay, prompt, paste, counter>>
      /\ UNCHANGED linked /\ channel # <<>> /\ channel' = Tail(channel)
      /\ UNCHANGED <<loop, repaints>>
  BY DEF ForwardBatch, window, eventLoop
<1>2. PICK b, r : b = Head(channel) /\ r = After(Before, b.events)
  OBVIOUS
<1>3. remote' = [held |-> r.held, wants |-> r.wants]
  BY <1>2 DEF ForwardBatch, Before
<1>4. PICK L : L = Len(channel)
  OBVIOUS
<1>5. /\ Before \in Screen /\ b = channel[1] /\ b \in InputBatch /\ b.events \in Seq(InputEvent)
      /\ channel' \in Seq(InputBatch) /\ Len(channel') = L - 1
      /\ DOMAIN channel' = 1..(L - 1) /\ L \in Nat \ {0} /\ DOMAIN channel = 1..L
      /\ \A i \in 1..(L - 1) : channel'[i] = channel[i + 1]
  BY <1>1, <1>2, <1>4, HeadIs
<1>6. PICK events : events = b.events
  OBVIOUS
<1>7. /\ r \in Screen
      /\ \A k \in r.held :
           \/ k \in Before.held /\ \A j \in DOMAIN events : events[j] # Up(k)
           \/ /\ k # "pointer"
              /\ \E i \in DOMAIN events :
                   events[i] = Down(k) /\ \A j \in DOMAIN events : i < j => events[j] # Up(k)
  BY <1>2, <1>5, <1>6, AfterKeeps
<1>8. WindowOK' /\ PasteOK' /\ PromptFits'
  BY <1>1 DEF IInv, TypeOK, WindowOK, PasteOK, PromptFits
<1>9. ChannelOK'
  <2>1. remote' \in [held : SUBSET KeyNames, wants : BOOLEAN]
    BY <1>3, <1>7 DEF Screen
  <2>2. Len(channel') <= Capacity
    BY <1>4, <1>5, InputAssumption DEF IInv, TypeOK, ChannelOK
  <2> QED
    BY <1>1, <1>5, <2>1, <2>2 DEF IInv, TypeOK, ChannelOK
<1>10. \A i \in DOMAIN channel' : i + 1 \in DOMAIN channel /\ channel'[i] = channel[i + 1] /\ i \in Nat
  BY <1>5
<1>11. BatchesClosed'
  BY <1>10 DEF IInv, BatchesClosed
<1>12. BatchesType'
  <2> SUFFICES ASSUME NEW i \in DOMAIN channel', channel'[i].text # <<>>
               PROVE  \E text \in SourceTexts : channel'[i] = TextBatch(text)
    BY DEF BatchesType
  <2>1. i + 1 \in DOMAIN channel /\ channel'[i] = channel[i + 1]
    BY <1>10
  <2> QED
    BY <2>1 DEF IInv, BatchesType
<1>13. ASSUME NEW k, NEW i \in Nat, Stays(k, i)' PROVE Stays(k, i + 1)
  <2> SUFFICES ASSUME NEW j \in DOMAIN channel, j > i + 1 PROVE ~Releases(channel[j], k)
    BY DEF Stays
  <2>1. j - 1 \in DOMAIN channel' /\ j - 1 > i /\ channel'[j - 1] = channel[j]
    BY <1>5
  <2> QED
    BY <1>13, <2>1 DEF Stays
<1>14. StuckHasCause'
  <2>1. ASSUME NEW k \in remote'.held, Stays(k, 0)' PROVE k \in pressed' \union swallowed'
    <3>1. Stays(k, 1)
      BY <1>13, <2>1
    <3>2. k \in r.held /\ Before.held = remote.held /\ k \in KeyNames
      BY <1>3, <1>7, <2>1 DEF Before, Screen
    <3>3. CASE k \in Before.held /\ \A j \in DOMAIN events : events[j] # Up(k)
      <4>1. ~Releases(channel[1], k)
        BY <1>5, <1>6, <3>3 DEF Releases
      <4>2. Stays(k, 0)
        <5>1. \A j \in DOMAIN channel : j > 0 => j = 1 \/ j > 1
          BY <1>5
        <5> QED
          BY <3>1, <4>1, <5>1 DEF Stays
      <4> QED
        BY <1>1, <3>2, <3>3, <4>2 DEF IInv, StuckHasCause
    <3>4. CASE /\ k # "pointer"
               /\ \E i \in DOMAIN events :
                    events[i] = Down(k) /\ \A j \in DOMAIN events : i < j => events[j] # Up(k)
      <4>1. PICK i \in DOMAIN events :
               events[i] = Down(k) /\ \A j \in DOMAIN events : i < j => events[j] # Up(k)
        BY <3>4
      <4>2. events[i].key = k /\ events[i].down
        BY <3>2, <4>1, EventsAre
      <4>3. ~Closed(b)
        BY <1>6, <4>1, <4>2 DEF Closed
      <4>4. 1 \in DOMAIN channel
        BY <1>5
      <4>5. LonePress(channel[1])
        BY <1>5, <4>3, <4>4 DEF IInv, BatchesClosed
      <4>6. channel[1].events[1].key = k
        <5>1. Len(events) = 1 /\ events \in Seq(InputEvent)
          BY <1>5, <1>6, <4>5 DEF LonePress
        <5>2. i = 1
          BY <5>1
        <5> QED
          BY <1>5, <1>6, <4>2, <5>2
      <4> QED
        BY <1>1, <3>1, <3>2, <3>4, <4>4, <4>5, <4>6 DEF IInv, StuckHasCause
    <3> QED
      BY <1>7, <3>2, <3>3, <3>4
  <2>2. ASSUME NEW i \in DOMAIN channel', NEW k \in KeyNames \ {"pointer"},
               LonePress(channel'[i]), channel'[i].events[1].key = k, Stays(k, i)'
        PROVE  k \in pressed' \union swallowed'
    <3>1. i + 1 \in DOMAIN channel /\ channel'[i] = channel[i + 1] /\ i \in Nat
      BY <1>10
    <3>2. Stays(k, i + 1)
      BY <1>13, <2>2, <3>1
    <3> QED
      BY <1>1, <2>2, <3>1, <3>2 DEF IInv, StuckHasCause
  <2> QED
    BY <2>1, <2>2 DEF StuckHasCause
<1> QED
  BY <1>8, <1>9, <1>11, <1>12, <1>14, StuckIsStuck

LEMMA WakingKeeps ==
  ASSUME IInv, TimerFires \/ Redraws
  PROVE  IInv'
<1>1. /\ UNCHANGED <<pressed, swallowed, focused, hooked, view_only, overlay, prompt, paste, counter, channel>>
      /\ UNCHANGED <<linked, remote>> /\ loop' = "awake" /\ repaints' \in {repaints, TRUE, FALSE}
  BY DEF TimerFires, Redraws, asleep, window, session
<1>2. WindowOK' /\ PasteOK' /\ ChannelOK' /\ PromptFits'
  <2>1. WindowOK'
    BY <1>1 DEF IInv, TypeOK, WindowOK
  <2>2. PasteOK'
    BY <1>1 DEF IInv, TypeOK, PasteOK
  <2>3. ChannelOK'
    BY <1>1 DEF IInv, TypeOK, ChannelOK
  <2> QED
    BY <1>1, <2>1, <2>2, <2>3 DEF IInv, PromptFits
<1>3. /\ channel' = channel /\ remote'.held \subseteq remote.held
      /\ pressed \union swallowed \subseteq pressed' \union swallowed'
  BY <1>1
<1> QED
  BY <1>2, <1>3, SameChannel

LEMMA SessionKeeps ==
  ASSUME IInv, RemoteAsks \/ SessionLost \/ SessionBack
  PROVE  IInv'
<1>1. /\ UNCHANGED <<pressed, swallowed, focused, hooked, view_only, overlay, prompt, paste, channel>>
      /\ counter' \in {counter, counter + 1} /\ linked' \in {linked, TRUE, FALSE}
      /\ UNCHANGED <<loop, repaints>>
  BY DEF RemoteAsks, SessionLost, SessionBack, window, eventLoop
<1>2. remote \in [held : SUBSET KeyNames, wants : BOOLEAN]
  BY DEF IInv, TypeOK, ChannelOK
<1>3. /\ remote' \in [held : SUBSET KeyNames, wants : BOOLEAN]
      /\ remote'.held \subseteq remote.held
  <2>1. CASE RemoteAsks
    BY <1>2, <2>1 DEF RemoteAsks
  <2>2. CASE SessionLost
    BY <1>2, <2>2 DEF SessionLost
  <2>3. CASE SessionBack
    <3>1. PICK none : none = {}
      OBVIOUS
    <3>2. remote' = remote \/ remote' = [held |-> none, wants |-> FALSE]
      BY <2>3, <3>1 DEF SessionBack
    <3>3. none \in SUBSET KeyNames /\ none \subseteq remote.held
      BY <3>1
    <3>4. CASE remote' = remote
      BY <1>2, <3>4
    <3>5. CASE remote' = [held |-> none, wants |-> FALSE]
      <4>1. remote'.held = none
        BY <3>5
      <4>2. [held |-> none, wants |-> FALSE] \in [held : SUBSET KeyNames, wants : BOOLEAN]
        BY <3>3
      <4> QED
        BY <3>3, <3>5, <4>1, <4>2
    <3> QED
      BY <3>2, <3>4, <3>5
  <2> QED
    BY <2>1, <2>2, <2>3
<1>4. WindowOK' /\ PasteOK' /\ PromptFits'
  BY <1>1 DEF IInv, TypeOK, WindowOK, PasteOK, PromptFits
<1>5. ChannelOK'
  BY <1>1, <1>3 DEF IInv, TypeOK, ChannelOK
<1> QED
  BY <1>1, <1>3, <1>4, <1>5, SameChannel

\* The inductive invariant holds in every behaviour: a key that is stuck down on the
\* remote had its last release swallowed, for every channel capacity, however the
\* handlers, the hook, typed text and reconnects interleave.
THEOREM Invariance == Spec => []IInv
<1>1. Init => IInv
  <2> SUFFICES ASSUME Init PROVE IInv
    OBVIOUS
  <2>1. Capacity \in Nat \ {0}
    BY InputAssumption
  <2>2. WindowOK /\ PromptFits
    BY EmptyPromptIs DEF Init, WindowOK, PromptFits
  <2>3. PasteOK
    BY DEF Init, PasteOK, NoPaste
  <2>4. ChannelOK
    <3>1. channel = <<>> /\ <<>> \in Seq(InputBatch) /\ Len(<<>>) = 0
      BY DEF Init
    <3> QED
      BY <2>1, <3>1 DEF Init, ChannelOK
  <2>5. remote.held = {} /\ DOMAIN channel = {}
    BY DEF Init
  <2>6. BatchesClosed /\ BatchesType /\ StuckHasCause /\ StuckKeyHasCause
    BY <2>5 DEF BatchesClosed, BatchesType, StuckHasCause, StuckKeyHasCause
  <2> QED
    BY <2>2, <2>3, <2>4, <2>6 DEF IInv, TypeOK
<1>2. IInv /\ [Next]_vars => IInv'
  <2> SUFFICES ASSUME IInv, [Next]_vars PROVE IInv'
    OBVIOUS
  <2>1. CASE UNCHANGED vars
    <3>1. /\ UNCHANGED <<pressed, swallowed, focused, hooked, view_only, overlay, prompt, paste, counter, channel>>
          /\ UNCHANGED <<linked, remote>> /\ UNCHANGED <<loop, repaints>>
      BY <2>1 DEF vars
    <3>2. WindowOK' /\ PasteOK' /\ ChannelOK' /\ PromptFits'
      BY <3>1 DEF IInv, TypeOK, WindowOK, PasteOK, ChannelOK, PromptFits
    <3> QED
      BY <3>1, <3>2, SameChannel
  <2>2. CASE Operator
    BY <2>2, KeyDownKeeps, KeyUpKeeps, MouseKeeps, MoveKeeps, ToolbarKeeps, FocusKeeps, TypeEditKeeps
       DEF Operator
  <2>3. CASE AboutToWait \/ TimePasses
    BY <2>3, DrainKeeps, PasteKeeps DEF AboutToWait
  <2>4. CASE ForwardBatch
    BY <2>4, ForwardBatchKeeps
  <2>5. CASE RemoteAsks \/ SessionLost \/ SessionBack
    BY <2>5, SessionKeeps
  <2>6. CASE TimerFires \/ Redraws
    BY <2>6, WakingKeeps
  <2> QED
    BY <2>1, <2>2, <2>3, <2>4, <2>5, <2>6 DEF Next
<1> QED
  BY <1>1, <1>2, PTL DEF Spec

\* Typed text arrives as it was meant, for every keyboard layout that gives each
\* character a key and a Shift state of its own, every clipboard and every text
\* of the prompt.
THEOREM TypesAsMeant == Spec => []TypedAsMeant
<1>1. Init => TypedAsMeant
  BY DEF Init, TypedAsMeant, NoText
<1>2. IInv /\ TypedAsMeant /\ [Next]_vars => TypedAsMeant'
  <2> SUFFICES ASSUME IInv, TypedAsMeant, [Next]_vars PROVE TypedAsMeant'
    OBVIOUS
  <2>1. CASE UNCHANGED typed
    BY <2>1 DEF TypedAsMeant
  <2>2. CASE ForwardBatch
    <3>1. channel # <<>>
      BY <2>2 DEF ForwardBatch
    <3>2. PICK b, r : b = Head(channel) /\ r = After(Before, b.events)
      OBVIOUS
    <3>3. typed' = IF b.text = <<>> THEN NoText
                   ELSE [meant |-> b.text, got |-> r.out,
                         clean |-> remote.held \intersect Modifiers = {},
                         left |-> r.held \ remote.held]
      BY <2>2, <3>2 DEF ForwardBatch, Before
    <3>4. Before \in Screen /\ b = channel[1] /\ 1 \in DOMAIN channel
      BY <3>1, <3>2, HeadIs
    <3>5. CASE b.text = <<>>
      BY <3>3, <3>5 DEF TypedAsMeant, NoText
    <3>6. CASE b.text # <<>>
      <4>1. PICK text \in SourceTexts : b = TextBatch(text)
        BY <3>4, <3>6 DEF IInv, BatchesType
      <4>2. b.events = EncodeString(text) /\ b.text = Typable(text)
        BY <4>1 DEF TextBatch, Batch
      <4>3. PICK X : text \in Seq(X)
        BY <4>1, SourcesAre
      <4>4. Before.out = <<>> /\ Before.held = remote.held
        BY DEF Before
      <4>5. ASSUME remote.held \intersect Modifiers = {}
            PROVE  r.out = b.text /\ r.held \ remote.held = {}
        <5>1. Before \in Screen /\ Before.held \intersect Modifiers = {} /\ Before.out = <<>>
          BY <3>4, <4>4, <4>5, Zenon
        <5>2. PICK es : es = EncodeString(text)
          OBVIOUS
        <5>3. After(Before, es).out = Typable(text) /\ After(Before, es).held \subseteq Before.held
          BY <4>3, <5>1, <5>2, TextEncodes, ZenonT(60)
        <5>4. r = After(Before, es)
          BY <3>2, <4>2, <5>2, Zenon
        <5> QED
          BY <4>2, <4>4, <5>3, <5>4
      <4>6. /\ typed'.meant = b.text /\ typed'.got = r.out
            /\ typed'.clean = (remote.held \intersect Modifiers = {})
            /\ typed'.left = r.held \ remote.held
        BY <3>3, <3>6
      <4> QED
        BY <4>5, <4>6 DEF TypedAsMeant
    <3> QED
      BY <3>5, <3>6
  <2>3. UNCHANGED typed \/ ForwardBatch
    BY DEF Next, vars, Operator, AboutToWait, KeyDown, KeyUp, MouseDown, MouseUp, MoveOrScroll,
           Toolbar, FocusChanges, TypeEdit, DrainTypePrompt, DecidePaste, TimePasses,
           TimerFires, Redraws, asleep, RemoteAsks, SessionLost, SessionBack, session
  <2> QED
    BY <2>1, <2>2, <2>3
<1> QED
  BY <1>1, <1>2, Invariance, PTL DEF Spec

\* With the view-only lock on only the hook, a confirmed prompt and a staged paste
\* put input into the channel: every other handler asks for the lock.
THEOREM ViewOnlyHolds == Spec => ViewOnlyExceptions
<1> DEFINE Allowed == \/ AboutToWait
                      \/ \E k \in Keys : TakenByHook(k) /\ (KeyDown(k) \/ KeyUp(k))
<1>1. IInv /\ [Next]_vars => [view_only /\ Len(channel') > Len(channel) => Allowed]_vars
  <2> SUFFICES ASSUME IInv, Next, view_only, Len(channel') > Len(channel) PROVE Allowed
    OBVIOUS
  <2>1. channel \in Seq(InputBatch) /\ Len(channel) \in Nat
    BY DEF IInv, TypeOK, ChannelOK
  <2>2. channel' # channel
    BY <2>1
  <2>3. \A e : ~Forward(e)
    BY <2>2 DEF Forward
  <2>4. \A b : ~OfferUnlessViewOnly(b)
    BY <2>2 DEF OfferUnlessViewOnly
  <2>5. ASSUME NEW k \in Keys, KeyDown(k) PROVE Allowed
    <3>1. ~Pressed(k)
      BY <2>2, <2>3, <2>4 DEF Pressed
    <3>2. TakenByHook(k)
      BY <2>2, <2>5, <3>1 DEF KeyDown
    <3> QED
      BY <2>5, <3>2
  <2>6. ASSUME NEW k \in Keys, KeyUp(k) PROVE Allowed
    <3>1. ~Released(k) /\ ~Swallow(k)
      BY <2>2, <2>3 DEF Released, Swallow
    <3>2. TakenByHook(k)
      BY <2>6, <3>1 DEF KeyUp
    <3> QED
      BY <2>6, <3>2
  <2>7. ~MouseDown /\ \A b \in BOOLEAN : ~MouseUp(b)
    BY <2>2, <2>3 DEF MouseDown, MouseUp, Swallow
  <2>8. \A b \in BOOLEAN : ~MoveOrScroll(b)
    BY <2>4 DEF MoveOrScroll
  <2>9. \A a \in {"cad", "win", "view_only", "type", "about"} : ~Toolbar(a)
    BY <2>2, <2>4 DEF Toolbar
  <2>10. /\ ~FocusChanges /\ ~TypeEdit /\ ~TimePasses /\ ~TimerFires /\ ~Redraws
         /\ ~RemoteAsks /\ ~SessionLost /\ ~SessionBack
    BY <2>2 DEF FocusChanges, TypeEdit, TimePasses, TimerFires, Redraws, asleep, RemoteAsks,
                SessionLost, SessionBack
  <2>11. ~ForwardBatch
    <3> SUFFICES ASSUME ForwardBatch PROVE FALSE
      OBVIOUS
    <3>1. channel # <<>> /\ channel' = Tail(channel)
      BY DEF ForwardBatch
    <3>2. Len(channel') = Len(channel) - 1
      BY <3>1, HeadIs
    <3> QED
      BY <2>1, <3>2
  <2> HIDE DEF Allowed
  <2>12. AboutToWait => Allowed
    BY DEF Allowed
  <2> QED
    BY <2>5, <2>6, <2>7, <2>8, <2>9, <2>10, <2>11, <2>12 DEF Next, Operator
<1> HIDE DEF Allowed
<1>2. Spec => [][view_only /\ Len(channel') > Len(channel) => Allowed]_vars
  BY <1>1, Invariance, PTL DEF Spec
<1> QED
  BY <1>2 DEF ViewOnlyExceptions, Allowed
=============================================================================
