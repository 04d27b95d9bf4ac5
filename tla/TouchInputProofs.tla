--------------------------- MODULE TouchInputProofs ---------------------------
(***************************************************************************)
(* Proofs about TouchInput, for every layout of control buttons, every map *)
(* of a gamepad, and every length of the queue: what the game holds is     *)
(* held by the player, or its release was lost in one of the ways the      *)
(* module notes; a latched button holds its keys; the latch of the gamepad *)
(* is what the game holds.                                                 *)
(***************************************************************************)
EXTENDS TouchInput, TLAPS

USE TouchAssumption

Ev == [code : Code, down : BOOLEAN]

-----------------------------------------------------------------------------
(* Sequences of events: which codes they are about, and which they leave   *)
(* down. Those of a handler are put together from events by \o.            *)

(* No events say nothing.                                                  *)
LEMMA NoEvents == <<>> \in Seq(Ev) /\ Told(<<>>) = {} /\ SaidDown(<<>>) = {}
BY DEF Told, SaidDown

(* Of two sequences, the second has the last word.                         *)
LEMMA BothFacts ==
    ASSUME NEW e \in Seq(Ev), NEW f \in Seq(Ev)
    PROVE  /\ e \o f \in Seq(Ev)
           /\ Told(e \o f) = Told(e) \cup Told(f)
           /\ SaidDown(e \o f) = SaidDown(f) \cup (SaidDown(e) \ Told(f))
<1> DEFINE g == e \o f
<1>1. /\ g \in Seq(Ev) /\ Len(g) = Len(e) + Len(f)
      /\ Len(e) \in Nat /\ Len(f) \in Nat
      /\ DOMAIN e = 1 .. Len(e) /\ DOMAIN f = 1 .. Len(f) /\ DOMAIN g = 1 .. Len(g)
      /\ \A i \in DOMAIN e : g[i] = e[i]
      /\ \A i \in DOMAIN f : g[Len(e) + i] = f[i]
    OBVIOUS
<1> HIDE DEF g
<1>2. \A i \in DOMAIN g : i \in DOMAIN e \/ \E j \in DOMAIN f : i = Len(e) + j
    <2> TAKE i \in DOMAIN g
    <2>1. CASE i <= Len(e)
        BY <1>1, <2>1
    <2>2. CASE i > Len(e)
        <3>1. i - Len(e) \in DOMAIN f /\ i = Len(e) + (i - Len(e))
            BY <1>1, <2>2
        <3> QED BY <3>1
    <2> QED BY <1>1, <2>1, <2>2
<1>3. \A i \in DOMAIN e : i \in DOMAIN g
    BY <1>1
<1>4. \A j \in DOMAIN f : Len(e) + j \in DOMAIN g
    BY <1>1
<1>5. Told(g) = Told(e) \cup Told(f)
    BY <1>1, <1>2, <1>3, <1>4 DEF Told
<1>6. \A j \in DOMAIN f : IsLast(g, Len(e) + j) <=> IsLast(f, j)
    <2> TAKE j \in DOMAIN f
    <2>1. ASSUME IsLast(g, Len(e) + j), NEW k \in DOMAIN f, f[k].code = f[j].code
          PROVE  k <= j
        <3>1. g[Len(e) + k].code = g[Len(e) + j].code /\ Len(e) + k \in DOMAIN g
            BY <1>1, <1>4, <2>1
        <3>2. Len(e) + k <= Len(e) + j
            BY <2>1, <3>1 DEF IsLast
        <3> QED BY <1>1, <3>2
    <2>2. ASSUME IsLast(f, j), NEW k \in DOMAIN g, g[k].code = g[Len(e) + j].code
          PROVE  k <= Len(e) + j
        <3>1. CASE k \in DOMAIN e
            BY <1>1, <3>1
        <3>2. ASSUME NEW m \in DOMAIN f, k = Len(e) + m PROVE k <= Len(e) + j
            <4>1. f[m].code = f[j].code
                BY <1>1, <2>2, <3>2
            <4>2. m <= j
                BY <2>2, <4>1 DEF IsLast
            <4> QED BY <1>1, <3>2, <4>2
        <3> QED BY <1>2, <3>1, <3>2
    <2>3. IsLast(g, Len(e) + j) => IsLast(f, j)
        BY <2>1 DEF IsLast
    <2>4. IsLast(f, j) => IsLast(g, Len(e) + j)
        BY <2>2 DEF IsLast
    <2> QED BY <2>3, <2>4
<1>7. \A i \in DOMAIN e : IsLast(g, i) <=> IsLast(e, i) /\ e[i].code \notin Told(f)
    <2> TAKE i \in DOMAIN e
    <2>1. ASSUME IsLast(g, i), NEW k \in DOMAIN e, e[k].code = e[i].code PROVE k <= i
        BY <1>1, <1>3, <2>1 DEF IsLast
    <2>2. ASSUME IsLast(g, i), NEW j \in DOMAIN f, f[j].code = e[i].code PROVE FALSE
        <3>1. Len(e) + j \in DOMAIN g /\ g[Len(e) + j].code = g[i].code
            BY <1>1, <1>4, <2>2
        <3>2. Len(e) + j <= i
            BY <2>2, <3>1 DEF IsLast
        <3> QED BY <1>1, <3>2
    <2>3. ASSUME IsLast(e, i), e[i].code \notin Told(f), NEW k \in DOMAIN g,
                 g[k].code = g[i].code
          PROVE  k <= i
        <3>1. CASE k \in DOMAIN e
            BY <1>1, <2>3, <3>1 DEF IsLast
        <3>2. ASSUME NEW m \in DOMAIN f, k = Len(e) + m PROVE FALSE
            <4>1. f[m].code = e[i].code
                BY <1>1, <2>3, <3>2
            <4> QED BY <2>3, <4>1 DEF Told
        <3> QED BY <1>2, <3>1, <3>2
    <2>4. IsLast(g, i) => IsLast(e, i) /\ e[i].code \notin Told(f)
        BY <2>1, <2>2 DEF IsLast, Told
    <2>5. IsLast(e, i) /\ e[i].code \notin Told(f) => IsLast(g, i)
        BY <2>3 DEF IsLast
    <2> QED BY <2>4, <2>5
<1>8. SaidDown(g) \subseteq SaidDown(f) \cup (SaidDown(e) \ Told(f))
    <2> SUFFICES ASSUME NEW i \in DOMAIN g, g[i].down, IsLast(g, i)
                 PROVE  g[i].code \in SaidDown(f) \cup (SaidDown(e) \ Told(f))
        BY DEF SaidDown
    <2>1. CASE i \in DOMAIN e
        BY <1>1, <1>7, <2>1 DEF SaidDown
    <2>2. ASSUME NEW j \in DOMAIN f, i = Len(e) + j
          PROVE  g[i].code \in SaidDown(f)
        <3>1. g[i] = f[j] /\ IsLast(f, j)
            BY <1>1, <1>6, <2>2
        <3> QED BY <3>1 DEF SaidDown
    <2> QED BY <1>2, <2>1, <2>2
<1>9. SaidDown(f) \subseteq SaidDown(g)
    <2> SUFFICES ASSUME NEW j \in DOMAIN f, f[j].down, IsLast(f, j)
                 PROVE  f[j].code \in SaidDown(g)
        BY DEF SaidDown
    <2>1. /\ Len(e) + j \in DOMAIN g /\ g[Len(e) + j] = f[j] /\ IsLast(g, Len(e) + j)
        BY <1>1, <1>4, <1>6
    <2> QED BY <2>1 DEF SaidDown
<1>10. SaidDown(e) \ Told(f) \subseteq SaidDown(g)
    <2> SUFFICES ASSUME NEW i \in DOMAIN e, e[i].down, IsLast(e, i), e[i].code \notin Told(f)
                 PROVE  e[i].code \in SaidDown(g)
        BY DEF SaidDown
    <2>1. i \in DOMAIN g /\ g[i] = e[i] /\ IsLast(g, i)
        BY <1>1, <1>3, <1>7
    <2> QED BY <2>1 DEF SaidDown
<1> QED BY <1>1, <1>5, <1>8, <1>9, <1>10 DEF g

(* An event, and the one for Command, when a key goes down.                *)
LEMMA DownFacts ==
    ASSUME NEW c \in Code
    PROVE  /\ Event(c, TRUE) \in Seq(Ev)
           /\ Told(Event(c, TRUE)) = WithCommand({c})
           /\ SaidDown(Event(c, TRUE)) = WithCommand({c})
<1>1. "super" \in Code
    BY DEF Code
<1>2. CASE c = "control"
    <2> DEFINE e == <<[code |-> c, down |-> TRUE], [code |-> "super", down |-> TRUE]>>
    <2>1. Event(c, TRUE) = e
        BY <1>2 DEF Event
    <2>2. e \in Seq(Ev)
        BY <1>1 DEF Ev
    <2>3. /\ DOMAIN e = {1, 2} /\ e[1].code = c /\ e[2].code = "super"
          /\ e[1].down /\ e[2].down
        OBVIOUS
    <2> HIDE DEF e
    <2>4. Told(e) = WithCommand({c})
        BY <1>2, <2>3 DEF Told, WithCommand
    <2>5. IsLast(e, 1) /\ IsLast(e, 2)
        BY <1>2, <2>3 DEF IsLast
    <2>6. SaidDown(e) = WithCommand({c})
        BY <1>2, <2>3, <2>5 DEF SaidDown, WithCommand
    <2> QED BY <2>1, <2>2, <2>4, <2>6
<1>3. CASE c # "control"
    <2> DEFINE e == <<[code |-> c, down |-> TRUE]>>
    <2>1. Event(c, TRUE) = e
        BY <1>3 DEF Event
    <2>2. e \in Seq(Ev)
        BY DEF Ev
    <2>3. DOMAIN e = {1} /\ e[1].code = c /\ e[1].down
        OBVIOUS
    <2> HIDE DEF e
    <2>4. Told(e) = WithCommand({c}) /\ IsLast(e, 1)
        BY <1>3, <2>3 DEF Told, WithCommand, IsLast
    <2>5. SaidDown(e) = WithCommand({c})
        BY <1>3, <2>3, <2>4 DEF SaidDown, WithCommand
    <2> QED BY <2>1, <2>2, <2>4, <2>5
<1> QED BY <1>2, <1>3

(* The same when it comes up.                                              *)
LEMMA UpFacts ==
    ASSUME NEW c \in Code
    PROVE  /\ Event(c, FALSE) \in Seq(Ev)
           /\ Told(Event(c, FALSE)) = WithCommand({c})
           /\ SaidDown(Event(c, FALSE)) = {}
<1>1. "super" \in Code
    BY DEF Code
<1>2. CASE c = "control"
    <2> DEFINE e == <<[code |-> c, down |-> FALSE], [code |-> "super", down |-> FALSE]>>
    <2>1. Event(c, FALSE) = e
        BY <1>2 DEF Event
    <2>2. e \in Seq(Ev)
        BY <1>1 DEF Ev
    <2>3. /\ DOMAIN e = {1, 2} /\ e[1].code = c /\ e[2].code = "super"
          /\ ~e[1].down /\ ~e[2].down
        OBVIOUS
    <2> HIDE DEF e
    <2>4. Told(e) = WithCommand({c})
        BY <1>2, <2>3 DEF Told, WithCommand
    <2>5. SaidDown(e) = {}
        BY <2>3 DEF SaidDown
    <2> QED BY <2>1, <2>2, <2>4, <2>5
<1>3. CASE c # "control"
    <2> DEFINE e == <<[code |-> c, down |-> FALSE]>>
    <2>1. Event(c, FALSE) = e
        BY <1>3 DEF Event
    <2>2. e \in Seq(Ev)
        BY DEF Ev
    <2>3. DOMAIN e = {1} /\ e[1].code = c /\ ~e[1].down
        OBVIOUS
    <2> HIDE DEF e
    <2>4. Told(e) = WithCommand({c}) /\ SaidDown(e) = {}
        BY <1>3, <2>3 DEF Told, WithCommand, SaidDown
    <2> QED BY <2>1, <2>2, <2>4
<1> QED BY <1>2, <1>3

(* A key that is pressed and released at once is left up.                  *)
LEMMA ClickFacts ==
    ASSUME NEW c \in Code
    PROVE  /\ Click(c) \in Seq(Ev)
           /\ Told(Click(c)) = WithCommand({c})
           /\ SaidDown(Click(c)) = {}
<1>1. Click(c) = Event(c, TRUE) \o Event(c, FALSE)
    BY DEF Click
<1>2. /\ Event(c, TRUE) \in Seq(Ev) /\ Told(Event(c, TRUE)) = WithCommand({c})
      /\ SaidDown(Event(c, TRUE)) = WithCommand({c})
    BY DownFacts
<1>3. /\ Event(c, FALSE) \in Seq(Ev) /\ Told(Event(c, FALSE)) = WithCommand({c})
      /\ SaidDown(Event(c, FALSE)) = {}
    BY UpFacts
<1>4. /\ Event(c, TRUE) \o Event(c, FALSE) \in Seq(Ev)
      /\ Told(Event(c, TRUE) \o Event(c, FALSE))
            = Told(Event(c, TRUE)) \cup Told(Event(c, FALSE))
      /\ SaidDown(Event(c, TRUE) \o Event(c, FALSE))
            = SaidDown(Event(c, FALSE)) \cup (SaidDown(Event(c, TRUE)) \ Told(Event(c, FALSE)))
    BY <1>2, <1>3, BothFacts
<1> QED BY <1>1, <1>2, <1>3, <1>4

(* The codes of a button are codes.                                        *)
LEMMA ButtonCode ==
    ASSUME NEW b \in Button
    PROVE  /\ Codes(b) \subseteq Code
           /\ \A i \in 1 .. 4 : keycodes[b][i] = NoCode \/ keycodes[b][i] \in Code
BY DEF Codes, Code

(* What a button sends for its four codes when it goes down.               *)
LEMMA ButtonDown ==
    ASSUME NEW b \in Button
    PROVE  /\ Events(keycodes[b], TRUE) \in Seq(Ev)
           /\ Told(Events(keycodes[b], TRUE)) = WithCommand(Codes(b))
           /\ SaidDown(Events(keycodes[b], TRUE)) = WithCommand(Codes(b))
<1> DEFINE k(i) == keycodes[b][i]
           p(i) == IF k(i) = NoCode THEN <<>> ELSE Event(k(i), TRUE)
           w(i) == WithCommand({k(i)} \ {NoCode})
<1>1. ASSUME NEW i \in 1 .. 4
      PROVE  p(i) \in Seq(Ev) /\ Told(p(i)) = w(i) /\ SaidDown(p(i)) = w(i)
    <2>1. CASE k(i) = NoCode
        <3>1. p(i) = <<>> /\ w(i) = {}
            BY <2>1 DEF WithCommand
        <3> HIDE DEF p, w
        <3> QED BY <3>1, NoEvents
    <2>2. CASE k(i) # NoCode
        <3>1. p(i) = Event(k(i), TRUE) /\ w(i) = WithCommand({k(i)}) /\ k(i) \in Code
            BY <2>2, ButtonCode
        <3> HIDE DEF p, w, k
        <3> QED BY <3>1, DownFacts
    <2> QED BY <2>1, <2>2
<1>2. Events(keycodes[b], TRUE) = p(1) \o p(2) \o p(3) \o p(4)
    BY DEF Events
<1>3. w(1) \cup w(2) \cup w(3) \cup w(4) = WithCommand(Codes(b))
    <2>1. Codes(b) = {k(1), k(2), k(3), k(4)} \ {NoCode}
        BY DEF Codes
    <2> HIDE DEF k
    <2> QED BY <2>1 DEF WithCommand
<1> HIDE DEF p, w
<1>4. /\ p(1) \o p(2) \in Seq(Ev) /\ Told(p(1) \o p(2)) = w(1) \cup w(2)
      /\ SaidDown(p(1) \o p(2)) = w(1) \cup w(2)
    <2>1. /\ p(1) \in Seq(Ev) /\ Told(p(1)) = w(1) /\ SaidDown(p(1)) = w(1)
          /\ p(2) \in Seq(Ev) /\ Told(p(2)) = w(2) /\ SaidDown(p(2)) = w(2)
        BY <1>1
    <2>2. /\ p(1) \o p(2) \in Seq(Ev) /\ Told(p(1) \o p(2)) = Told(p(1)) \cup Told(p(2))
          /\ SaidDown(p(1) \o p(2)) = SaidDown(p(2)) \cup (SaidDown(p(1)) \ Told(p(2)))
        BY <2>1, BothFacts
    <2> QED BY <2>1, <2>2
<1> DEFINE q == p(1) \o p(2)
<1>5. /\ q \o p(3) \in Seq(Ev) /\ Told(q \o p(3)) = w(1) \cup w(2) \cup w(3)
      /\ SaidDown(q \o p(3)) = w(1) \cup w(2) \cup w(3)
    <2>1. /\ q \in Seq(Ev) /\ Told(q) = w(1) \cup w(2) /\ SaidDown(q) = w(1) \cup w(2)
          /\ p(3) \in Seq(Ev) /\ Told(p(3)) = w(3) /\ SaidDown(p(3)) = w(3)
        BY <1>1, <1>4
    <2> HIDE DEF q
    <2>2. /\ q \o p(3) \in Seq(Ev) /\ Told(q \o p(3)) = Told(q) \cup Told(p(3))
          /\ SaidDown(q \o p(3)) = SaidDown(p(3)) \cup (SaidDown(q) \ Told(p(3)))
        BY <2>1, BothFacts
    <2> QED BY <2>1, <2>2
<1> DEFINE r == q \o p(3)
<1>6. /\ r \o p(4) \in Seq(Ev) /\ Told(r \o p(4)) = w(1) \cup w(2) \cup w(3) \cup w(4)
      /\ SaidDown(r \o p(4)) = w(1) \cup w(2) \cup w(3) \cup w(4)
    <2>1. /\ r \in Seq(Ev) /\ Told(r) = w(1) \cup w(2) \cup w(3)
          /\ SaidDown(r) = w(1) \cup w(2) \cup w(3)
          /\ p(4) \in Seq(Ev) /\ Told(p(4)) = w(4) /\ SaidDown(p(4)) = w(4)
        BY <1>1, <1>5
    <2> HIDE DEF r
    <2>2. /\ r \o p(4) \in Seq(Ev) /\ Told(r \o p(4)) = Told(r) \cup Told(p(4))
          /\ SaidDown(r \o p(4)) = SaidDown(p(4)) \cup (SaidDown(r) \ Told(p(4)))
        BY <2>1, BothFacts
    <2> QED BY <2>1, <2>2
<1> QED BY <1>2, <1>3, <1>6

(* And when it comes up.                                                   *)
LEMMA ButtonUp ==
    ASSUME NEW b \in Button
    PROVE  /\ Events(keycodes[b], FALSE) \in Seq(Ev)
           /\ Told(Events(keycodes[b], FALSE)) = WithCommand(Codes(b))
           /\ SaidDown(Events(keycodes[b], FALSE)) = {}
<1> DEFINE k(i) == keycodes[b][i]
           p(i) == IF k(i) = NoCode THEN <<>> ELSE Event(k(i), FALSE)
           w(i) == WithCommand({k(i)} \ {NoCode})
<1>1. ASSUME NEW i \in 1 .. 4
      PROVE  p(i) \in Seq(Ev) /\ Told(p(i)) = w(i) /\ SaidDown(p(i)) = {}
    <2>1. CASE k(i) = NoCode
        <3>1. p(i) = <<>> /\ w(i) = {}
            BY <2>1 DEF WithCommand
        <3> HIDE DEF p, w
        <3> QED BY <3>1, NoEvents
    <2>2. CASE k(i) # NoCode
        <3>1. p(i) = Event(k(i), FALSE) /\ w(i) = WithCommand({k(i)}) /\ k(i) \in Code
            BY <2>2, ButtonCode
        <3> HIDE DEF p, w, k
        <3> QED BY <3>1, UpFacts
    <2> QED BY <2>1, <2>2
<1>2. Events(keycodes[b], FALSE) = p(1) \o p(2) \o p(3) \o p(4)
    BY DEF Events
<1>3. w(1) \cup w(2) \cup w(3) \cup w(4) = WithCommand(Codes(b))
    <2>1. Codes(b) = {k(1), k(2), k(3), k(4)} \ {NoCode}
        BY DEF Codes
    <2> HIDE DEF k
    <2> QED BY <2>1 DEF WithCommand
<1> HIDE DEF p, w
<1>4. /\ p(1) \o p(2) \in Seq(Ev) /\ Told(p(1) \o p(2)) = w(1) \cup w(2)
      /\ SaidDown(p(1) \o p(2)) = {}
    <2>1. /\ p(1) \in Seq(Ev) /\ Told(p(1)) = w(1) /\ SaidDown(p(1)) = {}
          /\ p(2) \in Seq(Ev) /\ Told(p(2)) = w(2) /\ SaidDown(p(2)) = {}
        BY <1>1
    <2>2. /\ p(1) \o p(2) \in Seq(Ev) /\ Told(p(1) \o p(2)) = Told(p(1)) \cup Told(p(2))
          /\ SaidDown(p(1) \o p(2)) = SaidDown(p(2)) \cup (SaidDown(p(1)) \ Told(p(2)))
        BY <2>1, BothFacts
    <2> QED BY <2>1, <2>2
<1> DEFINE q == p(1) \o p(2)
<1>5. /\ q \o p(3) \in Seq(Ev) /\ Told(q \o p(3)) = w(1) \cup w(2) \cup w(3)
      /\ SaidDown(q \o p(3)) = {}
    <2>1. /\ q \in Seq(Ev) /\ Told(q) = w(1) \cup w(2) /\ SaidDown(q) = {}
          /\ p(3) \in Seq(Ev) /\ Told(p(3)) = w(3) /\ SaidDown(p(3)) = {}
        BY <1>1, <1>4
    <2> HIDE DEF q
    <2>2. /\ q \o p(3) \in Seq(Ev) /\ Told(q \o p(3)) = Told(q) \cup Told(p(3))
          /\ SaidDown(q \o p(3)) = SaidDown(p(3)) \cup (SaidDown(q) \ Told(p(3)))
        BY <2>1, BothFacts
    <2> QED BY <2>1, <2>2
<1> DEFINE r == q \o p(3)
<1>6. /\ r \o p(4) \in Seq(Ev) /\ Told(r \o p(4)) = w(1) \cup w(2) \cup w(3) \cup w(4)
      /\ SaidDown(r \o p(4)) = {}
    <2>1. /\ r \in Seq(Ev) /\ Told(r) = w(1) \cup w(2) \cup w(3) /\ SaidDown(r) = {}
          /\ p(4) \in Seq(Ev) /\ Told(p(4)) = w(4) /\ SaidDown(p(4)) = {}
        BY <1>1, <1>5
    <2> HIDE DEF r
    <2>2. /\ r \o p(4) \in Seq(Ev) /\ Told(r \o p(4)) = Told(r) \cup Told(p(4))
          /\ SaidDown(r \o p(4)) = SaidDown(p(4)) \cup (SaidDown(r) \ Told(p(4)))
        BY <2>1, BothFacts
    <2> QED BY <2>1, <2>2
<1> QED BY <1>2, <1>3, <1>6

(* A stick sends all four keys, down for its direction.                    *)
LEMMA StickFacts ==
    ASSUME NEW d \in Direction \cup {Centre}
    PROVE  /\ StickEvents(d) \in Seq(Ev)
           /\ Told(StickEvents(d)) = StickKeys
           /\ SaidDown(StickEvents(d)) = StickDown(d)
<1> DEFINE e == StickEvents(d)
           k == <<"w", "a", "s", "d">>
<1>1. /\ DOMAIN e = 1 .. 4
      /\ \A i \in 1 .. 4 : e[i].code = k[i] /\ (e[i].down <=> k[i] \in StickDown(d))
    BY DEF StickEvents
<1>2. e \in Seq(Ev)
    <2>1. StickKeys \subseteq Code
        BY DEF Code, OtherCodes
    <2>2. \A i \in 1 .. 4 : k[i] \in Code
        BY <2>1 DEF StickKeys
    <2>3. \A i \in 1 .. 4 : [code |-> k[i], down |-> k[i] \in StickDown(d)] \in Ev
        BY <2>2 DEF Ev
    <2> QED BY <2>3 DEF StickEvents
<1> HIDE DEF e
<1>3. Told(e) = StickKeys
    BY <1>1 DEF Told, StickKeys
<1>4. \A i \in 1 .. 4 : IsLast(e, i)
    BY <1>1 DEF IsLast
<1>5. SaidDown(e) = StickDown(d)
    <2>1. StickDown(d) \subseteq {k[i] : i \in 1 .. 4}
        BY DEF StickDown, StickKeys
    <2> QED BY <1>1, <1>4, <2>1 DEF SaidDown
<1> QED BY <1>2, <1>3, <1>5 DEF e

-----------------------------------------------------------------------------
(* The queue. What a handler sends, or only loses, changes the keys the    *)
(* game holds and those that are lost in the codes the events are about.   *)
QueueTypes == room \in 0 .. Capacity /\ held \in SUBSET Code /\ lost \in SUBSET Code

Says(told, down, loses) ==
    /\ QueueTypes'
    /\ (lost \cup loses) \ told \subseteq lost' /\ lost' \subseteq lost \cup loses \cup told
    /\ \A c : c \notin told => (c \in held' <=> c \in held)
    /\ \A c \in told : c \in lost' \/ (c \in held' <=> c \in down)

(* Whatever does not fit into the queue is lost, and nothing else is.      *)
LEMMA SendFacts ==
    ASSUME NEW evs \in Seq(Ev), NEW loses \in SUBSET Code,
           QueueTypes, SendAndLose(evs, loses)
    PROVE  Says(Told(evs), SaidDown(evs), loses)
<1> DEFINE taken == IF Len(evs) <= room THEN Len(evs) ELSE room
           first == SubSeq(evs, 1, taken)
<1>1. /\ taken \in Nat /\ taken <= Len(evs) /\ room - taken \in 0 .. Capacity
      /\ DOMAIN evs = 1 .. Len(evs)
    BY DEF QueueTypes
<1>2. DOMAIN first \subseteq DOMAIN evs /\ \A i \in DOMAIN first : first[i] = evs[i]
    BY <1>1
<1>3. /\ room' = room - taken /\ held' = After(held, first)
      /\ lost' = ((lost \cup loses) \ Told(evs))
                   \cup {c \in Told(evs) : (c \in held') # (c \in SaidDown(evs))}
    BY DEF SendAndLose
<1> HIDE DEF taken, first
<1>4. Told(first) \subseteq Told(evs) /\ SaidDown(first) \subseteq Told(first)
    BY <1>2 DEF Told, SaidDown
<1>5. Told(evs) \subseteq Code
    <2>1. \A i \in DOMAIN evs : evs[i] \in Ev
        OBVIOUS
    <2> QED BY <2>1 DEF Told, Ev
<1>6. held' = (held \ Told(first)) \cup SaidDown(first)
    BY <1>3 DEF After
<1>7. \A c : c \notin Told(evs) => (c \in held' <=> c \in held)
    BY <1>4, <1>6
<1>8. held' \subseteq Code /\ lost' \subseteq Code
    BY <1>3, <1>4, <1>5, <1>6 DEF QueueTypes
<1>9. (lost \cup loses) \ Told(evs) \subseteq lost' /\ lost' \subseteq lost \cup loses \cup Told(evs)
    BY <1>3
<1>10. \A c \in Told(evs) : c \in lost' \/ (c \in held' <=> c \in SaidDown(evs))
    BY <1>3
<1> QED BY <1>1, <1>3, <1>7, <1>8, <1>9, <1>10 DEF QueueTypes, Says

-----------------------------------------------------------------------------
(* HeldIsWanted is not inductive: a finger that is still on a button does  *)
(* not say that the handler of its end will release the keys. A code is    *)
(* owed while the handler that ends the touch would send its release: the  *)
(* button is the one being swiped, the slot of the long press is still the *)
(* same, nobody has taken the gamepad or the keyboard away in between.     *)
ButtonOwes(b) ==
    \/ finger[b] = "down" /\ b \notin Toggle /\ (b \in Swipeable => swipingButton = b)
    \/ swipingButton = b /\ \E f \in Swipeable : finger[f] = "pan"
    \/ b \in Toggle /\ isToggleOn[b]

ButtonsOwe == UNION {Codes(b) : b \in {b \in Button : ButtonOwes(b)}}
ClickOwes == IF clicks > 0 THEN {MouseButton} ELSE {}
LongOwes ==
    IF long \in {"none", "nothing"} \/ (slideableHotbar /\ long # LongCode(currentHotbarSlot))
    THEN {} ELSE {long}
PadOwes == IF AMControllerPassthrough THEN {} ELSE PadHolds
SneakOwes == IF leftShiftHeld THEN {"shift"} ELSE {}
SticksOwe == UNION {StickHolds(s) : s \in {s \in Stick : Listens(s)}}
KeysOwe ==
    {k \in Hardware : typed[k] /\ ~(textFieldActive /\ k \in Swallowed)} \cup MouseHolds

Owed ==
    ButtonsOwe \cup ClickOwes \cup LongOwes \cup PadOwes \cup SneakOwes \cup SticksOwe
    \cup KeysOwe

HeldIsOwed == held \subseteq WithCommand(Owed \cup lost)

(* A step that only loses codes sends nothing.                             *)
LEMMA LoseFacts ==
    ASSUME NEW codes \in SUBSET Code, QueueTypes, Lose(codes)
    PROVE  Says({}, {}, codes)
BY DEF Lose, Says, QueueTypes

(* Nor does a step that leaves the queue alone.                            *)
LEMMA SilentFacts ==
    ASSUME QueueTypes, UNCHANGED queue
    PROVE  Says({}, {}, {})
BY DEF queue, Says, QueueTypes

(* What a step says keeps the held codes owed or lost, if the codes it     *)
(* leaves down are owed afterwards, and a code that is owed no longer is   *)
(* either said or lost.                                                    *)
LEMMA OwedStep ==
    ASSUME NEW told, NEW down, NEW loses, HeldIsOwed, Says(told, down, loses),
           "control" \in told => "super" \in told,
           down \subseteq WithCommand(Owed'), Owed \ told \subseteq Owed' \cup loses
    PROVE  HeldIsOwed'
<1> SUFFICES ASSUME NEW c \in held' PROVE c \in WithCommand(Owed' \cup lost')
    BY DEF HeldIsOwed, WithCommand
<1>1. CASE c \in told
    <2>1. c \in lost' \/ c \in down
        BY <1>1 DEF Says
    <2> QED BY <2>1 DEF WithCommand
<1>2. CASE c \notin told
    <2>1. c \in held
        BY <1>2 DEF Says
    <2>2. c \in WithCommand(Owed \cup lost)
        BY <2>1 DEF HeldIsOwed
    <2>3. \A x : x \in Owed \cup lost /\ x \notin told => x \in Owed' \cup lost'
        BY DEF Says
    <2> QED BY <1>2, <2>2, <2>3 DEF WithCommand
<1> QED BY <1>1, <1>2

(* A latched button keeps its keys while nobody says anything about them.  *)
LEMMA ToggleStep ==
    ASSUME NEW told, NEW down, NEW loses, ToggleShown, Says(told, down, loses),
           \A b \in Toggle : isToggleOn'[b] => isToggleOn[b],
           \A b \in Toggle \ Swipeable :
               Codes(b) \cap WithCommand(Elsewhere(b)) = {} => Codes(b) \cap told = {}
    PROVE  ToggleShown'
<1> SUFFICES ASSUME NEW b \in Toggle \ Swipeable, isToggleOn'[b],
                    Codes(b) \cap WithCommand(Elsewhere(b)) = {}, NEW c \in Codes(b)
             PROVE  c \in held' \cup lost'
    BY DEF ToggleShown
<1>1. c \in held \cup lost
    BY DEF ToggleShown
<1>2. c \notin told
    OBVIOUS
<1> QED BY <1>1, <1>2 DEF Says

(* The latch of the gamepad stays as it is while nobody says shift.        *)
LEMMA SneakStep ==
    ASSUME NEW told, NEW down, NEW loses, SneakShown, Says(told, down, loses),
           leftShiftHeld' = leftShiftHeld,
           told \subseteq WithCommand(OtherCodes \cup UNION {Codes(b) : b \in Button})
    PROVE  SneakShown'
<1> DEFINE others == OtherCodes \cup UNION {Codes(b) : b \in Button}
<1> SUFFICES ASSUME "shift" \notin lost', "shift" \notin others
             PROVE  leftShiftHeld' <=> "shift" \in held'
    BY DEF SneakShown
<1>1. "shift" \notin told
    BY DEF WithCommand
<1>2. "shift" \notin lost /\ ("shift" \in held' <=> "shift" \in held)
    BY <1>1 DEF Says
<1> QED BY <1>2 DEF SneakShown

(* Sources other than the buttons and the gamepad disturb neither.         *)
LEMMA OthersStep ==
    ASSUME NEW told, NEW down, NEW loses, ToggleShown, SneakShown, Says(told, down, loses),
           \A b \in Toggle : isToggleOn'[b] => isToggleOn[b],
           leftShiftHeld' = leftShiftHeld,
           told \subseteq WithCommand(OtherCodes)
    PROVE  ToggleShown' /\ SneakShown'
<1>1. told \subseteq WithCommand(OtherCodes \cup UNION {Codes(b) : b \in Button})
    BY DEF WithCommand
<1>2. \A b \in Toggle \ Swipeable : told \subseteq WithCommand(Elsewhere(b))
    BY DEF WithCommand, Elsewhere
<1>3. \A b \in Toggle \ Swipeable :
          Codes(b) \cap WithCommand(Elsewhere(b)) = {} => Codes(b) \cap told = {}
    BY <1>2
<1>4. SneakShown'
    BY <1>1, SneakStep
<1>5. ToggleShown'
    BY <1>3, ToggleStep
<1> QED BY <1>4, <1>5

-----------------------------------------------------------------------------
(* The invariant, and the types by source. Only a button that can be       *)
(* swiped has the recognizer of a swipe.                                   *)
PanInv == \A b \in Button : finger[b] = "pan" => b \in Swipeable

IInv == TypeOK /\ PanInv /\ HeldIsOwed /\ ToggleShown /\ SneakShown

PrefTypes == using \in Using /\ slideableHotbar \in BOOLEAN /\ enableMouseGestures \in BOOLEAN
ButtonTypes ==
    /\ finger \in [Button -> {"up", "down", "pan"}]
    /\ swipingButton \in Swipeable \cup {NoButton}
    /\ isToggleOn \in [Toggle -> BOOLEAN]
SurfaceTypes ==
    /\ touches \in 0 .. 2 /\ hotbarTouch \in BOOLEAN /\ shouldTriggerClick \in BOOLEAN
    /\ long \in {"none", "nothing", "left", "q"} /\ over \in BOOLEAN
    /\ currentHotbarSlot \in Slot \cup {NoSlot} /\ clicks \in 0 .. MaxClick
PadTypes ==
    /\ pressed \in [Pad -> BOOLEAN]
    /\ leftShiftHeld \in BOOLEAN /\ AMControllerPassthrough \in BOOLEAN
StickTypes ==
    /\ push \in [Stick -> Direction \cup {Centre}]
    /\ lastDirection \in [Stick -> Direction \cup {Centre, Never}]
KeyTypes ==
    /\ typed \in [Hardware -> BOOLEAN] /\ textFieldActive \in BOOLEAN
    /\ mouse \in [MouseButtons -> BOOLEAN]

(* TypeOK is these, together.                                              *)
LEMMA Types ==
    TypeOK <=> /\ PrefTypes /\ isGrabbing \in BOOLEAN /\ ButtonTypes /\ SurfaceTypes
               /\ PadTypes /\ StickTypes /\ KeyTypes /\ QueueTypes
BY DEF TypeOK, PrefTypes, ButtonTypes, SurfaceTypes, PadTypes, StickTypes, KeyTypes, QueueTypes

(* Types survive where nothing changes.                                    *)
LEMMA TypesSame ==
    /\ PrefTypes /\ UNCHANGED preferences => PrefTypes'
    /\ ButtonTypes /\ UNCHANGED buttons => ButtonTypes'
    /\ SurfaceTypes /\ UNCHANGED surface => SurfaceTypes'
    /\ PadTypes /\ UNCHANGED pad => PadTypes'
    /\ StickTypes /\ UNCHANGED sticks => StickTypes'
    /\ KeyTypes /\ UNCHANGED devices => KeyTypes'
<1>1. PrefTypes /\ UNCHANGED preferences => PrefTypes'
    BY DEF PrefTypes, preferences
<1>2. ButtonTypes /\ UNCHANGED buttons => ButtonTypes'
    BY DEF ButtonTypes, buttons
<1>3. SurfaceTypes /\ UNCHANGED surface => SurfaceTypes'
    BY DEF SurfaceTypes, surface, gesture
<1>4. PadTypes /\ UNCHANGED pad => PadTypes'
    BY DEF PadTypes, pad
<1>5. StickTypes /\ UNCHANGED sticks => StickTypes'
    BY DEF StickTypes, sticks
<1>6. KeyTypes /\ UNCHANGED devices => KeyTypes'
    BY DEF KeyTypes, devices
<1> QED BY <1>1, <1>2, <1>3, <1>4, <1>5, <1>6

(* And what a source owes changes only with its state.                     *)
LEMMA OwesSame ==
    /\ UNCHANGED buttons => ButtonsOwe' = ButtonsOwe
    /\ UNCHANGED <<clicks, isGrabbing>> => ClickOwes' = ClickOwes
    /\ UNCHANGED <<preferences, gesture>> => LongOwes' = LongOwes
    /\ UNCHANGED <<isGrabbing, pad>> => PadOwes' = PadOwes
    /\ UNCHANGED leftShiftHeld => SneakOwes' = SneakOwes
    /\ UNCHANGED <<isGrabbing, AMControllerPassthrough, sticks>> => SticksOwe' = SticksOwe
    /\ UNCHANGED devices => KeysOwe' = KeysOwe
<1>1. UNCHANGED buttons => ButtonsOwe' = ButtonsOwe
    BY DEF ButtonsOwe, ButtonOwes, buttons
<1>2. UNCHANGED <<clicks, isGrabbing>> => ClickOwes' = ClickOwes
    BY DEF ClickOwes, MouseButton
<1>3. UNCHANGED <<preferences, gesture>> => LongOwes' = LongOwes
    BY DEF LongOwes, LongCode, preferences, gesture
<1>4. UNCHANGED <<isGrabbing, pad>> => PadOwes' = PadOwes
    BY DEF PadOwes, PadHolds, PadCode, pad
<1>5. UNCHANGED leftShiftHeld => SneakOwes' = SneakOwes
    BY DEF SneakOwes
<1>6. UNCHANGED <<isGrabbing, AMControllerPassthrough, sticks>> => SticksOwe' = SticksOwe
    BY DEF SticksOwe, StickHolds, Listens, sticks
<1>7. UNCHANGED devices => KeysOwe' = KeysOwe
    BY DEF KeysOwe, MouseHolds, devices
<1> QED BY <1>1, <1>2, <1>3, <1>4, <1>5, <1>6, <1>7

(* Codes by their names.                                                   *)
LEMMA CodeNames ==
    /\ {"super", "left", "right", "q", "f", "escape"} \subseteq Code
    /\ OtherCodes \subseteq Code /\ PadCodes \subseteq Code
    /\ StickKeys \subseteq OtherCodes /\ Slot \subseteq OtherCodes
    /\ Hardware \subseteq OtherCodes /\ MouseButtons \subseteq OtherCodes
    /\ {"left", "right", "q", "f", "escape"} \subseteq OtherCodes
BY DEF Code, OtherCodes

-----------------------------------------------------------------------------
(* Control buttons. What the handlers of buttons say keeps the invariant,  *)
(* but for the types of the buttons and their latches, if a button that no *)
(* longer owes its codes says or loses them.                               *)
LEMMA ButtonsStep ==
    ASSUME NEW told, NEW down, NEW loses, IInv, Says(told, down, loses),
           UNCHANGED <<preferences, isGrabbing, surface, pad, sticks, devices>>,
           "control" \in told => "super" \in told,
           told \subseteq WithCommand(UNION {Codes(x) : x \in Button}),
           down \subseteq WithCommand(ButtonsOwe'),
           \A x \in Button : ButtonOwes(x) => ButtonOwes(x)' \/ Codes(x) \subseteq told \cup loses
    PROVE  HeldIsOwed' /\ SneakShown' /\ (ButtonTypes' => TypeOK')
<1>1. /\ ClickOwes' = ClickOwes /\ LongOwes' = LongOwes /\ PadOwes' = PadOwes
      /\ SneakOwes' = SneakOwes /\ SticksOwe' = SticksOwe /\ KeysOwe' = KeysOwe
    BY OwesSame DEF surface, pad
<1>2. ButtonsOwe \ told \subseteq ButtonsOwe' \cup loses
    BY DEF ButtonsOwe
<1>3. down \subseteq WithCommand(Owed')
    BY DEF Owed, WithCommand
<1>4. Owed \ told \subseteq Owed' \cup loses
    BY <1>1, <1>2 DEF Owed
<1>5. HeldIsOwed /\ SneakShown /\ TypeOK
    BY DEF IInv
<1>6. HeldIsOwed'
    BY <1>3, <1>4, <1>5, OwedStep
<1>7. told \subseteq WithCommand(OtherCodes \cup UNION {Codes(b) : b \in Button})
    BY DEF WithCommand
<1>8. leftShiftHeld' = leftShiftHeld
    BY DEF pad
<1>9. SneakShown'
    BY <1>5, <1>7, <1>8, SneakStep
<1>10. PrefTypes' /\ SurfaceTypes' /\ PadTypes' /\ StickTypes' /\ KeyTypes' /\ QueueTypes'
    BY <1>5, Types, TypesSame DEF Says
<1>11. (isGrabbing \in BOOLEAN)'
    BY <1>5, Types
<1>12. ButtonTypes' => TypeOK'
    BY <1>10, <1>11, Types, PTL
<1> QED BY <1>6, <1>9, <1>12

(* A latched button holds its keys after a step, if nothing was said of    *)
(* it, or the last that was said is that they are down.                    *)
LEMMA LatchStep ==
    ASSUME NEW told, NEW down, NEW loses, ToggleShown, Says(told, down, loses),
           \A b \in Toggle \ Swipeable :
               Codes(b) \cap WithCommand(Elsewhere(b)) = {} /\ isToggleOn'[b] =>
                   \/ isToggleOn[b] /\ Codes(b) \cap told = {}
                   \/ Codes(b) \subseteq told \cap down
    PROVE  ToggleShown'
<1> SUFFICES ASSUME NEW b \in Toggle \ Swipeable, isToggleOn'[b],
                    Codes(b) \cap WithCommand(Elsewhere(b)) = {}, NEW c \in Codes(b)
             PROVE  c \in held' \cup lost'
    BY DEF ToggleShown
<1>1. CASE isToggleOn[b] /\ Codes(b) \cap told = {}
    <2>1. c \in held \cup lost
        BY <1>1 DEF ToggleShown
    <2> QED BY <1>1, <2>1 DEF Says
<1>2. CASE Codes(b) \subseteq told \cap down
    BY <1>2 DEF Says
<1> QED BY <1>1, <1>2

(* What a button says is about codes that are elsewhere for all others.    *)
LEMMA ElsewhereFacts ==
    ASSUME NEW x \in Button, NEW b \in Button \ {x}
    PROVE  WithCommand(Codes(x)) \subseteq WithCommand(Elsewhere(b))
BY DEF Elsewhere, WithCommand

(* What is sent for a button: its codes, and their Commands.               *)
LEMMA SentDown ==
    ASSUME NEW b \in Button
    PROVE  /\ executebtn(b, TRUE) \in Seq(Ev)
           /\ Told(executebtn(b, TRUE)) = WithCommand(Codes(b))
           /\ SaidDown(executebtn(b, TRUE)) = WithCommand(Codes(b))
<1>1. executebtn(b, TRUE) = Events(keycodes[b], TRUE)
    BY DEF executebtn
<1> QED BY <1>1, ButtonDown

(* The same for its release.                                               *)
LEMMA SentUp ==
    ASSUME NEW b \in Button
    PROVE  /\ executebtn(b, FALSE) \in Seq(Ev)
           /\ Told(executebtn(b, FALSE)) = WithCommand(Codes(b))
           /\ SaidDown(executebtn(b, FALSE)) = {}
<1>1. executebtn(b, FALSE) = Events(keycodes[b], FALSE)
    BY DEF executebtn
<1> QED BY <1>1, ButtonUp

(* A finger goes down on a button.                                         *)
LEMMA DownStep ==
    ASSUME IInv, NEW b \in Button, executebtn_down(b)
    PROVE  IInv'
<1> DEFINE loses == IF b \in Swipeable /\ swipingButton \notin {b, NoButton}
                    THEN Codes(swipingButton) ELSE {}
           told == IF b \in Toggle THEN {} ELSE WithCommand(Codes(b))
<1>1. /\ finger[b] = "up" /\ finger' = [finger EXCEPT ![b] = "down"]
      /\ swipingButton' = IF b \in Swipeable THEN b ELSE swipingButton
      /\ UNCHANGED <<preferences, isGrabbing, isToggleOn, surface, pad, sticks, devices>>
    BY DEF executebtn_down
<1>2. ButtonTypes /\ QueueTypes /\ ToggleShown
    BY Types DEF IInv
<1>3. loses \in SUBSET Code
    BY <1>2, ButtonCode DEF ButtonTypes
<1>4. Says(told, told, loses)
    <2>1. CASE b \in Toggle
        <3>1. SendAndLose(<<>>, loses)
            BY <2>1 DEF executebtn_down
        <3> HIDE DEF loses
        <3>2. Says({}, {}, loses)
            BY <1>2, <1>3, <3>1, NoEvents, SendFacts
        <3> QED BY <2>1, <3>2
    <2>2. CASE b \notin Toggle
        <3>1. SendAndLose(executebtn(b, TRUE), loses)
            BY <2>2 DEF executebtn_down
        <3> HIDE DEF loses
        <3>2. /\ executebtn(b, TRUE) \in Seq(Ev)
              /\ Told(executebtn(b, TRUE)) = told /\ SaidDown(executebtn(b, TRUE)) = told
            BY <2>2, SentDown
        <3>3. Says(Told(executebtn(b, TRUE)), SaidDown(executebtn(b, TRUE)), loses)
            BY <1>2, <1>3, <3>1, <3>2, SendFacts
        <3> QED BY <3>2, <3>3
    <2> QED BY <2>1, <2>2
<1>5. ButtonTypes' /\ PanInv'
    BY <1>1, <1>2 DEF ButtonTypes, PanInv, IInv
<1>6. \A x \in Button : ButtonOwes(x) => ButtonOwes(x)' \/ Codes(x) \subseteq told \cup loses
    <2> SUFFICES ASSUME NEW x \in Button, ButtonOwes(x), ~(Codes(x) \subseteq loses)
                 PROVE  ButtonOwes(x)'
        OBVIOUS
    <2>1. CASE finger[x] = "down" /\ x \notin Toggle /\ (x \in Swipeable => swipingButton = x)
        BY <1>1, <1>2, <2>1 DEF ButtonOwes, ButtonTypes
    <2>2. ASSUME NEW f \in Swipeable, finger[f] = "pan", swipingButton = x PROVE ButtonOwes(x)'
        <3>1. finger'[f] = "pan"
            BY <1>1, <1>2, <2>2 DEF ButtonTypes
        <3>2. swipingButton' = x
            BY <1>1, <2>2
        <3> QED BY <3>1, <3>2 DEF ButtonOwes
    <2>3. CASE x \in Toggle /\ isToggleOn[x]
        BY <1>1, <2>3 DEF ButtonOwes
    <2> QED BY <2>1, <2>2, <2>3 DEF ButtonOwes
<1>7. told \subseteq WithCommand(ButtonsOwe')
    <2> SUFFICES ASSUME b \notin Toggle PROVE Codes(b) \subseteq ButtonsOwe'
        BY DEF WithCommand
    <2>1. ButtonOwes(b)'
        BY <1>1, <1>2 DEF ButtonOwes, ButtonTypes
    <2> QED BY <2>1 DEF ButtonsOwe
<1>8. told \subseteq WithCommand(UNION {Codes(x) : x \in Button})
    BY DEF WithCommand
<1>9. "control" \in told => "super" \in told
    BY DEF WithCommand
<1>10. \A x \in Toggle \ Swipeable :
           Codes(x) \cap WithCommand(Elsewhere(x)) = {} => Codes(x) \cap told = {}
    BY ElsewhereFacts
<1> HIDE DEF told, loses
<1>11. HeldIsOwed' /\ SneakShown' /\ (ButtonTypes' => TypeOK')
    BY <1>1, <1>4, <1>6, <1>7, <1>8, <1>9, ButtonsStep
<1>12. ToggleShown'
    BY <1>1, <1>2, <1>4, <1>10, ToggleStep
<1> QED BY <1>5, <1>11, <1>12 DEF IInv

(* A step of the buttons that sends nothing.                               *)
LEMMA QuietStep ==
    ASSUME NEW loses, IInv, Says({}, {}, loses),
           UNCHANGED <<preferences, isGrabbing, isToggleOn, surface, pad, sticks, devices>>,
           ButtonTypes', PanInv',
           \A x \in Button : ButtonOwes(x) => ButtonOwes(x)' \/ Codes(x) \subseteq loses
    PROVE  IInv'
<1>1. HeldIsOwed' /\ SneakShown' /\ (ButtonTypes' => TypeOK')
    BY ButtonsStep DEF WithCommand
<1>2. ToggleShown'
    BY ToggleStep DEF IInv
<1> QED BY <1>1, <1>2 DEF IInv

(* A touch on a button is cancelled.                                       *)
LEMMA CancelStep ==
    ASSUME IInv, NEW b \in Button, CancelButton(b)
    PROVE  IInv'
<1> DEFINE loses == IF b \in Toggle THEN {} ELSE Codes(b)
<1>1. /\ finger[b] = "down" /\ finger' = [finger EXCEPT ![b] = "up"]
      /\ Lose(loses)
      /\ UNCHANGED <<preferences, isGrabbing, swipingButton, isToggleOn, surface, pad, sticks,
                     devices>>
    BY DEF CancelButton
<1>2. ButtonTypes /\ QueueTypes
    BY Types DEF IInv
<1>3. loses \in SUBSET Code
    BY ButtonCode
<1>4. ButtonTypes' /\ PanInv'
    BY <1>1, <1>2 DEF ButtonTypes, PanInv, IInv
<1>5. \A x \in Button : ButtonOwes(x) => ButtonOwes(x)' \/ Codes(x) \subseteq loses
    <2> SUFFICES ASSUME NEW x \in Button, ButtonOwes(x), x # b \/ b \in Toggle
                 PROVE  ButtonOwes(x)'
        OBVIOUS
    <2>1. CASE finger[x] = "down" /\ x \notin Toggle /\ (x \in Swipeable => swipingButton = x)
        BY <1>1, <1>2, <2>1 DEF ButtonOwes, ButtonTypes
    <2>2. ASSUME NEW f \in Swipeable, finger[f] = "pan", swipingButton = x PROVE ButtonOwes(x)'
        <3>1. finger'[f] = "pan"
            BY <1>1, <1>2, <2>2 DEF ButtonTypes
        <3> QED BY <1>1, <2>2, <3>1 DEF ButtonOwes
    <2>3. CASE x \in Toggle /\ isToggleOn[x]
        BY <1>1, <2>3 DEF ButtonOwes
    <2> QED BY <2>1, <2>2, <2>3 DEF ButtonOwes
<1> HIDE DEF loses
<1>6. Says({}, {}, loses)
    BY <1>1, <1>2, <1>3, LoseFacts
<1> QED BY <1>1, <1>4, <1>5, <1>6, QuietStep

(* A touch becomes a swipe: the button being swiped is owed from now on.   *)
LEMMA PanStep ==
    ASSUME IInv, NEW b \in Button, Pan(b)
    PROVE  IInv'
<1>1. /\ b \in Swipeable /\ finger[b] = "down" /\ finger' = [finger EXCEPT ![b] = "pan"]
      /\ UNCHANGED <<preferences, isGrabbing, swipingButton, isToggleOn, surface, pad, sticks,
                     devices, queue>>
    BY DEF Pan
<1>2. ButtonTypes /\ QueueTypes
    BY Types DEF IInv
<1>3. ButtonTypes' /\ PanInv'
    BY <1>1, <1>2 DEF ButtonTypes, PanInv, IInv
<1>4. \A x \in Button : ButtonOwes(x) => ButtonOwes(x)' \/ Codes(x) \subseteq {}
    <2> SUFFICES ASSUME NEW x \in Button, ButtonOwes(x) PROVE ButtonOwes(x)'
        OBVIOUS
    <2>1. CASE /\ finger[x] = "down" /\ x \notin Toggle /\ (x \in Swipeable => swipingButton = x)
               /\ x # b
        BY <1>1, <1>2, <2>1 DEF ButtonOwes, ButtonTypes
    <2>2. CASE swipingButton = x
        <3>1. finger'[b] = "pan"
            BY <1>1, <1>2 DEF ButtonTypes
        <3> QED BY <1>1, <2>2, <3>1 DEF ButtonOwes
    <2>3. CASE x \in Toggle /\ isToggleOn[x]
        BY <1>1, <2>3 DEF ButtonOwes
    <2> QED BY <1>1, <2>1, <2>2, <2>3 DEF ButtonOwes
<1>5. Says({}, {}, {})
    BY <1>1, <1>2, SilentFacts
<1> QED BY <1>1, <1>3, <1>4, <1>5, QuietStep

(* What executebtn_up sends: the release, unless a latching button was     *)
(* left outside or is not the one being swiped, and the new state of the   *)
(* latch.                                                                  *)
Lets(b, isOutside) == b = swipingButton \/ b \notin Toggle \/ Latches(b, isOutside)
UpTold(b, isOutside) == IF Lets(b, isOutside) THEN WithCommand(Codes(b)) ELSE {}
UpDown(b, isOutside) ==
    IF Latches(b, isOutside) /\ ~isToggleOn[b] THEN WithCommand(Codes(b)) ELSE {}

(* These are what its events say, and what they leave down.                *)
LEMMA UpEventsFacts ==
    ASSUME ButtonTypes, NEW b \in Button, NEW isOutside \in BOOLEAN
    PROVE  /\ UpEvents(b, isOutside) \in Seq(Ev)
           /\ Told(UpEvents(b, isOutside)) = UpTold(b, isOutside)
           /\ SaidDown(UpEvents(b, isOutside)) = UpDown(b, isOutside)
<1> DEFINE lets == b = swipingButton \/ b \notin Toggle
           e == IF lets THEN executebtn(b, FALSE) ELSE <<>>
           f == IF Latches(b, isOutside) THEN executebtn(b, ~isToggleOn[b]) ELSE <<>>
           w == WithCommand(Codes(b))
<1>1. UpEvents(b, isOutside) = e \o f
    BY DEF UpEvents
<1>2. e \in Seq(Ev) /\ Told(e) = (IF lets THEN w ELSE {}) /\ SaidDown(e) = {}
    <2>1. CASE lets
        <3>1. e = executebtn(b, FALSE)
            BY <2>1
        <3> HIDE DEF e
        <3> QED BY <2>1, <3>1, SentUp
    <2>2. CASE ~lets
        <3>1. e = <<>>
            BY <2>2
        <3> HIDE DEF e
        <3> QED BY <2>2, <3>1, NoEvents
    <2> QED BY <2>1, <2>2
<1>3. /\ f \in Seq(Ev)
      /\ Told(f) = (IF Latches(b, isOutside) THEN w ELSE {})
      /\ SaidDown(f) = UpDown(b, isOutside)
    <2>1. CASE ~Latches(b, isOutside)
        <3>1. f = <<>> /\ UpDown(b, isOutside) = {}
            BY <2>1 DEF UpDown
        <3> HIDE DEF f
        <3> QED BY <2>1, <3>1, NoEvents
    <2>2. CASE Latches(b, isOutside) /\ isToggleOn[b] = TRUE
        <3>1. ~isToggleOn[b] = FALSE
            BY <2>2
        <3>2. f = executebtn(b, FALSE) /\ UpDown(b, isOutside) = {}
            BY <2>2, <3>1 DEF UpDown
        <3> HIDE DEF f
        <3> QED BY <2>2, <3>2, SentUp
    <2>3. CASE Latches(b, isOutside) /\ isToggleOn[b] = FALSE
        <3>1. ~isToggleOn[b] = TRUE
            BY <2>3
        <3>2. f = executebtn(b, TRUE) /\ UpDown(b, isOutside) = w
            BY <2>3, <3>1 DEF UpDown
        <3> HIDE DEF f
        <3> QED BY <2>3, <3>2, SentDown
    <2>4. Latches(b, isOutside) => isToggleOn[b] \in BOOLEAN
        BY DEF Latches, ButtonTypes
    <2> QED BY <2>1, <2>2, <2>3, <2>4
<1> HIDE DEF e, f
<1>4. /\ e \o f \in Seq(Ev) /\ Told(e \o f) = Told(e) \cup Told(f)
      /\ SaidDown(e \o f) = SaidDown(f) \cup (SaidDown(e) \ Told(f))
    BY <1>2, <1>3, BothFacts
<1>5. Told(e) \cup Told(f) = UpTold(b, isOutside)
    BY <1>2, <1>3 DEF UpTold, Lets
<1> QED BY <1>1, <1>2, <1>3, <1>4, <1>5

(* A finger goes up from a button.                                         *)
LEMMA UpStep ==
    ASSUME IInv, NEW b \in Button, NEW isOutside \in BOOLEAN, executebtn_up(b, isOutside)
    PROVE  IInv'
<1> DEFINE told == UpTold(b, isOutside)
           down == UpDown(b, isOutside)
<1>1. /\ finger[b] = "down" /\ finger' = [finger EXCEPT ![b] = "up"]
      /\ swipingButton' = IF b = swipingButton THEN NoButton ELSE swipingButton
      /\ isToggleOn' = Latched(b, isOutside)
      /\ SendAndLose(UpEvents(b, isOutside), {})
      /\ UNCHANGED <<preferences, isGrabbing, surface, pad, sticks, devices>>
    BY DEF executebtn_up, Send
<1>2. ButtonTypes /\ QueueTypes /\ ToggleShown /\ PanInv
    BY Types DEF IInv
<1>3. Says(told, down, {})
    <2>1. /\ UpEvents(b, isOutside) \in Seq(Ev)
          /\ Told(UpEvents(b, isOutside)) = told
          /\ SaidDown(UpEvents(b, isOutside)) = down
        BY <1>2, UpEventsFacts
    <2> HIDE DEF told, down
    <2>2. Says(Told(UpEvents(b, isOutside)), SaidDown(UpEvents(b, isOutside)), {})
        BY <1>1, <1>2, <2>1, SendFacts
    <2> QED BY <2>1, <2>2
<1>4. \A x \in Toggle : isToggleOn'[x] =
          IF x = b /\ Latches(b, isOutside) THEN ~isToggleOn[x] ELSE isToggleOn[x]
    BY <1>1 DEF Latched
<1>5. ButtonTypes'
    <2>1. isToggleOn' \in [Toggle -> BOOLEAN]
        BY <1>1, <1>2 DEF Latched, ButtonTypes
    <2> QED BY <1>1, <1>2, <2>1 DEF ButtonTypes
<1>6. PanInv'
    BY <1>1, <1>2 DEF ButtonTypes, PanInv
<1>7. \A x \in Button : ButtonOwes(x) => ButtonOwes(x)' \/ Codes(x) \subseteq told
    <2> SUFFICES ASSUME NEW x \in Button, ButtonOwes(x), ~(Codes(x) \subseteq told)
                 PROVE  ButtonOwes(x)'
        OBVIOUS
    <2>1. x = b => ~Lets(b, isOutside)
        BY DEF UpTold, WithCommand
    <2>2. CASE finger[x] = "down" /\ x \notin Toggle /\ (x \in Swipeable => swipingButton = x)
        <3>1. x # b
            BY <2>1, <2>2 DEF Lets
        <3> QED BY <1>1, <1>2, <2>2, <3>1 DEF ButtonOwes, ButtonTypes
    <2>3. ASSUME NEW f \in Swipeable, finger[f] = "pan", swipingButton = x PROVE ButtonOwes(x)'
        <3>1. x # b /\ f # b
            BY <1>1, <2>1, <2>3 DEF Lets
        <3>2. finger'[f] = "pan" /\ swipingButton' = x
            BY <1>1, <1>2, <2>3, <3>1 DEF ButtonTypes
        <3> QED BY <3>2 DEF ButtonOwes
    <2>4. CASE x \in Toggle /\ isToggleOn[x]
        <3>1. ~(x = b /\ Latches(b, isOutside))
            BY <2>1 DEF Lets
        <3>2. isToggleOn'[x]
            BY <1>4, <2>4, <3>1
        <3> QED BY <2>4, <3>2 DEF ButtonOwes
    <2> QED BY <2>2, <2>3, <2>4 DEF ButtonOwes
<1>8. down \subseteq WithCommand(ButtonsOwe')
    <2> SUFFICES ASSUME Latches(b, isOutside), ~isToggleOn[b] PROVE Codes(b) \subseteq ButtonsOwe'
        BY DEF UpDown, WithCommand
    <2>1. b \in Toggle /\ isToggleOn'[b]
        BY <1>4 DEF Latches
    <2>2. ButtonOwes(b)'
        BY <2>1 DEF ButtonOwes
    <2> QED BY <2>2 DEF ButtonsOwe
<1>9. told \subseteq WithCommand(Codes(b)) /\ ("control" \in told => "super" \in told)
    BY DEF UpTold, WithCommand
<1>10. told \subseteq WithCommand(UNION {Codes(x) : x \in Button})
    BY <1>9 DEF WithCommand
<1>11. \A x \in Toggle \ Swipeable :
           Codes(x) \cap WithCommand(Elsewhere(x)) = {} /\ isToggleOn'[x] =>
               \/ isToggleOn[x] /\ Codes(x) \cap told = {}
               \/ Codes(x) \subseteq told \cap down
    <2> SUFFICES ASSUME NEW x \in Toggle \ Swipeable,
                        Codes(x) \cap WithCommand(Elsewhere(x)) = {}, isToggleOn'[x]
                 PROVE  \/ isToggleOn[x] /\ Codes(x) \cap told = {}
                        \/ Codes(x) \subseteq told \cap down
        OBVIOUS
    <2>1. CASE x # b
        <3>1. Codes(x) \cap told = {}
            BY <1>9, <2>1, ElsewhereFacts
        <3> QED BY <1>4, <2>1, <3>1
    <2>2. CASE x = b /\ Latches(b, isOutside)
        <3>1. ~isToggleOn[b]
            BY <1>4, <2>2
        <3>2. Codes(b) \subseteq told \cap down
            BY <2>2, <3>1 DEF UpTold, UpDown, Lets, WithCommand
        <3> QED BY <2>2, <3>2
    <2>3. CASE x = b /\ ~Latches(b, isOutside)
        <3>1. b # swipingButton
            BY <1>2, <2>3 DEF ButtonTypes
        <3>2. told = {}
            BY <2>3, <3>1 DEF UpTold, Lets
        <3> QED BY <1>4, <2>3, <3>2
    <2> QED BY <2>1, <2>2, <2>3
<1> HIDE DEF told, down
<1>12. HeldIsOwed' /\ SneakShown' /\ (ButtonTypes' => TypeOK')
    BY <1>1, <1>3, <1>7, <1>8, <1>9, <1>10, ButtonsStep
<1>13. ToggleShown'
    BY <1>2, <1>3, <1>11, LatchStep
<1> QED BY <1>5, <1>6, <1>12, <1>13 DEF IInv

(* The button a swipe leaves, if there is one.                             *)
SwipeTold == IF swipingButton = NoButton THEN {} ELSE WithCommand(Codes(swipingButton))
SwipeDown ==
    IF swipingButton \in Toggle /\ ~isToggleOn[swipingButton]
    THEN WithCommand(Codes(swipingButton)) ELSE {}

(* It is released, and latches.                                            *)
LEMMA LeftFacts ==
    ASSUME ButtonTypes
    PROVE  /\ UpEvents(swipingButton, FALSE) \in Seq(Ev)
           /\ Told(UpEvents(swipingButton, FALSE)) = SwipeTold
           /\ SaidDown(UpEvents(swipingButton, FALSE)) = SwipeDown
<1>1. CASE swipingButton = NoButton
    <2>1. UpEvents(swipingButton, FALSE) = <<>> \o <<>>
        BY <1>1 DEF UpEvents, Latches, executebtn
    <2>2. /\ <<>> \o <<>> \in Seq(Ev) /\ Told(<<>> \o <<>>) = Told(<<>>) \cup Told(<<>>)
          /\ SaidDown(<<>> \o <<>>) = SaidDown(<<>>) \cup (SaidDown(<<>>) \ Told(<<>>))
        BY NoEvents, BothFacts
    <2>3. SwipeTold = {} /\ SwipeDown = {}
        BY <1>1 DEF SwipeTold, SwipeDown
    <2> QED BY <2>1, <2>2, <2>3, NoEvents
<1>2. CASE swipingButton # NoButton
    <2>1. swipingButton \in Button
        BY <1>2 DEF ButtonTypes
    <2>2. /\ UpEvents(swipingButton, FALSE) \in Seq(Ev)
          /\ Told(UpEvents(swipingButton, FALSE)) = UpTold(swipingButton, FALSE)
          /\ SaidDown(UpEvents(swipingButton, FALSE)) = UpDown(swipingButton, FALSE)
        BY <2>1, UpEventsFacts
    <2>3. UpTold(swipingButton, FALSE) = SwipeTold
        BY <1>2 DEF UpTold, Lets, SwipeTold
    <2>4. UpDown(swipingButton, FALSE) = SwipeDown
        BY <1>2 DEF UpDown, Latches, SwipeDown
    <2> QED BY <2>2, <2>3, <2>4
<1> QED BY <1>1, <1>2

(* A step of a swipe releases the button it leaves, and presses those of   *)
(* "more" besides.                                                         *)
Swipes(told, down, more) ==
    /\ told = SwipeTold \cup WithCommand(UNION {Codes(x) : x \in more})
    /\ down \subseteq SwipeDown \cup WithCommand(UNION {Codes(x) : x \in more})

(* That keeps the invariant, if what it presses is owed afterwards.        *)
LEMMA SwipeStep ==
    ASSUME IInv, NEW told, NEW down, NEW more \in SUBSET Button,
           \A x \in more : x \in Swipeable /\ ButtonOwes(x)',
           Swipes(told, down, more),
           Says(told, down, {}),
           isToggleOn' = Latched(swipingButton, FALSE),
           ButtonTypes', PanInv',
           \A x \in Button : finger[x] = "down" => finger'[x] = "down",
           UNCHANGED <<preferences, isGrabbing, surface, pad, sticks, devices>>
    PROVE  IInv'
<1>1. ButtonTypes /\ ToggleShown
    BY Types DEF IInv
<1>2. \A x \in Toggle : isToggleOn'[x] =
          IF x = swipingButton THEN ~isToggleOn[x] ELSE isToggleOn[x]
    BY DEF Latched, Latches
<1>3. \A x \in Button : ButtonOwes(x) => ButtonOwes(x)' \/ Codes(x) \subseteq told
    <2> SUFFICES ASSUME NEW x \in Button, ButtonOwes(x), ~(Codes(x) \subseteq told)
                 PROVE  ButtonOwes(x)'
        OBVIOUS
    <2>1. x # swipingButton
        BY DEF Swipes, SwipeTold, WithCommand
    <2>2. CASE finger[x] = "down" /\ x \notin Toggle /\ x \notin Swipeable
        BY <2>2 DEF ButtonOwes
    <2>3. CASE x \in Toggle /\ isToggleOn[x]
        <3>1. isToggleOn'[x]
            BY <1>2, <2>1, <2>3
        <3> QED BY <2>3, <3>1 DEF ButtonOwes
    <2> QED BY <2>1, <2>2, <2>3 DEF ButtonOwes
<1>4. down \subseteq WithCommand(ButtonsOwe')
    <2>1. SwipeDown \subseteq WithCommand(ButtonsOwe')
        <3> SUFFICES ASSUME swipingButton \in Toggle, ~isToggleOn[swipingButton]
                     PROVE  WithCommand(Codes(swipingButton)) \subseteq WithCommand(ButtonsOwe')
            BY DEF SwipeDown
        <3> PICK x \in Toggle : x = swipingButton
            OBVIOUS
        <3>1. isToggleOn'[x]
            BY <1>2
        <3>2. ButtonOwes(x)'
            BY <3>1 DEF ButtonOwes
        <3>3. Codes(x) \subseteq ButtonsOwe'
            BY <3>2 DEF ButtonsOwe
        <3> QED BY <3>3 DEF WithCommand
    <2>2. UNION {Codes(x) : x \in more} \subseteq ButtonsOwe'
        BY DEF ButtonsOwe
    <2> QED BY <2>1, <2>2 DEF WithCommand, Swipes
<1>5. told \subseteq WithCommand(UNION {Codes(x) : x \in Button})
    <2>1. SwipeTold \subseteq WithCommand(UNION {Codes(x) : x \in Button})
        BY <1>1 DEF SwipeTold, ButtonTypes, WithCommand
    <2>2. UNION {Codes(x) : x \in more} \subseteq UNION {Codes(x) : x \in Button}
        OBVIOUS
    <2>3. WithCommand(UNION {Codes(x) : x \in more})
              \subseteq WithCommand(UNION {Codes(x) : x \in Button})
        BY <2>2 DEF WithCommand
    <2> QED BY <2>1, <2>3 DEF Swipes
<1>6. "control" \in told => "super" \in told
    BY DEF Swipes, SwipeTold, WithCommand
<1>7. \A x \in Toggle \ Swipeable :
           Codes(x) \cap WithCommand(Elsewhere(x)) = {} /\ isToggleOn'[x] =>
               \/ isToggleOn[x] /\ Codes(x) \cap told = {}
               \/ Codes(x) \subseteq told \cap down
    <2> SUFFICES ASSUME NEW x \in Toggle \ Swipeable,
                        Codes(x) \cap WithCommand(Elsewhere(x)) = {}, isToggleOn'[x]
                 PROVE  isToggleOn[x] /\ Codes(x) \cap told = {}
        OBVIOUS
    <2>1. x # swipingButton /\ x \notin more
        BY <1>1 DEF ButtonTypes
    <2>2. isToggleOn[x]
        BY <1>2, <2>1
    <2>3. SwipeTold \subseteq WithCommand(Elsewhere(x))
        BY <1>1, <2>1 DEF SwipeTold, ButtonTypes, Elsewhere, WithCommand
    <2>4. WithCommand(UNION {Codes(y) : y \in more}) \subseteq WithCommand(Elsewhere(x))
        BY <2>1 DEF Elsewhere, WithCommand
    <2> QED BY <2>2, <2>3, <2>4 DEF Swipes
<1>8. HeldIsOwed' /\ SneakShown' /\ (ButtonTypes' => TypeOK')
    <2> DEFINE loses == {}
    <2>1. /\ Says(told, down, loses)
          /\ \A x \in Button :
                ButtonOwes(x) => ButtonOwes(x)' \/ Codes(x) \subseteq told \cup loses
        BY <1>3
    <2> HIDE DEF loses
    <2> QED BY <1>4, <1>5, <1>6, <2>1, ButtonsStep
<1>9. ToggleShown'
    BY <1>1, <1>7, LatchStep
<1> QED BY <1>8, <1>9 DEF IInv

(* The types after the button of a swipe is let go.                        *)
LEMMA LatchedTypes ==
    ASSUME ButtonTypes, isToggleOn' = Latched(swipingButton, FALSE)
    PROVE  isToggleOn' \in [Toggle -> BOOLEAN]
BY DEF Latched, ButtonTypes

(* A swipe onto another button.                                            *)
LEMMA SwipeOnStep ==
    ASSUME IInv, NEW b \in Button, executebtn_swipe(b)
    PROVE  IInv'
<1> PICK other \in Swipeable \ {swipingButton} :
        /\ isToggleOn' = Latched(swipingButton, FALSE)
        /\ SendAndLose(UpEvents(swipingButton, FALSE) \o executebtn(other, TRUE), {})
        /\ swipingButton' = other
    BY DEF executebtn_swipe, Send
<1> DEFINE e == UpEvents(swipingButton, FALSE)
           f == executebtn(other, TRUE)
           w == WithCommand(UNION {Codes(x) : x \in {other}})
<1>1. /\ finger[b] = "pan" /\ finger' = finger
      /\ UNCHANGED <<preferences, isGrabbing, surface, pad, sticks, devices>>
    BY DEF executebtn_swipe
<1>2. ButtonTypes /\ QueueTypes /\ PanInv
    BY Types DEF IInv
<1>3. w = WithCommand(Codes(other))
    BY DEF WithCommand
<1>4. e \in Seq(Ev) /\ Told(e) = SwipeTold /\ SaidDown(e) = SwipeDown
    BY <1>2, LeftFacts
<1>5. f \in Seq(Ev) /\ Told(f) = w /\ SaidDown(f) = w
    BY <1>3, SentDown
<1> HIDE DEF e, f, w
<1>6. /\ e \o f \in Seq(Ev) /\ Told(e \o f) = Told(e) \cup Told(f)
      /\ SaidDown(e \o f) = SaidDown(f) \cup (SaidDown(e) \ Told(f))
    BY <1>4, <1>5, BothFacts
<1>7. Says(Told(e \o f), SaidDown(e \o f), {})
    BY <1>2, <1>6, SendFacts DEF e, f
<1>8. Told(e \o f) = SwipeTold \cup w /\ SaidDown(e \o f) \subseteq SwipeDown \cup w
    BY <1>4, <1>5, <1>6
<1>9. ButtonOwes(other)'
    <2>1. b \in Swipeable /\ finger'[b] = "pan"
        BY <1>1, <1>2 DEF PanInv
    <2> QED BY <2>1 DEF ButtonOwes
<1>10. ButtonTypes' /\ PanInv'
    BY <1>1, <1>2, LatchedTypes DEF ButtonTypes, PanInv
<1> DEFINE told == Told(e \o f)
           down == SaidDown(e \o f)
<1> HIDE DEF told, down
<1> DEFINE more == {other}
<1>11. Swipes(told, down, more) /\ Says(told, down, {})
    BY <1>7, <1>8 DEF told, down, w, Swipes
<1>12. more \in SUBSET Button /\ \A x \in more : x \in Swipeable /\ ButtonOwes(x)'
    BY <1>9
<1> HIDE DEF more
<1>13. \A x \in Button : finger[x] = "down" => finger'[x] = "down"
    BY <1>1
<1> QED BY <1>1, <1>10, <1>11, <1>12, <1>13, SwipeStep

(* The end of a swipe.                                                     *)
LEMMA EndSwipeStep ==
    ASSUME IInv, NEW b \in Button, EndSwipe(b)
    PROVE  IInv'
<1> DEFINE e == UpEvents(swipingButton, FALSE)
<1>1. /\ finger[b] = "pan" /\ finger' = [finger EXCEPT ![b] = "up"]
      /\ isToggleOn' = Latched(swipingButton, FALSE)
      /\ SendAndLose(e, {}) /\ swipingButton' = NoButton
      /\ UNCHANGED <<preferences, isGrabbing, surface, pad, sticks, devices>>
    BY DEF EndSwipe, Send
<1>2. ButtonTypes /\ QueueTypes /\ PanInv
    BY Types DEF IInv
<1>3. e \in Seq(Ev) /\ Told(e) = SwipeTold /\ SaidDown(e) = SwipeDown
    BY <1>2, LeftFacts
<1> HIDE DEF e
<1>4. Says(Told(e), SaidDown(e), {})
    BY <1>1, <1>2, <1>3, SendFacts
<1>5. Says(SwipeTold, SwipeDown, {})
    BY <1>3, <1>4
<1>6. ButtonTypes' /\ PanInv'
    BY <1>1, <1>2, LatchedTypes DEF ButtonTypes, PanInv
<1>7. \A x \in Button : finger[x] = "down" => finger'[x] = "down"
    BY <1>1, <1>2 DEF ButtonTypes
<1> DEFINE more == {}
           told == SwipeTold
           down == SwipeDown
<1>8. WithCommand(UNION {Codes(x) : x \in more}) = {}
    BY DEF WithCommand
<1>9. Swipes(told, down, more) /\ Says(told, down, {})
    BY <1>5, <1>8 DEF Swipes
<1>10. more \in SUBSET Button /\ \A x \in more : x \in Swipeable /\ ButtonOwes(x)'
    OBVIOUS
<1> HIDE DEF more, told, down
<1> QED BY <1>1, <1>6, <1>7, <1>9, <1>10, SwipeStep

-----------------------------------------------------------------------------
(* The other sources. What they send, except for the gamepad, says nothing *)
(* of a latched button or of the latch of the gamepad.                     *)
LEMMA AnyStep ==
    ASSUME NEW told, NEW down, NEW loses, IInv, Says(told, down, loses),
           leftShiftHeld' = leftShiftHeld,
           \A b \in Toggle : isToggleOn'[b] => isToggleOn[b],
           "control" \in told => "super" \in told,
           told \subseteq WithCommand(OtherCodes),
           down \subseteq WithCommand(Owed'), Owed \ told \subseteq Owed' \cup loses,
           PrefTypes' /\ ButtonTypes' /\ PanInv',
           SurfaceTypes' /\ PadTypes' /\ StickTypes' /\ KeyTypes' /\ (isGrabbing \in BOOLEAN)'
    PROVE  IInv'
<1>1. TypeOK /\ HeldIsOwed /\ ToggleShown /\ SneakShown
    BY DEF IInv
<1>2. QueueTypes'
    BY DEF Says
<1>3. TypeOK'
    BY <1>2, Types, PTL
<1>4. HeldIsOwed'
    BY <1>1, OwedStep
<1>5. ToggleShown' /\ SneakShown'
    BY <1>1, OthersStep
<1> QED BY <1>3, <1>4, <1>5 DEF IInv

(* Most of them leave the settings and the buttons as they are.            *)
LEMMA RestStep ==
    ASSUME NEW told, NEW down, NEW loses, IInv, Says(told, down, loses),
           UNCHANGED <<preferences, buttons, leftShiftHeld>>,
           "control" \in told => "super" \in told,
           told \subseteq WithCommand(OtherCodes),
           down \subseteq WithCommand(Owed'), Owed \ told \subseteq Owed' \cup loses,
           SurfaceTypes' /\ PadTypes' /\ StickTypes' /\ KeyTypes' /\ (isGrabbing \in BOOLEAN)'
    PROVE  IInv'
<1>1. PrefTypes' /\ ButtonTypes'
    BY Types, TypesSame DEF IInv
<1>2. PanInv' /\ \A b \in Toggle : isToggleOn'[b] => isToggleOn[b]
    BY DEF IInv, PanInv, buttons
<1> QED BY <1>1, <1>2, AnyStep

(* A code of those, with its Command.                                      *)
LEMMA OneCode ==
    ASSUME NEW c \in OtherCodes
    PROVE  /\ c \in Code
           /\ WithCommand({c}) \subseteq WithCommand(OtherCodes)
           /\ "control" \in WithCommand({c}) => "super" \in WithCommand({c})
BY CodeNames DEF WithCommand

(* The fingers on the surface.                                             *)
LEMMA SurfaceStep ==
    ASSUME NEW told, NEW down, NEW loses, IInv, Says(told, down, loses),
           UNCHANGED <<preferences, isGrabbing, buttons, pad, sticks, devices>>,
           "control" \in told => "super" \in told,
           told \subseteq WithCommand(OtherCodes),
           down \subseteq WithCommand(ClickOwes' \cup LongOwes'),
           ClickOwes \ told \subseteq ClickOwes' \cup loses,
           LongOwes \ told \subseteq LongOwes' \cup loses,
           SurfaceTypes'
    PROVE  IInv'
<1>1. /\ ButtonsOwe' = ButtonsOwe /\ PadOwes' = PadOwes /\ SneakOwes' = SneakOwes
      /\ SticksOwe' = SticksOwe /\ KeysOwe' = KeysOwe
    BY OwesSame DEF pad
<1>2. down \subseteq WithCommand(Owed') /\ Owed \ told \subseteq Owed' \cup loses
    BY <1>1 DEF Owed, WithCommand
<1>3. PadTypes' /\ StickTypes' /\ KeyTypes' /\ (isGrabbing \in BOOLEAN)'
    BY Types, TypesSame DEF IInv
<1>4. UNCHANGED <<preferences, buttons, leftShiftHeld>>
    BY DEF pad
<1> QED BY <1>2, <1>3, <1>4, RestStep

(* What a key that is clicked says.                                        *)
LEMMA ClickSays ==
    ASSUME NEW c \in OtherCodes, QueueTypes, Send(Click(c))
    PROVE  Says(WithCommand({c}), {}, {})
<1>1. c \in Code
    BY OneCode
<1>2. /\ Click(c) \in Seq(Ev) /\ Told(Click(c)) = WithCommand({c})
      /\ SaidDown(Click(c)) = {}
    BY <1>1, ClickFacts
<1>3. Says(Told(Click(c)), SaidDown(Click(c)), {})
    BY <1>2, SendFacts DEF Send
<1> QED BY <1>2, <1>3

(* And one that goes down, or up.                                          *)
LEMMA DownSays ==
    ASSUME NEW c \in Code, NEW loses \in SUBSET Code, QueueTypes,
           SendAndLose(Event(c, TRUE), loses)
    PROVE  Says(WithCommand({c}), WithCommand({c}), loses)
<1>1. /\ Event(c, TRUE) \in Seq(Ev) /\ Told(Event(c, TRUE)) = WithCommand({c})
      /\ SaidDown(Event(c, TRUE)) = WithCommand({c})
    BY DownFacts
<1>2. Says(Told(Event(c, TRUE)), SaidDown(Event(c, TRUE)), loses)
    BY <1>1, SendFacts
<1> QED BY <1>1, <1>2

(* The same when it comes up.                                              *)
LEMMA UpSays ==
    ASSUME NEW c \in Code, NEW loses \in SUBSET Code, QueueTypes,
           SendAndLose(Event(c, FALSE), loses)
    PROVE  Says(WithCommand({c}), {}, loses)
<1>1. /\ Event(c, FALSE) \in Seq(Ev) /\ Told(Event(c, FALSE)) = WithCommand({c})
      /\ SaidDown(Event(c, FALSE)) = {}
    BY UpFacts
<1>2. Says(Told(Event(c, FALSE)), SaidDown(Event(c, FALSE)), loses)
    BY <1>1, SendFacts
<1> QED BY <1>1, <1>2

(* Nothing.                                                                *)
LEMMA NothingSays ==
    ASSUME NEW loses \in SUBSET Code, QueueTypes, SendAndLose(<<>>, loses)
    PROVE  Says({}, {}, loses)
BY NoEvents, SendFacts

(* A finger that leaves, and the slot a long press looks up.               *)
LEMMA LeaveTypes ==
    ASSUME SurfaceTypes, Leave
    PROVE  touches' \in 0 .. 2 /\ hotbarTouch' \in BOOLEAN
<1>1. touches' \in 0 .. 2
    BY DEF SurfaceTypes, Leave
<1>2. hotbarTouch' \in {hotbarTouch, FALSE}
    <2>1. CASE touches' = 0
        BY <2>1 DEF Leave
    <2>2. CASE touches' # 0
        BY <2>2 DEF Leave
    <2> QED BY <2>1, <2>2
<1>3. {hotbarTouch, FALSE} \subseteq BOOLEAN
    BY DEF SurfaceTypes
<1> QED BY <1>1, <1>2, <1>3

(* The slot that is looked up, or kept, is a slot or none.                 *)
LEMMA LookUpTypes ==
    ASSUME SurfaceTypes, LookUp
    PROVE  currentHotbarSlot' \in Slot \cup {NoSlot}
BY DEF SurfaceTypes, LookUp, touchHotbar

(* A finger touches the surface.                                           *)
LEMMA BeganStep == IInv /\ touchesBegan => IInv'
<1> SUFFICES ASSUME IInv, touchesBegan PROVE IInv'
    OBVIOUS
<1> DEFINE loses == IF slideableHotbar /\ LongCode(currentHotbarSlot') # long
                    THEN {long} \ {"none", "nothing"} ELSE {}
<1>1. /\ touches < 2 /\ touches' = touches + 1
      /\ currentHotbarSlot' \in touchHotbar
      /\ hotbarTouch' = (hotbarTouch \/ currentHotbarSlot' # NoSlot)
      /\ shouldTriggerClick' = TRUE /\ over' = (touches' = 2)
      /\ Lose(loses) /\ long' = long /\ clicks' = clicks
      /\ UNCHANGED <<preferences, isGrabbing, buttons, pad, sticks, devices>>
    BY DEF touchesBegan
<1>2. SurfaceTypes /\ QueueTypes
    BY Types DEF IInv
<1>3. SurfaceTypes'
    BY <1>1, <1>2 DEF SurfaceTypes, touchHotbar
<1>4. loses \in SUBSET Code
    BY <1>2, CodeNames DEF SurfaceTypes
<1>5. LongOwes \subseteq LongOwes' \cup loses
    BY <1>1 DEF LongOwes, LongCode, preferences
<1>6. ClickOwes' = ClickOwes
    BY <1>1, OwesSame
<1> HIDE DEF loses
<1>7. Says({}, {}, loses)
    BY <1>1, <1>2, <1>4, LoseFacts
<1> DEFINE told == {}
           down == {}
<1>8. /\ Says(told, down, loses) /\ "control" \notin told
      /\ told \subseteq WithCommand(OtherCodes)
      /\ down \subseteq WithCommand(ClickOwes' \cup LongOwes')
    BY <1>7
<1> HIDE DEF told, down
<1> QED BY <1>1, <1>3, <1>5, <1>6, <1>8, SurfaceStep

(* A step of the surface that neither presses nor lets go of anything.     *)
LEMMA SurfaceQuiet ==
    ASSUME IInv, QueueTypes, NEW told, NEW loses, Says(told, {}, loses),
           UNCHANGED <<preferences, isGrabbing, buttons, pad, sticks, devices>>,
           "control" \in told => "super" \in told,
           told \subseteq WithCommand(OtherCodes),
           ClickOwes \ told \subseteq ClickOwes' \cup loses,
           LongOwes \ told \subseteq LongOwes' \cup loses, SurfaceTypes'
    PROVE  IInv'
<1> DEFINE down == {}
<1>1. Says(told, down, loses) /\ down \subseteq WithCommand(ClickOwes' \cup LongOwes')
    OBVIOUS
<1> HIDE DEF down
<1> QED BY <1>1, SurfaceStep

(* A finger moves, and may slide to another slot.                          *)
LEMMA MovedStep == IInv /\ touchesMoved => IInv'
<1> SUFFICES ASSUME IInv, touchesMoved PROVE IInv'
    OBVIOUS
<1> PICK slot \in touchHotbar :
        IF hotbarTouch /\ slideableHotbar /\ NoSlot \notin {slot, currentHotbarSlot}
           /\ slot # currentHotbarSlot
        THEN currentHotbarSlot' = slot /\ Send(Click(slot))
        ELSE shouldTriggerClick /\ UNCHANGED <<currentHotbarSlot, queue>>
    BY DEF touchesMoved
<1>1. /\ shouldTriggerClick' = FALSE
      /\ UNCHANGED <<preferences, isGrabbing, buttons, touches, hotbarTouch, long, over, clicks,
                     pad, sticks, devices>>
    BY DEF touchesMoved
<1>2. SurfaceTypes /\ QueueTypes
    BY Types DEF IInv
<1>3. ClickOwes' = ClickOwes
    BY <1>1, OwesSame
<1>4. CASE /\ NoSlot \notin {slot, currentHotbarSlot}
           /\ currentHotbarSlot' = slot /\ Send(Click(slot))
    <2>1. slot \in Slot
        BY <1>4 DEF touchHotbar
    <2>2. slot \in OtherCodes
        BY <2>1, CodeNames
    <2>3. Says(WithCommand({slot}), {}, {})
        BY <1>2, <1>4, <2>2, ClickSays
    <2>4. LongOwes' = LongOwes
        BY <1>1, <1>4 DEF LongOwes, LongCode, preferences
    <2>5. SurfaceTypes'
        BY <1>1, <1>2, <1>4, <2>1 DEF SurfaceTypes
    <2> QED BY <1>1, <1>2, <1>3, <2>2, <2>3, <2>4, <2>5, OneCode, SurfaceQuiet
<1>5. CASE UNCHANGED <<currentHotbarSlot, queue>>
    <2>1. Says({}, {}, {})
        BY <1>2, <1>5, SilentFacts
    <2>2. LongOwes' = LongOwes
        BY <1>1, <1>5 DEF LongOwes, LongCode, preferences
    <2>3. SurfaceTypes'
        BY <1>1, <1>2, <1>5 DEF SurfaceTypes
    <2> QED BY <1>1, <1>2, <1>3, <2>1, <2>2, <2>3, SurfaceQuiet
<1> QED BY <1>4, <1>5

(* A finger goes up, and nothing comes of it.                              *)
LEMMA EndedStep == IInv /\ touchesEnded => IInv'
<1> SUFFICES ASSUME IInv, touchesEnded PROVE IInv'
    OBVIOUS
<1>1. /\ Leave /\ over' = (touches' # 0)
      /\ UNCHANGED <<preferences, isGrabbing, buttons, shouldTriggerClick, long,
                     currentHotbarSlot, clicks, pad, sticks, devices, queue>>
    BY DEF touchesEnded
<1>2. SurfaceTypes /\ QueueTypes
    BY Types DEF IInv
<1>3. ClickOwes' = ClickOwes /\ LongOwes' = LongOwes
    BY <1>1 DEF LongOwes, LongCode, ClickOwes, MouseButton, preferences
<1>4. SurfaceTypes'
    BY <1>1, <1>2, LeaveTypes DEF SurfaceTypes
<1>5. Says({}, {}, {})
    BY <1>1, <1>2, SilentFacts
<1> QED BY <1>1, <1>2, <1>3, <1>4, <1>5, SurfaceQuiet

(* The mouse button of the moment.                                         *)
LEMMA MouseFacts == MouseButton \in OtherCodes
BY CodeNames DEF MouseButton

(* A tap: a slot is chosen, or the mouse button goes down.                 *)
LEMMA TapStep == IInv /\ surfaceOnClick => IInv'
<1> SUFFICES ASSUME IInv, surfaceOnClick PROVE IInv'
    OBVIOUS
<1>1. /\ Leave
      /\ UNCHANGED <<preferences, isGrabbing, buttons, shouldTriggerClick, long, over,
                     currentHotbarSlot, pad, sticks, devices>>
    BY DEF surfaceOnClick
<1>2. SurfaceTypes /\ QueueTypes
    BY Types DEF IInv
<1>3. LongOwes' = LongOwes
    BY <1>1 DEF LongOwes, LongCode, preferences
<1>4. CASE currentHotbarSlot # NoSlot
    <2>1. Send(Click(currentHotbarSlot)) /\ UNCHANGED clicks
        BY <1>4 DEF surfaceOnClick
    <2> PICK slot : slot = currentHotbarSlot
        OBVIOUS
    <2>2. slot \in OtherCodes
        BY <1>2, <1>4, CodeNames DEF SurfaceTypes
    <2>3. Says(WithCommand({slot}), {}, {})
        BY <1>2, <2>1, <2>2, ClickSays
    <2>4. SurfaceTypes'
        BY <1>1, <1>2, <2>1, LeaveTypes DEF SurfaceTypes
    <2>5. ClickOwes' = ClickOwes
        BY <1>1, <2>1, OwesSame
    <2> QED BY <1>1, <1>2, <1>3, <2>2, <2>3, <2>4, <2>5, OneCode, SurfaceQuiet
<1>5. CASE currentHotbarSlot = NoSlot
    <2>1. /\ clicks < MaxClick /\ clicks' = clicks + 1
          /\ SendAndLose(Event(MouseButton, TRUE), {})
        BY <1>5 DEF surfaceOnClick, Send
    <2> PICK c \in OtherCodes : c = MouseButton
        BY MouseFacts
    <2>2. Says(WithCommand({c}), WithCommand({c}), {})
        BY <1>2, <2>1, OneCode, DownSays
    <2>3. SurfaceTypes'
        BY <1>1, <1>2, <2>1, LeaveTypes DEF SurfaceTypes
    <2>4. ClickOwes' = {c} /\ ClickOwes \subseteq {c}
        BY <1>1, <1>2, <2>1 DEF ClickOwes, MouseButton, SurfaceTypes
    <2>5. WithCommand({c}) \subseteq WithCommand(ClickOwes' \cup LongOwes')
        BY <2>4 DEF WithCommand
    <2>6. ClickOwes \ WithCommand({c}) \subseteq ClickOwes' \cup {}
        BY <2>4
    <2>7. LongOwes \ WithCommand({c}) \subseteq LongOwes' \cup {}
        BY <1>3
    <2> QED BY <1>1, <2>2, <2>3, <2>5, <2>6, <2>7, OneCode, SurfaceStep
<1> QED BY <1>4, <1>5

(* The mouse button of the moment is let go of.                            *)
LEMMA ReleaseStep == IInv /\ Release => IInv'
<1> SUFFICES ASSUME IInv, Release PROVE IInv'
    OBVIOUS
<1>1. /\ clicks > 0 /\ clicks' = clicks - 1
      /\ SendAndLose(Event(MouseButton, FALSE), {})
      /\ UNCHANGED <<preferences, isGrabbing, buttons, touches, gesture, pad, sticks, devices>>
    BY DEF Release, Send
<1>2. SurfaceTypes /\ QueueTypes
    BY Types DEF IInv
<1> PICK c \in OtherCodes : c = MouseButton
    BY MouseFacts
<1>3. Says(WithCommand({c}), {}, {})
    BY <1>1, <1>2, OneCode, UpSays
<1>4. SurfaceTypes'
    BY <1>1, <1>2 DEF SurfaceTypes, gesture
<1>5. LongOwes' = LongOwes
    BY <1>1, OwesSame
<1>6. ClickOwes \subseteq WithCommand({c})
    BY DEF ClickOwes, WithCommand
<1> QED BY <1>1, <1>2, <1>3, <1>4, <1>5, <1>6, OneCode, SurfaceQuiet

(* The second tap on a slot.                                               *)
LEMMA DoubleTapStep == IInv /\ surfaceOnDoubleClick => IInv'
<1> SUFFICES ASSUME IInv, surfaceOnDoubleClick PROVE IInv'
    OBVIOUS
<1>1. /\ Leave /\ Send(Click("f"))
      /\ UNCHANGED <<preferences, isGrabbing, buttons, shouldTriggerClick, long, over,
                     currentHotbarSlot, clicks, pad, sticks, devices>>
    BY DEF surfaceOnDoubleClick
<1>2. SurfaceTypes /\ QueueTypes
    BY Types DEF IInv
<1>3. ClickOwes' = ClickOwes /\ LongOwes' = LongOwes
    BY <1>1 DEF LongOwes, LongCode, ClickOwes, MouseButton, preferences
<1>4. SurfaceTypes'
    BY <1>1, <1>2, LeaveTypes DEF SurfaceTypes
<1> PICK c \in OtherCodes : c = "f"
    BY CodeNames
<1>5. Says(WithCommand({c}), {}, {})
    BY <1>1, <1>2, ClickSays
<1> QED BY <1>1, <1>2, <1>3, <1>4, <1>5, OneCode, SurfaceQuiet

(* What a long press presses is a code, or nothing.                        *)
LEMMA LongFacts ==
    ASSUME NEW slot
    PROVE  /\ LongCode(slot) \in {"q", "left", "nothing"}
           /\ LongCode(slot) # "nothing" => LongCode(slot) \in OtherCodes
BY CodeNames DEF LongCode

(* A long press begins.                                                    *)
LEMMA LongStep == IInv /\ surfaceOnLongpress => IInv'
<1> SUFFICES ASSUME IInv, surfaceOnLongpress PROVE IInv'
    OBVIOUS
<1> PICK slot : slot = currentHotbarSlot'
    OBVIOUS
<1>1. /\ long = "none" /\ LookUp /\ shouldTriggerClick' = FALSE
      /\ long' = LongCode(slot)
      /\ Send(LongEvent(slot, TRUE))
      /\ UNCHANGED <<preferences, isGrabbing, buttons, touches, hotbarTouch, over, clicks,
                     pad, sticks, devices>>
    BY DEF surfaceOnLongpress
<1>2. SurfaceTypes /\ QueueTypes
    BY Types DEF IInv
<1>3. SurfaceTypes'
    <2>1. currentHotbarSlot' \in Slot \cup {NoSlot}
        BY <1>1, <1>2, LookUpTypes
    <2> QED BY <1>1, <1>2, <2>1, LongFacts DEF SurfaceTypes
<1>4. ClickOwes' = ClickOwes /\ LongOwes = {}
    BY <1>1, OwesSame DEF LongOwes
<1>5. CASE LongCode(slot) = "nothing"
    <2>1. SendAndLose(<<>>, {})
        BY <1>1, <1>5 DEF LongEvent, Send
    <2>2. Says({}, {}, {})
        BY <1>2, <2>1, NothingSays
    <2> QED BY <1>1, <1>2, <1>3, <1>4, <2>2, SurfaceQuiet
<1>6. CASE LongCode(slot) # "nothing"
    <2> PICK c \in OtherCodes : c = LongCode(slot)
        BY <1>6, LongFacts
    <2>1. SendAndLose(Event(c, TRUE), {})
        BY <1>1, <1>6 DEF LongEvent, Send
    <2>2. Says(WithCommand({c}), WithCommand({c}), {})
        BY <1>2, <2>1, OneCode, DownSays
    <2>3. LongOwes' = {c}
        <3>1. long' = c /\ c \notin {"none", "nothing"} /\ LongCode(currentHotbarSlot)' = c
            BY <1>1, <1>6, LongFacts DEF LongCode, preferences
        <3> QED BY <3>1 DEF LongOwes
    <2>4. WithCommand({c}) \subseteq WithCommand(ClickOwes' \cup LongOwes')
        BY <2>3 DEF WithCommand
    <2>5. /\ ClickOwes \ WithCommand({c}) \subseteq ClickOwes' \cup {}
          /\ LongOwes \ WithCommand({c}) \subseteq LongOwes' \cup {}
        BY <1>4
    <2> QED BY <1>1, <1>3, <2>2, <2>4, <2>5, OneCode, SurfaceStep
<1> QED BY <1>5, <1>6

(* A long press ends, on the slot of the moment.                           *)
LEMMA EndLongStep == IInv /\ EndLongpress => IInv'
<1> SUFFICES ASSUME IInv, EndLongpress PROVE IInv'
    OBVIOUS
<1> PICK slot : slot = currentHotbarSlot'
    OBVIOUS
<1> DEFINE loses == IF slideableHotbar THEN {} ELSE {long} \ {"nothing"}
<1>1. /\ Leave /\ LookUp /\ long # "none" /\ long' = "none" /\ over' = (touches' # 0)
      /\ SendAndLose(LongEvent(slot, FALSE), loses)
      /\ UNCHANGED <<preferences, isGrabbing, buttons, shouldTriggerClick, clicks, pad, sticks,
                     devices>>
    BY DEF EndLongpress
<1>2. SurfaceTypes /\ QueueTypes
    BY Types DEF IInv
<1>3. SurfaceTypes'
    <2>1. currentHotbarSlot' \in Slot \cup {NoSlot}
        BY <1>1, <1>2, LookUpTypes
    <2>2. touches' \in 0 .. 2 /\ hotbarTouch' \in BOOLEAN
        BY <1>1, <1>2, LeaveTypes
    <2> QED BY <1>1, <1>2, <2>1, <2>2 DEF SurfaceTypes
<1>4. ClickOwes' = ClickOwes
    BY <1>1, OwesSame
<1>5. loses \in SUBSET Code
    BY <1>1, <1>2, CodeNames DEF SurfaceTypes
<1>6. LongOwes \subseteq loses \cup ({LongCode(slot)} \ {"nothing"})
    <2>1. CASE slideableHotbar
        <3>1. slot = currentHotbarSlot
            BY <1>1, <2>1 DEF LookUp
        <3> QED BY <2>1, <3>1 DEF LongOwes
    <2>2. CASE ~slideableHotbar
        BY <1>1, <2>2 DEF LongOwes
    <2> QED BY <2>1, <2>2
<1> HIDE DEF loses
<1>7. CASE LongCode(slot) = "nothing"
    <2>1. SendAndLose(<<>>, loses)
        BY <1>1, <1>7 DEF LongEvent
    <2>2. Says({}, {}, loses)
        BY <1>2, <1>5, <2>1, NothingSays
    <2>3. LongOwes \subseteq loses
        BY <1>6, <1>7
    <2> QED BY <1>1, <1>2, <1>3, <1>4, <2>2, <2>3, SurfaceQuiet
<1>8. CASE LongCode(slot) # "nothing"
    <2> PICK c \in OtherCodes : c = LongCode(slot)
        BY <1>8, LongFacts
    <2>1. SendAndLose(Event(c, FALSE), loses)
        BY <1>1, <1>8 DEF LongEvent
    <2>2. Says(WithCommand({c}), {}, loses)
        BY <1>2, <1>5, <2>1, OneCode, UpSays
    <2>3. LongOwes \ WithCommand({c}) \subseteq LongOwes' \cup loses
        BY <1>6 DEF WithCommand
    <2> QED BY <1>1, <1>2, <1>3, <1>4, <2>2, <2>3, OneCode, SurfaceQuiet
<1> QED BY <1>7, <1>8

-----------------------------------------------------------------------------
(* The gamepad. What a button of it says keeps a latched button, if its    *)
(* code is one of the gamepad's.                                           *)
LEMMA PadStep ==
    ASSUME NEW told, NEW down, IInv, Says(told, down, {}),
           UNCHANGED <<preferences, isGrabbing, buttons, surface, AMControllerPassthrough,
                       sticks, devices>>,
           "control" \in told => "super" \in told,
           told \subseteq WithCommand(PadCodes),
           down \subseteq WithCommand(PadOwes' \cup SneakOwes'),
           PadOwes \ told \subseteq PadOwes', SneakOwes \ told \subseteq SneakOwes',
           PadTypes',
           IF "shift" \in told THEN leftShiftHeld' <=> "shift" \in down
           ELSE leftShiftHeld' = leftShiftHeld
    PROVE  IInv'
<1>1. TypeOK /\ PanInv /\ HeldIsOwed /\ ToggleShown /\ SneakShown
    BY DEF IInv
<1>2. /\ PrefTypes' /\ (isGrabbing \in BOOLEAN)' /\ ButtonTypes' /\ SurfaceTypes'
      /\ StickTypes' /\ KeyTypes' /\ QueueTypes'
    BY <1>1, Types, TypesSame DEF Says
<1>3. TypeOK'
    BY <1>2, Types, PTL
<1>4. PanInv'
    BY <1>1 DEF PanInv, buttons
<1>5. /\ ButtonsOwe' = ButtonsOwe /\ ClickOwes' = ClickOwes /\ LongOwes' = LongOwes
      /\ SticksOwe' = SticksOwe /\ KeysOwe' = KeysOwe
    BY OwesSame DEF surface
<1>6. down \subseteq WithCommand(Owed') /\ Owed \ told \subseteq Owed' \cup {}
    BY <1>5 DEF Owed, WithCommand
<1>7. HeldIsOwed'
    BY <1>1, <1>6, OwedStep
<1>8. \A b \in Toggle \ Swipeable : told \subseteq WithCommand(Elsewhere(b))
    BY DEF Elsewhere, WithCommand
<1>9. \A b \in Toggle \ Swipeable :
          Codes(b) \cap WithCommand(Elsewhere(b)) = {} => Codes(b) \cap told = {}
    BY <1>8
<1>10. isToggleOn' = isToggleOn
    BY DEF buttons
<1>11. ToggleShown'
    BY <1>1, <1>9, <1>10, ToggleStep
<1>12. SneakShown'
    <2>1. CASE "shift" \in told
        BY <2>1 DEF SneakShown, Says
    <2>2. CASE "shift" \notin told
        <3>1. ("shift" \in held' <=> "shift" \in held) /\ ("shift" \in lost => "shift" \in lost')
            BY <2>2 DEF Says
        <3> QED BY <1>1, <2>2, <3>1 DEF SneakShown
    <2> QED BY <2>1, <2>2
<1> QED BY <1>3, <1>4, <1>7, <1>11, <1>12 DEF IInv

(* One that says nothing.                                                  *)
LEMMA PadQuiet ==
    ASSUME IInv, Says({}, {}, {}),
           UNCHANGED <<preferences, isGrabbing, buttons, surface, AMControllerPassthrough,
                       sticks, devices, leftShiftHeld>>,
           PadOwes \subseteq PadOwes', PadTypes'
    PROVE  IInv'
<1> DEFINE told == {}
           down == {}
<1>1. /\ Says(told, down, {}) /\ "control" \notin told /\ "shift" \notin told
      /\ told \subseteq WithCommand(PadCodes)
      /\ down \subseteq WithCommand(PadOwes' \cup SneakOwes')
    OBVIOUS
<1>2. SneakOwes' = SneakOwes
    BY OwesSame
<1> HIDE DEF told, down
<1> QED BY <1>1, <1>2, PadStep

(* The codes of its buttons, and the latch of the sneak button.            *)
LEMMA PadCodeFacts ==
    ASSUME NEW g \in Pad
    PROVE  /\ PadCode(g) \notin {NoCode, Sneak} => PadCode(g) \in PadCodes
           /\ PadCode(g) = Sneak => "shift" \in PadCodes
<1>1. PadCode(g) \in {gameMap[x] : x \in Pad} \cup {menuMap[x] : x \in Pad}
    BY DEF PadCode
<1> DEFINE c == PadCode(g)
<1> HIDE DEF c
<1>2. c \in {gameMap[x] : x \in Pad} \cup {menuMap[x] : x \in Pad}
    BY <1>1 DEF c
<1>3. c \notin {NoCode, Sneak} => c \in PadCodes
    BY <1>2 DEF PadCodes
<1>4. c = Sneak => "shift" \in PadCodes
    BY <1>2 DEF PadCodes, NoCode
<1> QED BY <1>3, <1>4 DEF c

(* A button of the gamepad goes down or up.                                *)
LEMMA PadChangedStep ==
    ASSUME IInv, NEW g \in Pad, PadChanged(g)
    PROVE  IInv'
<1>1. /\ pressed' = [pressed EXCEPT ![g] = ~@]
      /\ UNCHANGED <<preferences, isGrabbing, buttons, surface, AMControllerPassthrough,
                     sticks, devices>>
    BY DEF PadChanged
<1>2. PadTypes /\ QueueTypes
    BY Types DEF IInv
<1>3. /\ pressed' \in [Pad -> BOOLEAN]
      /\ \A h \in Pad \ {g} : pressed'[h] = pressed[h]
    BY <1>1, <1>2 DEF PadTypes
<1>4. \A h \in Pad : PadCode(h)' = PadCode(h)
    BY <1>1 DEF PadCode
<1> PICK c : c = PadCode(g)
    OBVIOUS
<1>5. PadOwes \subseteq PadOwes' \cup {c} /\ (c \in {NoCode, Sneak} => PadOwes \subseteq PadOwes')
    <2> SUFFICES ASSUME NEW x \in PadOwes, x \notin PadOwes'
                 PROVE  x = c /\ c \notin {NoCode, Sneak}
        OBVIOUS
    <2>1. ~AMControllerPassthrough /\ ~AMControllerPassthrough' /\ x \in PadHolds
        BY <1>1 DEF PadOwes
    <2> PICK h \in Pad : pressed[h] /\ x = PadCode(h) /\ x \notin {NoCode, Sneak}
        BY <2>1 DEF PadHolds
    <2>2. CASE h = g
        BY <2>2
    <2>3. CASE h # g
        <3>1. pressed'[h] /\ x = PadCode(h)'
            BY <1>3, <1>4, <2>3
        <3>2. x \in PadHolds'
            BY <3>1 DEF PadHolds
        <3> QED BY <2>1, <3>2 DEF PadOwes
    <2> QED BY <2>2, <2>3
<1>6. CASE UNCHANGED leftShiftHeld /\ Says({}, {}, {}) /\ PadOwes \subseteq PadOwes'
    <2>1. PadTypes'
        BY <1>1, <1>2, <1>3, <1>6 DEF PadTypes
    <2> QED BY <1>1, <1>6, <2>1, PadQuiet
<1>7. CASE AMControllerPassthrough
    <2>1. UNCHANGED <<leftShiftHeld, queue>>
        BY <1>7 DEF PadChanged
    <2>2. PadOwes = {}
        BY <1>7 DEF PadOwes
    <2>3. Says({}, {}, {})
        BY <1>2, <2>1, SilentFacts
    <2> QED BY <1>6, <2>1, <2>2, <2>3
<1>8. CASE ~AMControllerPassthrough /\ pressed'[g] = TRUE
    <2>1. PadEvent(c, TRUE)
        BY <1>8 DEF PadChanged
    <2>2. CASE c \in {NoCode, Sneak}
        <3>1. SendAndLose(<<>>, {}) /\ UNCHANGED leftShiftHeld
            BY <2>1, <2>2 DEF PadEvent, Send
        <3>2. Says({}, {}, {})
            BY <1>2, <3>1, NothingSays
        <3> QED BY <1>5, <1>6, <2>2, <3>1, <3>2
    <2>3. CASE c \notin {NoCode, Sneak}
        <3>1. /\ SendAndLose(Event(c, TRUE), {})
              /\ leftShiftHeld' = IF c = "shift" THEN TRUE ELSE leftShiftHeld
            BY <2>1, <2>3 DEF PadEvent, Send
        <3>2. c \in PadCodes /\ c \in Code
            BY <2>3, PadCodeFacts, CodeNames
        <3>3. Says(WithCommand({c}), WithCommand({c}), {})
            BY <1>2, <3>1, <3>2, DownSays
        <3>4. c \in PadOwes'
            <4>1. c = PadCode(g)'
                BY <1>4
            <4>2. c \in PadHolds'
                BY <1>8, <2>3, <4>1 DEF PadHolds
            <4> QED BY <1>1, <1>8, <4>2 DEF PadOwes
        <3>5. PadTypes'
            BY <1>1, <1>2, <1>3, <3>1 DEF PadTypes
        <3>6. SneakOwes \subseteq SneakOwes'
            BY <3>1 DEF SneakOwes
        <3>7. /\ "shift" \in WithCommand({c}) <=> c = "shift"
              /\ "control" \in WithCommand({c}) => "super" \in WithCommand({c})
              /\ WithCommand({c}) \subseteq WithCommand(PadCodes)
              /\ WithCommand({c}) \subseteq WithCommand(PadOwes' \cup SneakOwes')
            BY <3>2, <3>4 DEF WithCommand
        <3>8. IF "shift" \in WithCommand({c}) THEN leftShiftHeld' <=> "shift" \in WithCommand({c})
              ELSE leftShiftHeld' = leftShiftHeld
            BY <3>1, <3>7
        <3>9. PadOwes \subseteq PadOwes'
            BY <1>5, <3>4
        <3> QED BY <1>1, <3>3, <3>5, <3>6, <3>7, <3>8, <3>9, PadStep
    <2> QED BY <2>2, <2>3
<1>9. CASE ~AMControllerPassthrough /\ pressed'[g] = FALSE
    <2>1. PadEvent(c, FALSE)
        BY <1>9 DEF PadChanged
    <2>2. CASE c = NoCode
        <3>1. SendAndLose(<<>>, {}) /\ UNCHANGED leftShiftHeld
            BY <2>1, <2>2 DEF PadEvent, Send, NoCode, Sneak
        <3>2. Says({}, {}, {})
            BY <1>2, <3>1, NothingSays
        <3> QED BY <1>5, <1>6, <2>2, <3>1, <3>2
    <2>3. CASE c = Sneak
        <3>1. leftShiftHeld' = ~leftShiftHeld /\ SendAndLose(Event("shift", leftShiftHeld'), {})
            BY <2>1, <2>3 DEF PadEvent, Send, NoCode, Sneak
        <3>2. "shift" \in PadCodes /\ "shift" \in Code
            BY <2>3, PadCodeFacts, CodeNames
        <3>3. WithCommand({"shift"}) = {"shift"} /\ {"shift"} \subseteq WithCommand(PadCodes)
            BY <3>2 DEF WithCommand
        <3>4. PadTypes'
            BY <1>1, <1>2, <1>3, <3>1 DEF PadTypes
        <3>5. PadOwes \subseteq PadOwes'
            BY <1>5, <2>3
        <3>6. CASE leftShiftHeld = FALSE
            <4>1. leftShiftHeld' = TRUE
                BY <3>1, <3>6
            <4>2. SendAndLose(Event("shift", TRUE), {})
                BY <3>1, <4>1
            <4>3. Says({"shift"}, {"shift"}, {})
                BY <1>2, <3>2, <3>3, <4>2, DownSays
            <4>4. {"shift"} \subseteq WithCommand(PadOwes' \cup SneakOwes')
                BY <4>1 DEF SneakOwes, WithCommand
            <4>5. SneakOwes = {}
                BY <3>6 DEF SneakOwes
            <4> QED BY <1>1, <3>3, <3>4, <3>5, <4>1, <4>3, <4>4, <4>5, PadStep
        <3>7. CASE leftShiftHeld = TRUE
            <4>1. leftShiftHeld' = FALSE
                BY <3>1, <3>7
            <4>2. SendAndLose(Event("shift", FALSE), {})
                BY <3>1, <4>1
            <4>3. Says({"shift"}, {}, {})
                BY <1>2, <3>2, <3>3, <4>2, UpSays
            <4>4. SneakOwes \ {"shift"} = {}
                BY DEF SneakOwes
            <4> QED BY <1>1, <3>3, <3>4, <3>5, <4>1, <4>3, <4>4, PadStep
        <3>8. leftShiftHeld \in {TRUE, FALSE}
            BY <1>2 DEF PadTypes
        <3> QED BY <3>6, <3>7, <3>8
    <2>4. CASE c \notin {NoCode, Sneak}
        <3>1. /\ SendAndLose(Event(c, FALSE), {})
              /\ leftShiftHeld' = IF c = "shift" THEN FALSE ELSE leftShiftHeld
            BY <2>1, <2>4 DEF PadEvent, Send
        <3>2. c \in PadCodes /\ c \in Code
            BY <2>4, PadCodeFacts, CodeNames
        <3>3. Says(WithCommand({c}), {}, {})
            BY <1>2, <3>1, <3>2, UpSays
        <3>4. PadTypes'
            BY <1>1, <1>2, <1>3, <3>1 DEF PadTypes
        <3>5. SneakOwes \ WithCommand({c}) \subseteq SneakOwes'
            BY <3>1 DEF SneakOwes, WithCommand
        <3>6. PadOwes \ WithCommand({c}) \subseteq PadOwes'
            BY <1>5 DEF WithCommand
        <3>7. /\ "shift" \in WithCommand({c}) <=> c = "shift"
              /\ "control" \in WithCommand({c}) => "super" \in WithCommand({c})
              /\ WithCommand({c}) \subseteq WithCommand(PadCodes)
            BY <3>2 DEF WithCommand
        <3> DEFINE down == {}
        <3>8. IF "shift" \in WithCommand({c}) THEN leftShiftHeld' <=> "shift" \in down
              ELSE leftShiftHeld' = leftShiftHeld
            BY <3>1, <3>7
        <3>9. /\ Says(WithCommand({c}), down, {})
              /\ down \subseteq WithCommand(PadOwes' \cup SneakOwes')
            BY <3>3
        <3> HIDE DEF down
        <3> QED BY <1>1, <3>4, <3>5, <3>6, <3>7, <3>8, <3>9, PadStep
    <2> QED BY <2>2, <2>3, <2>4
<1>10. pressed'[g] \in {TRUE, FALSE}
    BY <1>3
<1> QED BY <1>7, <1>8, <1>9, <1>10

-----------------------------------------------------------------------------
(* The sticks. What a stick pushed nowhere holds is nothing.               *)
LEMMA StickDownFacts ==
    ASSUME NEW d
    PROVE  StickDown(d) \subseteq StickKeys /\ StickDown(Centre) = {} /\ StickDown(Never) = {}
BY DEF StickDown, Centre, Never, StickKeys

(* Whatever a stick holds are its four keys.                               *)
LEMMA StickHoldsFacts ==
    /\ \A s \in Stick : StickHolds(s) \subseteq StickKeys
    /\ SticksOwe \subseteq StickKeys /\ StickKeys \subseteq Code
<1>1. \A s \in Stick : StickHolds(s) \subseteq StickKeys
    BY StickDownFacts DEF StickHolds
<1>2. StickKeys \subseteq Code
    BY CodeNames
<1> QED BY <1>1, <1>2 DEF SticksOwe

(* A step of the sticks.                                                   *)
LEMMA SticksStep ==
    ASSUME NEW told, NEW down, NEW loses, IInv, Says(told, down, loses),
           UNCHANGED <<preferences, isGrabbing, buttons, surface, pad, devices>>,
           "control" \notin told, told \subseteq WithCommand(OtherCodes),
           down \subseteq WithCommand(SticksOwe'), SticksOwe \ told \subseteq SticksOwe' \cup loses,
           StickTypes'
    PROVE  IInv'
<1>1. /\ ButtonsOwe' = ButtonsOwe /\ ClickOwes' = ClickOwes /\ LongOwes' = LongOwes
      /\ PadOwes' = PadOwes /\ SneakOwes' = SneakOwes /\ KeysOwe' = KeysOwe
    BY OwesSame DEF surface, pad
<1>2. down \subseteq WithCommand(Owed') /\ Owed \ told \subseteq Owed' \cup loses
    BY <1>1 DEF Owed, WithCommand
<1>3. SurfaceTypes' /\ PadTypes' /\ KeyTypes' /\ (isGrabbing \in BOOLEAN)'
    BY Types, TypesSame DEF IInv
<1>4. UNCHANGED <<preferences, buttons, leftShiftHeld>>
    BY DEF pad
<1> QED BY <1>2, <1>3, <1>4, RestStep

(* A stick moves: the keys of its new direction are sent if somebody       *)
(* listens, and are held already if it has been there before.              *)
LEMMA StickStep ==
    ASSUME IInv, NEW s \in Stick, StickMoved(s)
    PROVE  IInv'
<1> PICK d \in (Direction \cup {Centre}) \ {push[s]} :
        /\ push' = [push EXCEPT ![s] = d]
        /\ IF Listens(s) /\ lastDirection[s] # d
           THEN /\ Send(StickEvents(d))
                /\ lastDirection' = [lastDirection EXCEPT ![s] = d]
           ELSE UNCHANGED <<lastDirection, queue>>
    BY DEF StickMoved
<1>1. UNCHANGED <<preferences, isGrabbing, buttons, surface, pad, devices>>
    BY DEF StickMoved
<1>2. StickTypes /\ QueueTypes
    BY Types DEF IInv
<1>3. \A x \in Stick : Listens(x)' <=> Listens(x)
    BY <1>1 DEF Listens, pad
<1>4. push' \in [Stick -> Direction \cup {Centre}] /\ push'[s] = d
    BY <1>2 DEF StickTypes
<1>5. CASE Listens(s) /\ lastDirection[s] # d
    <2>1. SendAndLose(StickEvents(d), {}) /\ lastDirection' = [lastDirection EXCEPT ![s] = d]
        BY <1>5 DEF Send
    <2>2. StickTypes' /\ lastDirection'[s] = d
        BY <1>2, <1>4, <2>1 DEF StickTypes
    <2>3. /\ StickEvents(d) \in Seq(Ev) /\ Told(StickEvents(d)) = StickKeys
          /\ SaidDown(StickEvents(d)) = StickDown(d)
        BY StickFacts
    <2>4. Says(Told(StickEvents(d)), SaidDown(StickEvents(d)), {})
        BY <1>2, <2>1, <2>3, SendFacts
    <2>5. Says(StickKeys, StickDown(d), {})
        BY <2>3, <2>4
    <2>6. StickDown(d) \subseteq SticksOwe'
        <3>1. StickDown(d) \subseteq StickHolds(s)'
            BY <1>4, <2>2, StickDownFacts DEF StickHolds
        <3>2. Listens(s)'
            BY <1>3, <1>5
        <3> QED BY <3>1, <3>2 DEF SticksOwe
    <2>7. "control" \notin StickKeys /\ StickKeys \subseteq WithCommand(OtherCodes)
        BY CodeNames DEF StickKeys, WithCommand
    <2>8. SticksOwe \ StickKeys \subseteq SticksOwe' \cup {}
        BY StickHoldsFacts
    <2>9. StickDown(d) \subseteq WithCommand(SticksOwe')
        BY <2>6 DEF WithCommand
    <2> QED BY <1>1, <2>2, <2>5, <2>7, <2>8, <2>9, SticksStep
<1>6. CASE ~(Listens(s) /\ lastDirection[s] # d)
    <2>1. UNCHANGED <<lastDirection, queue>>
        BY <1>6
    <2>2. StickTypes'
        BY <1>2, <1>4, <2>1 DEF StickTypes
    <2>3. ASSUME NEW x \in Stick, Listens(x) PROVE StickHolds(x) \subseteq StickHolds(x)'
        <3>1. CASE x = s
            <4>1. lastDirection[s] = d /\ lastDirection'[s] = d
                BY <1>6, <2>1, <2>3, <3>1
            <4>2. StickHolds(s)' = StickDown(d)
                BY <1>4, <4>1, StickDownFacts DEF StickHolds
            <4>3. StickHolds(s) \subseteq StickDown(d)
                BY <4>1 DEF StickHolds
            <4> QED BY <3>1, <4>2, <4>3
        <3>2. CASE x # s
            BY <1>2, <2>1, <3>2 DEF StickHolds, StickTypes
        <3> QED BY <3>1, <3>2
    <2>4. SticksOwe \subseteq SticksOwe'
        BY <1>3, <2>3 DEF SticksOwe
    <2> DEFINE told == {}
               down == {}
               loses == {}
    <2>5. /\ Says(told, down, loses) /\ "control" \notin told
          /\ told \subseteq WithCommand(OtherCodes) /\ down \subseteq WithCommand(SticksOwe')
        BY <1>2, <2>1, SilentFacts
    <2> HIDE DEF told, down, loses
    <2> QED BY <1>1, <2>2, <2>4, <2>5, SticksStep
<1> QED BY <1>5, <1>6

(* A touch on the joystick is cancelled.                                   *)
LEMMA CancelJoystickStep == IInv /\ CancelJoystick => IInv'
<1> SUFFICES ASSUME IInv, CancelJoystick PROVE IInv'
    OBVIOUS
<1> DEFINE loses == StickHolds("joystick")
<1>1. /\ push' = [push EXCEPT !["joystick"] = Centre] /\ Lose(loses)
      /\ UNCHANGED <<preferences, isGrabbing, buttons, surface, pad, lastDirection, devices>>
    BY DEF CancelJoystick
<1>2. StickTypes /\ QueueTypes /\ "joystick" \in Stick
    BY Types DEF IInv, Stick
<1>3. StickTypes'
    BY <1>1, <1>2 DEF StickTypes
<1>4. loses \in SUBSET Code
    BY <1>2, StickHoldsFacts
<1>5. \A x \in Stick : Listens(x)' <=> Listens(x)
    BY <1>1 DEF Listens, pad
<1>6. \A x \in Stick \ {"joystick"} : StickHolds(x)' = StickHolds(x)
    BY <1>1, <1>2 DEF StickHolds, StickTypes
<1>7. SticksOwe \subseteq SticksOwe' \cup loses
    BY <1>5, <1>6 DEF SticksOwe
<1> HIDE DEF loses
<1> DEFINE told == {}
           down == {}
<1>8. /\ Says(told, down, loses) /\ "control" \notin told
      /\ told \subseteq WithCommand(OtherCodes) /\ down \subseteq WithCommand(SticksOwe')
    BY <1>1, <1>2, <1>4, LoseFacts
<1> HIDE DEF told, down
<1> QED BY <1>1, <1>3, <1>7, <1>8, SticksStep

-----------------------------------------------------------------------------
(* The keyboard.                                                           *)
LEMMA KeysStep ==
    ASSUME NEW told, NEW down, NEW loses, IInv, Says(told, down, loses),
           UNCHANGED <<preferences, isGrabbing, buttons, surface, pad, sticks>>,
           "control" \in told => "super" \in told, told \subseteq WithCommand(OtherCodes),
           down \subseteq WithCommand(KeysOwe'), KeysOwe \ told \subseteq KeysOwe' \cup loses,
           KeyTypes'
    PROVE  IInv'
<1>1. /\ ButtonsOwe' = ButtonsOwe /\ ClickOwes' = ClickOwes /\ LongOwes' = LongOwes
      /\ PadOwes' = PadOwes /\ SneakOwes' = SneakOwes /\ SticksOwe' = SticksOwe
    BY OwesSame DEF surface, pad
<1>2. down \subseteq WithCommand(Owed') /\ Owed \ told \subseteq Owed' \cup loses
    BY <1>1 DEF Owed, WithCommand
<1>3. SurfaceTypes' /\ PadTypes' /\ StickTypes' /\ (isGrabbing \in BOOLEAN)'
    BY Types, TypesSame DEF IInv
<1>4. UNCHANGED <<preferences, buttons, leftShiftHeld>>
    BY DEF pad
<1> QED BY <1>2, <1>3, <1>4, RestStep

(* A key goes down or up.                                                  *)
LEMMA PressStep ==
    ASSUME IInv, NEW k \in Hardware, Press(k)
    PROVE  IInv'
<1>1. /\ typed' = [typed EXCEPT ![k] = ~@]
      /\ Send(IF textFieldActive /\ k \in Swallowed THEN <<>> ELSE Event(k, typed'[k]))
      /\ UNCHANGED <<preferences, isGrabbing, buttons, surface, pad, sticks, textFieldActive,
                     mouse>>
    BY DEF Press
<1>2. KeyTypes /\ QueueTypes /\ k \in OtherCodes
    BY Types, CodeNames DEF IInv
<1>3. /\ typed' \in [Hardware -> BOOLEAN]
      /\ \A h \in Hardware \ {k} : typed'[h] = typed[h]
    BY <1>1, <1>2 DEF KeyTypes
<1>4. KeyTypes'
    BY <1>1, <1>2, <1>3 DEF KeyTypes
<1>5. KeysOwe \subseteq KeysOwe' \cup {k}
    BY <1>1, <1>3 DEF KeysOwe, MouseHolds
<1> DEFINE loses == {}
<1>6. CASE textFieldActive /\ k \in Swallowed
    <2>1. SendAndLose(<<>>, {})
        BY <1>1, <1>6 DEF Send
    <2>2. Says({}, {}, {})
        BY <1>2, <2>1, NothingSays
    <2>3. KeysOwe \subseteq KeysOwe'
        BY <1>1, <1>5, <1>6 DEF KeysOwe, MouseHolds
    <2> DEFINE told == {}
               down == {}
    <2>4. /\ Says(told, down, loses) /\ "control" \notin told
          /\ told \subseteq WithCommand(OtherCodes) /\ down \subseteq WithCommand(KeysOwe')
        BY <2>2
    <2> HIDE DEF told, down, loses
    <2> QED BY <1>1, <1>4, <2>3, <2>4, KeysStep
<1>7. CASE ~(textFieldActive /\ k \in Swallowed) /\ typed'[k] = TRUE
    <2>1. SendAndLose(Event(k, TRUE), {})
        BY <1>1, <1>7 DEF Send
    <2>2. Says(WithCommand({k}), WithCommand({k}), loses)
        BY <1>2, <2>1, OneCode, DownSays
    <2>3. k \in KeysOwe'
        BY <1>1, <1>7 DEF KeysOwe
    <2>4. WithCommand({k}) \subseteq WithCommand(KeysOwe')
        BY <2>3 DEF WithCommand
    <2>5. KeysOwe \subseteq KeysOwe'
        BY <1>5, <2>3
    <2> HIDE DEF loses
    <2> QED BY <1>1, <1>2, <1>4, <2>2, <2>4, <2>5, OneCode, KeysStep
<1>8. CASE ~(textFieldActive /\ k \in Swallowed) /\ typed'[k] = FALSE
    <2>1. SendAndLose(Event(k, FALSE), {})
        BY <1>1, <1>8 DEF Send
    <2> DEFINE down == {}
    <2>2. Says(WithCommand({k}), down, loses) /\ down \subseteq WithCommand(KeysOwe')
        BY <1>2, <2>1, OneCode, UpSays
    <2>3. KeysOwe \ WithCommand({k}) \subseteq KeysOwe'
        BY <1>5 DEF WithCommand
    <2> HIDE DEF loses, down
    <2> QED BY <1>1, <1>2, <1>4, <2>2, <2>3, OneCode, KeysStep
<1>9. typed'[k] \in {TRUE, FALSE}
    BY <1>3
<1> QED BY <1>6, <1>7, <1>8, <1>9

(* A text field takes the keyboard over, or gives it back.                 *)
LEMMA TextFieldStep == IInv /\ ToggleTextField => IInv'
<1> SUFFICES ASSUME IInv, ToggleTextField PROVE IInv'
    OBVIOUS
<1> DEFINE loses == IF textFieldActive' THEN {k \in Swallowed \cap Hardware : typed[k]} ELSE {}
<1>1. /\ textFieldActive' = ~textFieldActive /\ Lose(loses)
      /\ UNCHANGED <<preferences, isGrabbing, buttons, surface, pad, sticks, typed, mouse>>
    BY DEF ToggleTextField
<1>2. KeyTypes /\ QueueTypes
    BY Types DEF IInv
<1>3. KeyTypes'
    BY <1>1, <1>2 DEF KeyTypes
<1>4. loses \in SUBSET Code
    BY CodeNames
<1>5. KeysOwe \subseteq KeysOwe' \cup loses
    BY <1>1, <1>2 DEF KeysOwe, KeyTypes, MouseHolds
<1> HIDE DEF loses
<1> DEFINE told == {}
           down == {}
<1>6. /\ Says(told, down, loses) /\ "control" \notin told
      /\ told \subseteq WithCommand(OtherCodes) /\ down \subseteq WithCommand(KeysOwe')
    BY <1>1, <1>2, <1>4, LoseFacts
<1> HIDE DEF told, down
<1> QED BY <1>1, <1>3, <1>5, <1>6, KeysStep

(* A button of the mouse goes down or up.                                  *)
LEMMA MouseStep ==
    ASSUME IInv, NEW m \in MouseButtons, MouseChanged(m)
    PROVE  IInv'
<1>1. /\ mouse' = [mouse EXCEPT ![m] = ~@] /\ Send(Event(m, mouse'[m]))
      /\ UNCHANGED <<preferences, isGrabbing, buttons, surface, pad, sticks, typed,
                     textFieldActive>>
    BY DEF MouseChanged
<1>2. KeyTypes /\ QueueTypes /\ m \in OtherCodes
    BY Types, CodeNames DEF IInv
<1>3. /\ mouse' \in [MouseButtons -> BOOLEAN]
      /\ \A x \in MouseButtons \ {m} : mouse'[x] = mouse[x]
    BY <1>1, <1>2 DEF KeyTypes
<1>4. KeyTypes'
    BY <1>1, <1>2, <1>3 DEF KeyTypes
<1>5. KeysOwe \subseteq KeysOwe' \cup {m}
    BY <1>1, <1>3 DEF KeysOwe, MouseHolds
<1> DEFINE loses == {}
<1>6. CASE mouse'[m] = TRUE
    <2>1. SendAndLose(Event(m, TRUE), {})
        BY <1>1, <1>6 DEF Send
    <2>2. Says(WithCommand({m}), WithCommand({m}), loses)
        BY <1>2, <2>1, OneCode, DownSays
    <2>3. m \in KeysOwe'
        BY <1>6 DEF KeysOwe, MouseHolds
    <2>4. WithCommand({m}) \subseteq WithCommand(KeysOwe')
        BY <2>3 DEF WithCommand
    <2>5. KeysOwe \subseteq KeysOwe'
        BY <1>5, <2>3
    <2> HIDE DEF loses
    <2> QED BY <1>1, <1>2, <1>4, <2>2, <2>4, <2>5, OneCode, KeysStep
<1>7. CASE mouse'[m] = FALSE
    <2>1. SendAndLose(Event(m, FALSE), {})
        BY <1>1, <1>7 DEF Send
    <2> DEFINE down == {}
    <2>2. Says(WithCommand({m}), down, loses) /\ down \subseteq WithCommand(KeysOwe')
        BY <1>2, <2>1, OneCode, UpSays
    <2>3. KeysOwe \ WithCommand({m}) \subseteq KeysOwe'
        BY <1>5 DEF WithCommand
    <2> HIDE DEF loses, down
    <2> QED BY <1>1, <1>2, <1>4, <2>2, <2>3, OneCode, KeysStep
<1>8. mouse'[m] \in {TRUE, FALSE}
    BY <1>3
<1> QED BY <1>6, <1>7, <1>8

-----------------------------------------------------------------------------
(* The game. It takes the events of the queue: nothing is said.            *)
LEMMA PollStep == IInv /\ Poll => IInv'
<1> SUFFICES ASSUME IInv, Poll PROVE IInv'
    OBVIOUS
<1>1. /\ room' = Capacity
      /\ UNCHANGED <<preferences, isGrabbing, buttons, surface, pad, sticks, devices, held, lost>>
    BY DEF Poll
<1>2. QueueTypes
    BY Types DEF IInv
<1> DEFINE told == {}
           down == {}
           loses == {}
<1>3. Says(told, down, loses)
    BY <1>1, <1>2 DEF Says, QueueTypes
<1>4. /\ "control" \notin told
      /\ told \subseteq WithCommand(OtherCodes) /\ down \subseteq WithCommand(KeysOwe')
    OBVIOUS
<1>5. KeysOwe' = KeysOwe /\ KeyTypes'
    BY <1>1, Types, TypesSame, OwesSame DEF IInv
<1> HIDE DEF told, down, loses
<1> QED BY <1>1, <1>3, <1>4, <1>5, KeysStep

(* Codes that are lost because the game changes what it listens to.        *)
LEMMA ListenStep ==
    ASSUME NEW loses \in SUBSET Code, IInv, Lose(loses),
           UNCHANGED <<preferences, buttons, surface, pressed, leftShiftHeld, sticks, devices>>,
           isGrabbing' \in BOOLEAN, AMControllerPassthrough' \in BOOLEAN,
           ClickOwes \subseteq ClickOwes' \cup loses,
           PadOwes \subseteq PadOwes' \cup loses,
           SticksOwe \subseteq SticksOwe' \cup loses
    PROVE  IInv'
<1>1. PadTypes /\ QueueTypes
    BY Types DEF IInv
<1>2. PadTypes'
    BY <1>1 DEF PadTypes
<1>3. (isGrabbing \in BOOLEAN)'
    OBVIOUS
<1>4. SurfaceTypes' /\ StickTypes' /\ KeyTypes'
    BY Types, TypesSame DEF IInv
<1>5. /\ ButtonsOwe' = ButtonsOwe /\ SneakOwes' = SneakOwes /\ KeysOwe' = KeysOwe
      /\ LongOwes' = LongOwes
    BY OwesSame DEF surface
<1>6. Owed \subseteq Owed' \cup loses
    BY <1>5 DEF Owed
<1> DEFINE told == {}
           down == {}
<1>7. /\ Says(told, down, loses) /\ "control" \notin told
      /\ told \subseteq WithCommand(OtherCodes) /\ down \subseteq WithCommand(Owed')
    BY <1>1, LoseFacts
<1> HIDE DEF told, down
<1> QED BY <1>2, <1>3, <1>4, <1>6, <1>7, RestStep

(* What the buttons of the gamepad hold are codes of it.                   *)
LEMMA PadHoldsFacts == PadHolds \subseteq Code
<1>1. PadHolds \subseteq PadCodes
    BY PadCodeFacts DEF PadHolds
<1> QED BY <1>1, CodeNames

(* The game grabs the pointer, or lets go of it.                           *)
LEMMA GrabStep == IInv /\ nativeSetGrabbing => IInv'
<1> SUFFICES ASSUME IInv, nativeSetGrabbing PROVE IInv'
    OBVIOUS
<1> DEFINE clicked == IF clicks > 0 THEN {MouseButton} ELSE {}
           loses == clicked \cup PadHolds \cup UNION {StickHolds(s) : s \in Stick}
<1>1. /\ isGrabbing' = ~isGrabbing /\ Lose(loses)
      /\ UNCHANGED <<preferences, buttons, surface, pad, sticks, devices>>
    BY DEF nativeSetGrabbing
<1>2. loses \in SUBSET Code
    BY PadHoldsFacts, StickHoldsFacts, MouseFacts, CodeNames
<1>3. ClickOwes \subseteq loses /\ PadOwes \subseteq loses
    BY DEF ClickOwes, PadOwes
<1>4. SticksOwe \subseteq loses
    BY DEF SticksOwe
<1>5. AMControllerPassthrough' \in BOOLEAN /\ isGrabbing' \in BOOLEAN
    BY <1>1, Types DEF IInv, PadTypes, pad
<1>6. UNCHANGED <<pressed, leftShiftHeld>>
    BY <1>1 DEF pad
<1> HIDE DEF loses
<1> QED BY <1>1, <1>2, <1>3, <1>4, <1>5, <1>6, ListenStep

(* It takes the gamepad over, or gives it back.                            *)
LEMMA PassthroughStep == IInv /\ SetPassthrough => IInv'
<1> SUFFICES ASSUME IInv, SetPassthrough PROVE IInv'
    OBVIOUS
<1> DEFINE loses == PadHolds \cup StickHolds("thumbstick")
<1>1. /\ AMControllerPassthrough' = ~AMControllerPassthrough /\ Lose(loses)
      /\ UNCHANGED <<preferences, isGrabbing, buttons, surface, pressed, leftShiftHeld, sticks,
                     devices>>
    BY DEF SetPassthrough
<1>2. "thumbstick" \in Stick
    BY DEF Stick
<1>3. loses \in SUBSET Code
    BY <1>2, PadHoldsFacts, StickHoldsFacts
<1>4. PadOwes \subseteq loses
    BY DEF PadOwes
<1>5. ClickOwes' = ClickOwes
    BY <1>1, OwesSame DEF surface
<1>6. \A s \in Stick \ {"thumbstick"} : (Listens(s)' <=> Listens(s)) /\ StickHolds(s)' = StickHolds(s)
    BY <1>1 DEF Listens, StickHolds, sticks
<1>7. SticksOwe \subseteq SticksOwe' \cup loses
    BY <1>6 DEF SticksOwe
<1>8. AMControllerPassthrough' \in BOOLEAN /\ isGrabbing' \in BOOLEAN
    BY <1>1, Types DEF IInv, PadTypes
<1> HIDE DEF loses
<1> QED BY <1>1, <1>3, <1>4, <1>5, <1>7, <1>8, ListenStep

(* The app leaves the foreground, and pauses the game.                     *)
LEMMA PauseStep == IInv /\ pauseGameIfNeed => IInv'
<1> SUFFICES ASSUME IInv, pauseGameIfNeed PROVE IInv'
    OBVIOUS
<1>1. /\ Send(Click("escape"))
      /\ UNCHANGED <<preferences, isGrabbing, buttons, surface, pad, sticks, devices>>
    BY DEF pauseGameIfNeed
<1>2. QueueTypes
    BY Types DEF IInv
<1> PICK c \in OtherCodes : c = "escape"
    BY CodeNames
<1> DEFINE down == {}
           loses == {}
<1>3. Says(WithCommand({c}), down, loses) /\ down \subseteq WithCommand(KeysOwe')
    BY <1>1, <1>2, ClickSays
<1>4. KeysOwe' = KeysOwe /\ KeyTypes'
    BY <1>1, Types, TypesSame, OwesSame DEF IInv
<1> HIDE DEF down, loses
<1> QED BY <1>1, <1>3, <1>4, OneCode, KeysStep

-----------------------------------------------------------------------------
(* What is held is taken away. Such a step says nothing: it keeps the      *)
(* invariant if what is owed no longer is lost.                            *)
LEMMA TakenStep ==
    ASSUME NEW loses \in SUBSET Code, IInv, Lose(loses),
           leftShiftHeld' = leftShiftHeld,
           \A b \in Toggle : isToggleOn'[b] => isToggleOn[b],
           Owed \subseteq Owed' \cup loses,
           PrefTypes' /\ ButtonTypes' /\ PanInv',
           SurfaceTypes' /\ PadTypes' /\ StickTypes' /\ KeyTypes' /\ (isGrabbing \in BOOLEAN)'
    PROVE  IInv'
<1> DEFINE told == {}
           down == {}
<1>1. QueueTypes
    BY Types DEF IInv
<1>2. /\ Says(told, down, loses) /\ "control" \notin told
      /\ told \subseteq WithCommand(OtherCodes) /\ down \subseteq WithCommand(Owed')
    BY <1>1, LoseFacts
<1>3. Owed \ told \subseteq Owed' \cup loses
    OBVIOUS
<1> HIDE DEF told, down
<1> QED BY <1>2, <1>3, AnyStep

(* The other stick holds what it held when one is let go.                  *)
LEMMA StickGone ==
    ASSUME NEW s \in Stick, StickTypes, push' = [push EXCEPT ![s] = Centre],
           UNCHANGED <<lastDirection, isGrabbing, AMControllerPassthrough>>
    PROVE  StickTypes' /\ SticksOwe \subseteq SticksOwe' \cup StickHolds(s)
<1>1. StickTypes'
    BY DEF StickTypes
<1>2. \A x \in Stick : Listens(x)' <=> Listens(x)
    BY DEF Listens
<1>3. \A x \in Stick \ {s} : StickHolds(x)' = StickHolds(x)
    BY DEF StickHolds, StickTypes
<1>4. SticksOwe \subseteq SticksOwe' \cup StickHolds(s)
    BY <1>2, <1>3 DEF SticksOwe
<1> QED BY <1>1, <1>4

(* The controller goes, with its buttons and its stick.                    *)
LEMMA ControllerGone == IInv /\ controllerDisconnect => IInv'
<1> SUFFICES ASSUME IInv, controllerDisconnect PROVE IInv'
    OBVIOUS
<1> DEFINE loses == PadHolds \cup StickHolds("thumbstick")
<1>1. /\ pressed' = [g \in Pad |-> FALSE]
      /\ push' = [push EXCEPT !["thumbstick"] = Centre]
      /\ Lose(loses)
      /\ UNCHANGED <<preferences, isGrabbing, buttons, surface, leftShiftHeld,
                     AMControllerPassthrough, lastDirection, devices>>
    BY DEF controllerDisconnect
<1>2. PadTypes /\ StickTypes /\ "thumbstick" \in Stick
    BY Types DEF IInv, Stick
<1>3. loses \in SUBSET Code
    BY <1>2, PadHoldsFacts, StickHoldsFacts
<1>4. StickTypes' /\ SticksOwe \subseteq SticksOwe' \cup StickHolds("thumbstick")
    BY <1>1, <1>2, StickGone
<1>5. /\ ButtonsOwe' = ButtonsOwe /\ ClickOwes' = ClickOwes /\ LongOwes' = LongOwes
      /\ SneakOwes' = SneakOwes /\ KeysOwe' = KeysOwe
    BY <1>1, OwesSame DEF surface
<1>6. PadOwes \subseteq loses
    BY DEF PadOwes
<1>7. Owed \subseteq Owed' \cup loses
    BY <1>4, <1>5, <1>6 DEF Owed
<1>8. PadTypes'
    BY <1>1, <1>2 DEF PadTypes
<1>9. PrefTypes' /\ ButtonTypes' /\ SurfaceTypes' /\ KeyTypes' /\ (isGrabbing \in BOOLEAN)'
    BY <1>1, Types, TypesSame DEF IInv
<1>10. PanInv' /\ \A b \in Toggle : isToggleOn'[b] => isToggleOn[b]
    BY <1>1 DEF IInv, PanInv, buttons
<1> HIDE DEF loses
<1> QED BY <1>1, <1>3, <1>4, <1>7, <1>8, <1>9, <1>10, TakenStep

(* The mouse goes.                                                         *)
LEMMA MouseGone == IInv /\ mouseDisconnect => IInv'
<1> SUFFICES ASSUME IInv, mouseDisconnect PROVE IInv'
    OBVIOUS
<1>1. /\ mouse' = [m \in MouseButtons |-> FALSE] /\ Lose(MouseHolds)
      /\ UNCHANGED <<preferences, isGrabbing, buttons, surface, pad, sticks, typed,
                     textFieldActive>>
    BY DEF mouseDisconnect
<1>2. KeyTypes /\ QueueTypes
    BY Types DEF IInv
<1>3. KeyTypes'
    BY <1>1, <1>2 DEF KeyTypes
<1>4. MouseHolds \in SUBSET Code
    BY CodeNames DEF MouseHolds
<1>5. KeysOwe \subseteq KeysOwe' \cup MouseHolds
    BY <1>1 DEF KeysOwe
<1> DEFINE told == {}
           down == {}
<1>6. /\ Says(told, down, MouseHolds) /\ "control" \notin told
      /\ told \subseteq WithCommand(OtherCodes) /\ down \subseteq WithCommand(KeysOwe')
    BY <1>1, <1>2, <1>4, LoseFacts
<1>7. KeysOwe \ told \subseteq KeysOwe' \cup MouseHolds
    BY <1>5
<1> HIDE DEF told, down
<1> QED BY <1>1, <1>3, <1>6, <1>7, KeysStep

(* What a button owes, it holds.                                           *)
LEMMA OwedAreHeld == ButtonsOwe \subseteq ButtonsHold
<1> SUFFICES ASSUME NEW b \in Button, ButtonOwes(b) PROVE ButtonHolds(b)
    BY DEF ButtonsOwe, ButtonsHold
<1> QED BY DEF ButtonOwes, ButtonHolds

(* The buttons and the joystick are replaced.                              *)
LEMMA ControlsGone == IInv /\ loadCustomControls => IInv'
<1> SUFFICES ASSUME IInv, loadCustomControls PROVE IInv'
    OBVIOUS
<1> DEFINE loses == ButtonsHold \cup StickHolds("joystick")
<1>1. /\ finger' = [b \in Button |-> "up"] /\ isToggleOn' = [b \in Toggle |-> FALSE]
      /\ push' = [push EXCEPT !["joystick"] = Centre]
      /\ Lose(loses)
      /\ UNCHANGED <<preferences, isGrabbing, swipingButton, surface, pad, lastDirection, devices>>
    BY DEF loadCustomControls
<1>2. ButtonTypes /\ StickTypes /\ "joystick" \in Stick
    BY Types DEF IInv, Stick
<1>3. loses \in SUBSET Code
    BY <1>2, ButtonCode, StickHoldsFacts DEF ButtonsHold
<1>4. AMControllerPassthrough' = AMControllerPassthrough /\ leftShiftHeld' = leftShiftHeld
    BY <1>1 DEF pad
<1>5. StickTypes' /\ SticksOwe \subseteq SticksOwe' \cup StickHolds("joystick")
    BY <1>1, <1>2, <1>4, StickGone
<1>6. /\ ClickOwes' = ClickOwes /\ LongOwes' = LongOwes /\ PadOwes' = PadOwes
      /\ SneakOwes' = SneakOwes /\ KeysOwe' = KeysOwe
    BY <1>1, <1>4, OwesSame DEF surface
<1>7. Owed \subseteq Owed' \cup loses
    BY <1>5, <1>6, OwedAreHeld DEF Owed
<1>8. ButtonTypes' /\ PanInv' /\ \A b \in Toggle : isToggleOn'[b] => isToggleOn[b]
    BY <1>1, <1>2 DEF ButtonTypes, PanInv
<1>9. PrefTypes' /\ SurfaceTypes' /\ PadTypes' /\ KeyTypes' /\ (isGrabbing \in BOOLEAN)'
    BY <1>1, Types, TypesSame DEF IInv
<1> HIDE DEF loses
<1> QED BY <1>1, <1>3, <1>4, <1>5, <1>7, <1>8, <1>9, TakenStep

(* The settings change, in a press.                                        *)
LEMMA SettingsStep == IInv /\ updatePreferenceChanges => IInv'
<1> SUFFICES ASSUME IInv, updatePreferenceChanges PROVE IInv'
    OBVIOUS
<1> DEFINE loses == IF slideableHotbar' /\ LongCode(currentHotbarSlot)' # long
                    THEN {long} \ {"none", "nothing"} ELSE {}
<1>1. /\ slideableHotbar' \in BOOLEAN /\ enableMouseGestures' \in BOOLEAN /\ Lose(loses)
      /\ UNCHANGED <<using, isGrabbing, buttons, surface, pad, sticks, devices>>
    BY DEF updatePreferenceChanges
<1>2. PrefTypes'
    BY <1>1, Types DEF IInv, PrefTypes
<1>3. loses \in SUBSET Code
    BY Types, CodeNames DEF IInv, SurfaceTypes
<1>4. /\ clicks' = clicks /\ long' = long /\ leftShiftHeld' = leftShiftHeld
      /\ AMControllerPassthrough' = AMControllerPassthrough
    BY <1>1 DEF surface, gesture, pad
<1>5. LongOwes \subseteq LongOwes' \cup loses
    BY <1>4 DEF LongOwes
<1>6. /\ ButtonsOwe' = ButtonsOwe /\ ClickOwes' = ClickOwes /\ PadOwes' = PadOwes
      /\ SneakOwes' = SneakOwes /\ SticksOwe' = SticksOwe /\ KeysOwe' = KeysOwe
    BY <1>1, <1>4, OwesSame
<1>7. Owed \subseteq Owed' \cup loses
    BY <1>5, <1>6 DEF Owed
<1>8. /\ ButtonTypes' /\ SurfaceTypes' /\ PadTypes' /\ StickTypes' /\ KeyTypes'
      /\ (isGrabbing \in BOOLEAN)'
    BY <1>1, Types, TypesSame DEF IInv
<1>9. PanInv' /\ \A b \in Toggle : isToggleOn'[b] => isToggleOn[b]
    BY <1>1 DEF IInv, PanInv, buttons
<1> HIDE DEF loses
<1> QED BY <1>1, <1>2, <1>3, <1>4, <1>7, <1>8, <1>9, TakenStep

-----------------------------------------------------------------------------
(* In the beginning nothing is held.                                       *)
LEMMA InvInit == Init => IInv
<1> SUFFICES ASSUME Init PROVE IInv
    OBVIOUS
<1>1. TypeOK
    <2>1. PrefTypes /\ isGrabbing \in BOOLEAN
        BY DEF Init, PrefTypes
    <2>2. ButtonTypes
        BY DEF Init, ButtonTypes
    <2>3. SurfaceTypes
        <3>1. /\ touches = 0 /\ hotbarTouch = FALSE /\ shouldTriggerClick = FALSE
              /\ long = "none" /\ over = FALSE /\ currentHotbarSlot = NoSlot /\ clicks = 0
            BY DEF Init
        <3>2. touches \in 0 .. 2 /\ clicks \in 0 .. MaxClick
            BY <3>1
        <3>3. currentHotbarSlot \in Slot \cup {NoSlot}
            BY <3>1
        <3>4. long \in {"none", "nothing", "left", "q"} /\ over \in BOOLEAN
            BY <3>1
        <3>5. hotbarTouch \in BOOLEAN /\ shouldTriggerClick \in BOOLEAN
            BY <3>1
        <3> QED BY <3>2, <3>3, <3>4, <3>5 DEF SurfaceTypes
    <2>4. PadTypes /\ KeyTypes
        BY DEF Init, PadTypes, KeyTypes
    <2>5. StickTypes
        BY DEF Init, StickTypes
    <2>6. QueueTypes
        BY DEF Init, QueueTypes
    <2> QED BY <2>1, <2>2, <2>3, <2>4, <2>5, <2>6, Types
<1>2. PanInv /\ HeldIsOwed
    BY DEF Init, PanInv, HeldIsOwed
<1>3. ToggleShown
    BY DEF Init, ToggleShown
<1>4. SneakShown
    BY DEF Init, SneakShown
<1> QED BY <1>1, <1>2, <1>3, <1>4 DEF IInv

(* A step that changes nothing.                                            *)
LEMMA StutterStep == IInv /\ UNCHANGED vars => IInv'
<1> SUFFICES ASSUME IInv, UNCHANGED vars PROVE IInv'
    OBVIOUS
<1>1. UNCHANGED <<preferences, isGrabbing, buttons, surface, pad, sticks, devices, queue>>
    BY DEF vars
<1> DEFINE told == {}
           down == {}
           loses == {}
<1>2. Says(told, down, loses)
    BY <1>1, Types, SilentFacts DEF IInv
<1>3. /\ "control" \notin told
      /\ told \subseteq WithCommand(OtherCodes) /\ down \subseteq WithCommand(KeysOwe')
    OBVIOUS
<1>4. KeysOwe' = KeysOwe /\ KeyTypes'
    BY <1>1, Types, TypesSame, OwesSame DEF IInv
<1> HIDE DEF told, down, loses
<1> QED BY <1>1, <1>2, <1>3, <1>4, KeysStep

(* Every handler, and every step of the game, keeps the invariant.         *)
LEMMA InvStep == IInv /\ [Next]_vars => IInv'
<1> SUFFICES ASSUME IInv, [Next]_vars PROVE IInv'
    OBVIOUS
<1>1. CASE Buttons
    <2> PICK b \in Button :
            \/ executebtn_down(b) \/ CancelButton(b) \/ Pan(b)
            \/ executebtn_swipe(b) \/ EndSwipe(b)
            \/ \E isOutside \in BOOLEAN : executebtn_up(b, isOutside)
        BY <1>1 DEF Buttons
    <2>1. CASE executebtn_down(b)
        BY <2>1, DownStep
    <2>2. CASE CancelButton(b)
        BY <2>2, CancelStep
    <2>3. CASE Pan(b)
        BY <2>3, PanStep
    <2>4. CASE executebtn_swipe(b)
        BY <2>4, SwipeOnStep
    <2>5. CASE EndSwipe(b)
        BY <2>5, EndSwipeStep
    <2>6. ASSUME NEW isOutside \in BOOLEAN, executebtn_up(b, isOutside) PROVE IInv'
        BY <2>6, UpStep
    <2> QED BY <2>1, <2>2, <2>3, <2>4, <2>5, <2>6
<1>2. CASE Surface
    BY <1>2, BeganStep, MovedStep, EndedStep, TapStep, ReleaseStep, DoubleTapStep, LongStep,
       EndLongStep DEF Surface
<1>3. CASE Game
    BY <1>3, PollStep, GrabStep, PassthroughStep, PauseStep DEF Game
<1>4. ASSUME NEW g \in Pad, PadChanged(g) PROVE IInv'
    BY <1>4, PadChangedStep
<1>5. ASSUME NEW s \in Stick, StickMoved(s) PROVE IInv'
    BY <1>5, StickStep
<1>6. CASE CancelJoystick \/ ToggleTextField
    BY <1>6, CancelJoystickStep, TextFieldStep
<1>7. ASSUME NEW k \in Hardware, Press(k) PROVE IInv'
    BY <1>7, PressStep
<1>8. ASSUME NEW m \in MouseButtons, MouseChanged(m) PROVE IInv'
    BY <1>8, MouseStep
<1>9. CASE Taken
    BY <1>9, ControllerGone, MouseGone, ControlsGone, SettingsStep DEF Taken
<1>10. CASE UNCHANGED vars
    BY <1>10, StutterStep
<1> QED BY <1>1, <1>2, <1>3, <1>4, <1>5, <1>6, <1>7, <1>8, <1>9, <1>10 DEF Next

(* What the handlers keep, for every layout, map and queue: each code the  *)
(* game holds is one that the end of a touch will release, or is lost.     *)
THEOREM InvCorrect == Spec => []IInv
BY InvInit, InvStep, PTL DEF Spec

(* Every variable has its type.                                            *)
THEOREM TypeCorrect == Spec => []TypeOK
<1>1. IInv => TypeOK
    BY DEF IInv
<1> QED BY <1>1, InvCorrect, PTL

(* A key the game holds is held by the player, or its release was lost at  *)
(* one of the steps that say so: the handlers leave no other key stuck.    *)
THEOREM HeldIsWantedCorrect == Spec => []HeldIsWanted
<1>1. IInv => HeldIsWanted
    <2> SUFFICES ASSUME IInv PROVE HeldIsWanted
        OBVIOUS
    <2> DEFINE longHeld == {long} \ {"none", "nothing"}
               sticksHeld == UNION {StickHolds(s) : s \in Stick}
               keysHeld == {k \in Hardware : typed[k]} \cup MouseHolds
    <2>1. ButtonsOwe \subseteq ButtonsHold
        BY OwedAreHeld
    <2>2. Wanted = ButtonsHold \cup ClickOwes \cup longHeld \cup PadHolds \cup SneakOwes
                     \cup sticksHeld \cup keysHeld
        BY DEF Wanted, ClickOwes, SneakOwes
    <2>3. LongOwes \subseteq longHeld
        BY DEF LongOwes
    <2>4. PadOwes \subseteq PadHolds
        BY DEF PadOwes
    <2>5. SticksOwe \subseteq sticksHeld
        BY DEF SticksOwe
    <2>6. KeysOwe \subseteq keysHeld
        BY DEF KeysOwe
    <2> HIDE DEF longHeld, sticksHeld, keysHeld
    <2>7. Owed \subseteq Wanted
        BY <2>1, <2>2, <2>3, <2>4, <2>5, <2>6 DEF Owed
    <2>8. held \subseteq WithCommand(Owed \cup lost)
        BY DEF IInv, HeldIsOwed
    <2> QED BY <2>7, <2>8 DEF HeldIsWanted, WithCommand
<1> QED BY <1>1, InvCorrect, PTL

(* A latched button that looks pressed holds its keys, if nothing else     *)
(* sends them and none of them is lost.                                    *)
THEOREM ToggleShownCorrect == Spec => []ToggleShown
<1>1. IInv => ToggleShown
    BY DEF IInv
<1> QED BY <1>1, InvCorrect, PTL

(* The latch of the gamepad is what the game holds, if nothing else sends  *)
(* shift and it is not lost.                                               *)
THEOREM SneakShownCorrect == Spec => []SneakShown
<1>1. IInv => SneakShown
    BY DEF IInv
<1> QED BY <1>1, InvCorrect, PTL
=============================================================================
