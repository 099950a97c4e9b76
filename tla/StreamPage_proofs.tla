-------------------------- MODULE StreamPage_proofs --------------------------
(***************************************************************************)
(* Theorems of StreamPage: the timeline the page plays, for every clip,    *)
(* every content of its input fields and every limit.                      *)
(*                                                                         *)
(* An invariant of the page is an invariant of its engine, kept by every   *)
(* operation on engines; the frames of a tick and the listeners of an      *)
(* event are counted by sets of engines that are closed under one step.    *)
(***************************************************************************)
EXTENDS StreamPage, StreamEngine_proofs

\* Some theorems are about pages whose fields hold what they ask for: their
\* minimum in the markup (min="20" and min="1" in index.html), and a delay
\* of at least one frame.
Fed == \A c \in Configs : c.n \in Nat \ {0}
Transitioned == \A c \in Configs : c.m \in Nat \ {0}
Delayed == \A c \in Configs : c.d = NaN \/ c.d \in Nat \ {0}

\* After an emptied field one top-up reaches the cursor again.
Refillable ==
  /\ \A c \in Configs : c.n = NaN \/ c.n \in Nat \ {0}
  /\ HistoryMax < TopUpGuard * IdleLen

Bounded(e) == \E n \in LongestAhead : Lookahead(e) <= n

\* An engine of the page between two operations, and before its next top-up.
Ready ==
  {e \in Engines :
     /\ e.config \in Configs
     /\ Whole(e.buffer) /\ Ordered(e.buffer)
     /\ Transitioned => Blended(e.buffer)
     /\ Bounded(e)
     /\ Fed => Lookahead(e) >= 0}

Sound == {e \in Ready : Fed => Lookahead(e) >= 1}

LEMMA AheadOf ==
  ASSUME NEW e \in Engines
  PROVE  /\ HasCurrent(e) <=> Lookahead(e) >= 1
         /\ Lookahead(e) \in Int
         /\ HasCurrent(e) => /\ e.cursor + 1 \in 1 .. Len(e.buffer)
                             /\ Current(e) \in Frame
BY FieldsOf DEF HasCurrent, Lookahead, Current

LEMMA FieldsHold ==
  \A c \in Configs : c \in [n : Numbers, m : Numbers, d : Numbers]
BY ConfigAssumption DEF Numbers

\* What is ahead is within one of the bounds.
LEMMA LongestOf ==
  /\ LongestAhead \subseteq Int
  /\ 0 \in LongestAhead
  /\ \A c \in Configs : c.n \in Nat => c.n - 1 + IdleLen \in LongestAhead
  /\ \A c \in Configs, clip \in Clips :
       c.d \in Nat /\ c.m \in Nat => c.d + Larger(ClipLen[clip], c.m) \in LongestAhead
<1>1. \A c \in Configs : /\ c.n # NaN <=> c.n \in Nat
                         /\ c.m # NaN <=> c.m \in Nat
                         /\ c.d # NaN <=> c.d \in Nat
  BY FieldsHold, NaNAssumption DEF Numbers
<1>2. IdleLen \in Nat \ {0} /\ \A clip \in Clips : ClipLen[clip] \in Nat \ {0}
  BY Lens
<1>3. 0 \in LongestAhead
  BY DEF LongestAhead
<1>4. \A c \in Configs : c.n \in Nat => c.n - 1 + IdleLen \in LongestAhead
  BY <1>1 DEF LongestAhead, IdleLen
<1>5. \A c \in Configs, clip \in Clips :
        c.d \in Nat /\ c.m \in Nat => c.d + Larger(ClipLen[clip], c.m) \in LongestAhead
  BY <1>1 DEF LongestAhead
<1>6. LongestAhead \subseteq Int
  <2> SUFFICES ASSUME NEW x \in LongestAhead PROVE x \in Int
    OBVIOUS
  <2>1. CASE x = 0
    BY <2>1
  <2>2. ASSUME NEW c \in Configs, c.n # NaN, x = c.n - 1 + ClipLen[Idle] PROVE x \in Int
    BY <1>1, <1>2, <2>2 DEF IdleLen
  <2>3. ASSUME NEW c \in Configs, c.d # NaN, c.m # NaN, NEW clip \in Clips,
               x = c.d + Larger(ClipLen[clip], c.m)
        PROVE  x \in Int
    <3>1. Larger(ClipLen[clip], c.m) \in Nat /\ c.d \in Nat
      BY <1>1, <1>2, <2>3 DEF Larger
    <3> QED BY <2>3, <3>1
  <2> QED BY <2>1, <2>2, <2>3 DEF LongestAhead
<1> QED BY <1>3, <1>4, <1>5, <1>6

(***************************************************************************)
(* Every operation leads from a sound engine to a sound one                *)
(***************************************************************************)

\* Time owed, tags waited for and the fields are not part of the timeline.
LEMMA SoundSame ==
  ASSUME NEW e \in Engines, NEW g \in Engines, g.buffer = e.buffer, g.cursor = e.cursor,
         g.config \in Configs
  PROVE  /\ e \in Ready => g \in Ready
         /\ e \in Sound => g \in Sound
BY DEF Ready, Sound, Lookahead, Bounded

LEMMA SoundTopUp ==
  ASSUME NEW e \in Ready
  PROVE  TopUp(e) \in Sound
<1> DEFINE g == TopUp(e)
           n == e.config.n
<1>1. /\ e \in Engines /\ e.config \in Configs /\ Whole(e.buffer) /\ Ordered(e.buffer)
      /\ Transitioned => Blended(e.buffer)
      /\ Bounded(e) /\ (Fed => Lookahead(e) >= 0)
  BY DEF Ready
<1>2. /\ Continued(e, g, Len(e.buffer))
      /\ \/ Lookahead(g) = Lookahead(e)
         \/ n \in Nat /\ Lookahead(g) <= n - 1 + IdleLen
      /\ n \in Nat \ {0} => \/ Lookahead(g) >= 1
                            \/ Lookahead(e) < 0
  BY <1>1, TopUpContinues
<1> HIDE DEF g
<1>3. /\ g \in Engines /\ g.config = e.config
      /\ Whole(g.buffer) /\ Ordered(g.buffer)
      /\ Transitioned => Blended(g.buffer)
  BY <1>1, <1>2 DEF Continued, Transitioned
<1>4. Bounded(g)
  BY <1>1, <1>2, LongestOf DEF Bounded
<1>5. Fed => Lookahead(g) >= 1
  <2> SUFFICES ASSUME Fed PROVE Lookahead(g) >= 1
    OBVIOUS
  <2>1. n \in Nat \ {0} /\ Lookahead(e) >= 0 /\ Lookahead(e) \in Int
    BY <1>1, LookaheadInt DEF Fed
  <2> QED BY <1>2, <2>1
<1>6. Lookahead(g) \in Int
  BY <1>3, LookaheadInt
<1>7. g \in Ready
  BY <1>1, <1>3, <1>4, <1>5, <1>6 DEF Ready
<1> QED BY <1>5, <1>7 DEF g, Sound

LEMMA SoundAdvance ==
  ASSUME NEW e \in Sound
  PROVE  Advance(e) \in Ready
<1> DEFINE g == Advance(e)
<1>1. /\ e \in Engines /\ e.config \in Configs /\ Whole(e.buffer) /\ Ordered(e.buffer)
      /\ Transitioned => Blended(e.buffer)
      /\ Bounded(e) /\ (Fed => Lookahead(e) >= 1)
  BY DEF Ready, Sound
<1>2. PICK gone \in Nat : Advanced(e, g, gone)
  BY <1>1, AdvanceMoves
<1> HIDE DEF g
<1>3. /\ g \in Engines /\ g.config = e.config
      /\ g.cursor = e.cursor + 1 - gone
      /\ Len(g.buffer) = IF gone <= Len(e.buffer) THEN Len(e.buffer) - gone ELSE 0
      /\ Whole(g.buffer) /\ Ordered(g.buffer)
      /\ Transitioned => Blended(g.buffer)
  BY <1>1, <1>2 DEF Advanced
<1>4. /\ Len(e.buffer) \in Nat /\ e.cursor \in Nat /\ g.cursor \in Nat
  BY <1>1, <1>3, FieldsOf
<1>5. CASE gone <= Len(e.buffer)
  <2>1. Lookahead(g) = Lookahead(e) - 1
    <3>1. g.cursor = e.cursor + 1 - gone
      BY <1>3
    <3>2. Len(g.buffer) = Len(e.buffer) - gone
      <4>1. Len(g.buffer) = IF gone <= Len(e.buffer) THEN Len(e.buffer) - gone ELSE 0
        BY <1>3
      <4> QED BY <1>5, <4>1
    <3> QED BY <1>4, <3>1, <3>2, SMTT(20) DEF Lookahead
  <2>2. Bounded(g)
    <3>1. PICK n \in LongestAhead : Lookahead(e) <= n
      BY <1>1 DEF Bounded
    <3>2a. n \in Int
      BY LongestOf
    <3>2b. Lookahead(e) \in Int
      BY <1>1, LookaheadInt
    <3>2. n \in Int /\ Lookahead(e) \in Int
      BY <3>2a, <3>2b
    <3>3. Lookahead(g) <= n
      BY <2>1, <3>1, <3>2
    <3> QED BY <3>3 DEF Bounded
  <2>3. Fed => Lookahead(g) >= 0
    BY <1>1, <2>1, LookaheadInt
  <2> QED BY <1>1, <1>3, <2>2, <2>3 DEF Ready, g
<1>6. CASE ~(gone <= Len(e.buffer))
  <2>1. Lookahead(g) = 0 - g.cursor /\ Lookahead(g) <= 0
    BY <1>3, <1>4, <1>6 DEF Lookahead
  <2>2. Bounded(g)
    BY <2>1, LongestOf DEF Bounded
  <2>3. ~Fed
    <3>1. Lookahead(e) < 1
      BY <1>3, <1>4, <1>6 DEF Lookahead
    <3> QED BY <1>1, <1>4, <3>1 DEF Lookahead
  <2> QED BY <1>1, <1>3, <2>2, <2>3 DEF Ready, g
<1> QED BY <1>5, <1>6

LEMMA SoundSchedule ==
  ASSUME NEW e \in Sound, NEW clip \in Clips
  PROVE  Schedule(e, clip) \in Sound
<1> DEFINE g == Schedule(e, clip)
           start == e.cursor + e.config.d
<1>1. /\ e \in Engines /\ e.config \in Configs /\ Whole(e.buffer) /\ Ordered(e.buffer)
      /\ Transitioned => Blended(e.buffer)
  BY DEF Ready, Sound
<1>2. CASE ~Accepts(e)
  BY <1>2, ScheduleRefused
<1>3. CASE Accepts(e)
  <2>1. /\ e.config.d \in Nat /\ e.config.m \in Nat
        /\ Continued(e, g, start)
        /\ Len(g.buffer) = start + Larger(ClipLen[clip], e.config.m)
        /\ Len(g.buffer) > start
    BY <1>1, <1>3, ScheduleContinues
  <2> HIDE DEF g
  <2>2. /\ g \in Engines /\ g.config = e.config /\ g.cursor = e.cursor
        /\ Whole(g.buffer) /\ Ordered(g.buffer)
        /\ Transitioned => Blended(g.buffer)
    BY <1>1, <2>1 DEF Continued, Transitioned
  <2>3. /\ e.cursor \in Nat /\ Larger(ClipLen[clip], e.config.m) \in Nat
        /\ Len(g.buffer) \in Nat
    BY <1>1, <2>1, <2>2, FieldsOf, Lens DEF Larger
  <2>4. /\ Lookahead(g) = e.config.d + Larger(ClipLen[clip], e.config.m)
        /\ Lookahead(g) >= 1
    BY <2>1, <2>2, <2>3 DEF Lookahead
  <2>5. Bounded(g)
    <3>1. e.config.d + Larger(ClipLen[clip], e.config.m) \in LongestAhead
      BY <1>1, <2>1, LongestOf
    <3>2. Lookahead(g) <= Lookahead(g)
      BY <2>2, LookaheadInt
    <3> QED BY <2>4, <3>1, <3>2 DEF Bounded
  <2>6. Lookahead(g) >= 0
    BY <2>2, <2>4, LookaheadInt
  <2> QED BY <1>1, <2>2, <2>4, <2>5, <2>6 DEF Ready, Sound, g
<1> QED BY <1>2, <1>3

LEMMA BlankReady ==
  ASSUME NEW config \in Configs, NEW a \in 0 .. BacklogMax * Sub
  PROVE  [Blank(config) EXCEPT !.acc = a] \in Ready /\ Blank(config) \in Ready
<1> DEFINE e == [Blank(config) EXCEPT !.acc = a]
<1>1. /\ <<>> \in Seq(Frame) /\ Len(<<>>) = 0
      /\ HistoryMax \in Nat /\ BacklogMax * Sub \in Nat
  BY LimitAssumption
<1>2. IsFiniteSet({}) /\ NoneEmitted \in [tag : Nat, src : Source \cup {"none"}]
  BY FS_EmptySet DEF NoneEmitted
<1>3. e \in Engines /\ Blank(config) \in Engines
  <2>1. /\ config \in [n : Numbers, m : Numbers, d : Numbers]
        /\ 0 \in 0 .. HistoryMax /\ 0 \in 0 .. BacklogMax * Sub
    BY <1>1, FieldsHold
  <2> DEFINE b == Blank(config)
  <2>2. b \in Engines
    BY <1>1, <1>2, <2>1 DEF Blank, Engines
  <2> HIDE DEF b
  <2>3. [b EXCEPT !.acc = a] \in Engines
    BY <2>2 DEF Engines
  <2> QED BY <2>2, <2>3 DEF b
<1>4. /\ e.buffer = <<>> /\ e.cursor = 0 /\ e.config = config
      /\ Blank(config).buffer = <<>> /\ Blank(config).cursor = 0
      /\ Blank(config).config = config
  BY DEF Blank
<1>5. Whole(<<>>) /\ Ordered(<<>>) /\ Blended(<<>>)
  BY <1>1 DEF Whole, Ordered, Blended
<1>6. Lookahead(e) = 0
  BY <1>1, <1>4 DEF Lookahead
<1>7. Bounded(e)
  BY <1>6, LongestOf DEF Bounded
<1> HIDE DEF e
<1>8. e \in Ready
  BY <1>3, <1>4, <1>5, <1>6, <1>7 DEF Ready
<1> QED BY <1>3, <1>4, <1>8, SoundSame DEF e

(***************************************************************************)
(* A tick                                                                  *)
(***************************************************************************)

\* Where the frame x, on screen k frames before f's, has its successors: those
\* of its tag that are still to come are in their place and as much of the
\* action as x was, for a tag that cannot be given away (the announced one);
\* whatever the tag, the frame on screen is k frames further or in another
\* segment begun since.
InPlace(f, x, k) ==
  /\ f.emitted.tag = x.tag =>
       \A j \in f.cursor + 1 .. Len(f.buffer) :
         f.buffer[j].tag = x.tag =>
           /\ f.buffer[j].at = x.at + k + (j - (f.cursor + 1))
           /\ x.src = "action" => f.buffer[j].src = "action"
  /\ \/ Current(f).at < k
     \/ Current(f).tag = x.tag /\ Current(f).at = x.at + k

Played(e, f, k) ==
  /\ f.config = e.config /\ f.emitted = e.emitted /\ f.held = e.held
  /\ k = 0 => f.cursor = e.cursor
  /\ Refillable /\ e.config.n # NaN /\ k # 0 => HasCurrent(f)
  /\ Fed => InPlace(f, Current(e), k)

\* x moves one frame on: f is advanced to g, g topped up to h.
LEMMA NextInPlace ==
  ASSUME NEW f \in Sound, NEW x \in Frame, NEW k \in Nat, InPlace(f, x, k), Fed
  PROVE  InPlace(TopUp(Advance(f)), x, k + 1)
<1> DEFINE g == Advance(f)
           h == TopUp(g)
<1>1. f \in Engines /\ Lookahead(f) >= 1 /\ Whole(f.buffer) /\ Ordered(f.buffer)
  BY DEF Sound, Ready
<1>2. g \in Ready /\ h \in Sound
  BY SoundAdvance, SoundTopUp
<1>3. PICK gone \in Nat : Advanced(f, g, gone)
  BY <1>1, AdvanceMoves
<1>4. /\ Continued(g, h, Len(g.buffer))
      /\ g.buffer = <<>> /\ h.buffer # <<>> => h.buffer[1].at = 0
  BY <1>2, TopUpContinues DEF Ready
<1> HIDE DEF g, h
<1>5. /\ g \in Engines /\ h \in Engines /\ Whole(h.buffer)
      /\ HasCurrent(f) /\ HasCurrent(h) /\ Lookahead(g) >= 0
  BY <1>1, <1>2, AheadOf DEF Sound, Ready
<1>6. /\ Len(f.buffer) \in Nat /\ Len(g.buffer) \in Nat /\ Len(h.buffer) \in Nat
      /\ f.cursor \in Nat /\ g.cursor \in Nat
      /\ f.buffer \in Seq(Frame) /\ g.buffer \in Seq(Frame) /\ h.buffer \in Seq(Frame)
  BY <1>1, <1>5, FieldsOf
<1>7. /\ g.cursor = f.cursor + 1 - gone /\ g.emitted = f.emitted
      /\ \A i \in 1 .. Len(g.buffer) :
           g.buffer[i] = f.buffer[i + gone] /\ i + gone \in 1 .. Len(f.buffer)
      /\ Len(g.buffer) = IF gone <= Len(f.buffer) THEN Len(f.buffer) - gone ELSE 0
  BY <1>3 DEF Advanced
<1>8. /\ h.cursor = g.cursor /\ h.emitted = f.emitted
      /\ Len(g.buffer) <= Len(h.buffer)
      /\ \A i \in 1 .. Len(g.buffer) : h.buffer[i] = g.buffer[i]
      /\ \A i \in 1 .. Len(h.buffer) :
           i <= Len(g.buffer) \/ h.buffer[i].tag \notin KnownTags(g)
  <2>1. \A i \in 1 .. Len(g.buffer) : i <= Len(h.buffer) /\ h.buffer[i] = g.buffer[i]
    BY <1>4, <1>6 DEF Continued
  <2>2. Len(g.buffer) <= Len(h.buffer)
    <3>1. CASE Len(g.buffer) = 0
      BY <1>6, <3>1
    <3>2. CASE Len(g.buffer) # 0
      <4>1. Len(g.buffer) \in 1 .. Len(g.buffer)
        BY <1>6, <3>2
      <4> QED BY <2>1, <4>1
    <3> QED BY <3>1, <3>2
  <2> QED BY <1>4, <1>7, <2>1, <2>2 DEF Continued
<1>9. ASSUME f.emitted.tag = x.tag,
             NEW j \in h.cursor + 1 .. Len(h.buffer), h.buffer[j].tag = x.tag
      PROVE  /\ h.buffer[j].at = x.at + (k + 1) + (j - (h.cursor + 1))
             /\ x.src = "action" => h.buffer[j].src = "action"
  <2>1. j \in 1 .. Len(h.buffer)
    BY <1>6, <1>8
  <2>2. j <= Len(g.buffer)
    <3>1. x.tag \in KnownTags(g)
      BY <1>7, <1>9 DEF KnownTags
    <3> QED BY <1>8, <1>9, <2>1, <3>1
  <2> DEFINE i == j + gone
  <2>3. h.buffer[j] = f.buffer[i] /\ i \in 1 .. Len(f.buffer)
    BY <1>7, <1>8, <2>1, <2>2
  <2>4a. /\ h.cursor = f.cursor + 1 - gone /\ f.cursor \in Nat /\ h.cursor \in Nat
         /\ j \in Int /\ h.cursor + 1 <= j /\ i \in Int /\ i <= Len(f.buffer)
    BY <1>6, <1>7, <1>8, <2>1, <2>3
  <2>4. /\ i \in f.cursor + 1 .. Len(f.buffer)
        /\ i - (f.cursor + 1) = (j - (h.cursor + 1)) + 1
    <3>1. i = j + gone /\ gone \in Nat /\ Len(f.buffer) \in Nat
      BY <1>6
    <3>2. i >= f.cursor + 1 /\ i - (f.cursor + 1) = (j - (h.cursor + 1)) + 1
      <4> DEFINE a == f.cursor
                 b == h.cursor
      <4>1. b = a + 1 - gone /\ a \in Nat /\ b \in Nat /\ j \in Int /\ b + 1 <= j
        BY <2>4a
      <4> HIDE DEF a, b, i
      <4>2. j >= a + 2 - gone
        BY <3>1, <4>1
      <4>3. j + gone >= a + 1 /\ (j + gone) - (a + 1) = (j - (b + 1)) + 1
        BY <3>1, <4>1, <4>2
      <4> QED BY <3>1, <4>3 DEF a, b
    <3> HIDE DEF i
    <3>3. i \in Int /\ i <= Len(f.buffer) /\ f.cursor \in Nat
      BY <2>4a
    <3> QED BY <3>1, <3>2, <3>3
  <2> HIDE DEF i
  <2>5. /\ f.buffer[i].at = x.at + k + (i - (f.cursor + 1))
        /\ x.src = "action" => f.buffer[i].src = "action"
    BY <1>9, <2>3, <2>4 DEF InPlace
  <2>6. x.at \in Nat /\ j \in Int /\ h.cursor \in Int
    BY <1>6, <1>8 DEF Frame
  <2>7. x.at + k + (i - (f.cursor + 1)) = x.at + (k + 1) + (j - (h.cursor + 1))
    <3> DEFINE u == i - (f.cursor + 1)
               v == j - (h.cursor + 1)
    <3>1a. u = v + 1
      BY <2>4
    <3>1b. u \in Int
      BY <2>4a
    <3>1c. v \in Int
      BY <2>4a
    <3>1. u = v + 1 /\ u \in Int /\ v \in Int /\ x.at \in Nat
      BY <3>1a, <3>1b, <3>1c, <2>6
    <3> HIDE DEF u, v
    <3>2. x.at + k + u = x.at + (k + 1) + v
      BY <3>1, SMTT(20)
    <3> QED BY <3>2 DEF u, v
  <2> QED BY <2>3, <2>5, <2>7
\* The frame shown next follows the one shown in its segment, or begins one.
<1>10. \/ Current(h).at = 0
       \/ Current(h).tag = Current(f).tag /\ Current(h).at = Current(f).at + 1
  <2> DEFINE c == f.cursor + 1
             i == h.cursor + 1
  <2>1. /\ c \in 1 .. Len(f.buffer) /\ Current(f) = f.buffer[c] /\ Current(f) \in Frame
        /\ i \in 1 .. Len(h.buffer) /\ Current(h) = h.buffer[i] /\ Current(h) \in Frame
        /\ i + gone = c + 1
    <3>1. i + gone = c + 1
      BY <1>6, <1>7, <1>8
    <3>2. f \in Engines
      BY <1>1
    <3>3. c \in 1 .. Len(f.buffer) /\ Current(f) \in Frame
      BY <1>5, <3>2, AheadOf
    <3>4. i \in 1 .. Len(h.buffer) /\ Current(h) \in Frame
      BY <1>5, AheadOf
    <3>5. Current(f) = f.buffer[c] /\ Current(h) = h.buffer[i]
      BY DEF Current
    <3> QED BY <3>1, <3>3, <3>4, <3>5
  <2> HIDE DEF c, i
  <2>2. CASE i <= Len(g.buffer)
    <3>1. h.buffer[i] = f.buffer[c + 1] /\ c + 1 \in 1 .. Len(f.buffer)
      BY <1>7, <1>8, <2>1, <2>2
    <3>2. /\ f.buffer[c].tag = f.buffer[c + 1].tag =>
               f.buffer[c + 1].at - f.buffer[c].at = (c + 1) - c
          /\ f.buffer[c].tag # f.buffer[c + 1].tag => f.buffer[c + 1].at = 0
      BY <1>1, <2>1, <3>1 DEF Whole
    <3>3. f.buffer[c].at \in Nat /\ f.buffer[c + 1].at \in Nat
      BY <2>1, <3>1 DEF Frame
    <3>4. Current(f) = f.buffer[c] /\ Current(h) = f.buffer[c + 1]
      BY <2>1, <3>1
    <3>5. CASE f.buffer[c].tag = f.buffer[c + 1].tag
      <4>1. f.buffer[c + 1].at - f.buffer[c].at = (c + 1) - c /\ c \in Int
        BY <2>1, <3>2, <3>5
      <4> DEFINE p == f.buffer[c].at
                 q == f.buffer[c + 1].at
      <4>2. p \in Nat /\ q \in Nat /\ q - p = (c + 1) - c
        BY <3>3, <4>1
      <4> HIDE DEF p, q
      <4>3. q = p + 1
        BY <4>1, <4>2
      <4>4. Current(h).at = Current(f).at + 1
        BY <3>4, <4>3 DEF p, q
      <4> QED BY <3>4, <3>5, <4>4
    <3> QED BY <3>2, <3>4, <3>5
  <2>3. CASE ~(i <= Len(g.buffer))
    <3>1. i = Len(g.buffer) + 1
      <4>1. Len(g.buffer) >= g.cursor
        BY <1>5, <1>6 DEF Lookahead
      <4>2. g.cursor = h.cursor /\ i = h.cursor + 1
        BY <1>8 DEF i
      <4>3. Len(g.buffer) \in Nat /\ g.cursor \in Nat
        BY <1>6
      <4> HIDE DEF i
      <4> QED BY <2>3, <4>1, <4>2, <4>3
    <3>2. CASE i = 1
      <4>1. Len(g.buffer) = 0 /\ Len(h.buffer) >= 1
        BY <1>6, <2>1, <3>1, <3>2
      <4>2. g.buffer = <<>> /\ h.buffer # <<>>
        BY <1>6, <4>1, EmptySeq
      <4> QED BY <1>4, <2>1, <3>2, <4>2
    <3>3. CASE i # 1
      <4>1. i - 1 \in 1 .. Len(g.buffer) /\ i - 1 \in 1 .. Len(h.buffer) /\ i = (i - 1) + 1
        BY <1>6, <1>8, <2>1, <3>1, <3>3
      <4>2. h.buffer[i - 1].tag \in KnownTags(g)
        BY <1>8, <4>1 DEF KnownTags
      <4>3. h.buffer[i].tag \notin KnownTags(g)
        BY <1>8, <2>1, <2>3
      <4>4. h.buffer[i].at = 0
        BY <1>5, <2>1, <4>1, <4>2, <4>3 DEF Whole
      <4> QED BY <2>1, <4>4
    <3> QED BY <3>2, <3>3
  <2> QED BY <2>2, <2>3
<1>11. \/ Current(h).at < k + 1
       \/ Current(h).tag = x.tag /\ Current(h).at = x.at + (k + 1)
  <2>1. Current(f).at \in Nat /\ x.at \in Nat
    BY <1>1, <1>5, AheadOf DEF Frame
  <2>2. \/ Current(f).at < k
        \/ Current(f).tag = x.tag /\ Current(f).at = x.at + k
    BY DEF InPlace
  <2> QED BY <1>10, <2>1, <2>2
<1>12. InPlace(h, x, k + 1)
  BY <1>8, <1>9, <1>11 DEF InPlace
<1> QED BY <1>12 DEF h, g

LEMMA TickPlays ==
  ASSUME NEW e \in Sound, NEW elapsed \in Nat
  PROVE  LET p == Play(e, elapsed)
         IN  /\ p \in Sound
             /\ \E k \in 0 .. StepsMax : Played(e, p, k) /\ (k * Sub <= e.acc + elapsed)
<1> DEFINE p == Play(e, elapsed)
           S == [k \in 0 .. StepsMax |->
                   {f \in Sound : Played(e, f, k) /\ (k = 0 => f = e)}]
<1>1. StepsMax \in Nat \ {0} /\ e \in Engines
  BY LimitAssumption DEF Sound, Ready
<1>2. e \in S[0]
  <2>1. Fed => HasCurrent(e) /\ Current(e) \in Frame
    BY <1>1, AheadOf DEF Sound
  <2>2. ASSUME Fed PROVE InPlace(e, Current(e), 0)
    <3> DEFINE x == Current(e)
               c == e.cursor + 1
    <3>1. /\ c \in 1 .. Len(e.buffer) /\ x = e.buffer[c] /\ x \in Frame
          /\ Whole(e.buffer) /\ Ordered(e.buffer)
      BY <1>1, <2>1, <2>2, AheadOf DEF Current, Sound, Ready
    <3>2. ASSUME NEW j \in c .. Len(e.buffer), e.buffer[j].tag = x.tag
          PROVE  /\ e.buffer[j].at = x.at + 0 + (j - c)
                 /\ x.src = "action" => e.buffer[j].src = "action"
      <4> HIDE DEF c, x
      <4>1. j \in 1 .. Len(e.buffer) /\ c <= j
        BY <3>1, <3>2
      <4>2. e.buffer[j].at - e.buffer[c].at = j - c
        BY <3>1, <3>2, <4>1 DEF Whole
      <4>3. x.src = "action" => e.buffer[j].src = "action"
        BY <3>1, <3>2, <4>1 DEF Ordered
      <4>4. e.buffer[j].at \in Nat /\ x.at \in Nat
        <5>1. e.buffer[j] \in Frame
          BY <1>1, <4>1, FieldsOf
        <5> QED BY <3>1, <5>1 DEF Frame
      <4>5. e.buffer[c].at = x.at /\ j \in Int /\ c \in Int
        BY <3>1, <4>1
      <4>6. e.buffer[j].at = x.at + 0 + (j - c)
        BY <4>2, <4>4, <4>5
      <4> QED BY <4>3, <4>6
    <3>3. x.tag = x.tag /\ x.at = x.at + 0
      BY <3>1 DEF Frame
    <3> QED BY <3>2, <3>3 DEF InPlace
  <2>3. Played(e, e, 0)
    BY <2>2 DEF Played
  <2> QED BY <1>1, <2>3
<1>3. \A k \in 0 .. StepsMax - 1 : \A f \in S[k] : TopUp(Advance(f)) \in S[k + 1]
  <2> SUFFICES ASSUME NEW k \in 0 .. StepsMax - 1, NEW f \in S[k]
               PROVE  TopUp(Advance(f)) \in S[k + 1]
    OBVIOUS
  <2> DEFINE g == Advance(f)
             h == TopUp(g)
  <2>1. k \in Nat /\ k \in 0 .. StepsMax /\ k + 1 \in 0 .. StepsMax /\ k + 1 # 0
    BY <1>1
  <2>2. f \in Sound /\ f \in Engines /\ Played(e, f, k)
    BY <2>1 DEF Sound, Ready
  <2>3. g \in Ready /\ h \in Sound
    BY <2>2, SoundAdvance, SoundTopUp
  <2>4. PICK gone \in Nat : Advanced(f, g, gone)
    BY <2>2, AdvanceMoves
  <2>5. g \in Engines /\ h \in Engines
    BY <2>3 DEF Ready, Sound
  <2>6. /\ Continued(g, h, Len(g.buffer))
        /\ g.config.n \in Nat \ {0} =>
             \/ Lookahead(h) >= 1
             \/ Lookahead(h) >= Lookahead(g) + (TopUpGuard * IdleLen)
    BY <2>5, TopUpContinues
  <2>7. ASSUME Fed PROVE InPlace(h, Current(e), k + 1)
    <3>1. Current(e) \in Frame
      BY <1>1, <2>7, AheadOf DEF Sound
    <3>2. InPlace(f, Current(e), k)
      BY <2>2, <2>7 DEF Played
    <3> QED BY <2>1, <2>2, <2>7, <3>1, <3>2, NextInPlace
  <2> HIDE DEF g, h
  <2>8. h.config = e.config /\ h.emitted = e.emitted /\ h.held = e.held /\ g.config = e.config
    BY <2>2, <2>4, <2>6 DEF Advanced, Continued, Played
  <2>9. ASSUME Refillable, e.config.n # NaN PROVE HasCurrent(h)
    <3>1. e.config \in Configs
      BY DEF Sound, Ready
    <3>2. g.config.n \in Nat \ {0}
      BY <2>8, <2>9, <3>1 DEF Refillable
    <3>3. Lookahead(g) >= 0 - HistoryMax /\ Lookahead(g) \in Int /\ Lookahead(h) \in Int
      BY <2>5, LookaheadInt
    <3>4. /\ TopUpGuard * IdleLen > HistoryMax /\ TopUpGuard * IdleLen \in Nat
          /\ HistoryMax \in Nat
      BY <2>9, Lens, LimitAssumption DEF Refillable
    <3>5. Lookahead(h) >= 1
      BY <2>6, <3>2, <3>3, <3>4
    <3> QED BY <2>5, <3>5, AheadOf
  <2>10. Played(e, h, k + 1)
    BY <2>1, <2>7, <2>8, <2>9 DEF Played
  <2> QED BY <2>1, <2>3, <2>10 DEF h, g
<1> HIDE DEF p
<1>4. PICK k \in 0 .. StepsMax : \E f \in S[k], a \in 0 .. BacklogMax * Sub :
        /\ k * Sub <= e.acc + elapsed
        /\ k = 0 => f = e
        /\ p = IF k = 0 /\ e.buffer = <<>> THEN TopUp([f EXCEPT !.acc = a])
               ELSE [f EXCEPT !.acc = a]
  <2> HIDE DEF S
  <2>1. Reached(e, elapsed, S)
    BY <1>1, <1>2, <1>3, PlayReaches
  <2> QED BY <2>1 DEF p, Reached
<1>5. PICK f \in S[k], a \in 0 .. BacklogMax * Sub :
        /\ k * Sub <= e.acc + elapsed
        /\ k = 0 => f = e
        /\ p = IF k = 0 /\ e.buffer = <<>> THEN TopUp([f EXCEPT !.acc = a])
               ELSE [f EXCEPT !.acc = a]
  BY <1>4
<1>6. f \in Sound /\ f \in Engines /\ Played(e, f, k)
  BY DEF Sound, Ready
<1> DEFINE g == [f EXCEPT !.acc = a]
<1>7. /\ g \in Engines
      /\ g.buffer = f.buffer /\ g.cursor = f.cursor /\ g.config = f.config
      /\ g.emitted = f.emitted /\ g.held = f.held
  BY <1>6 DEF Engines
<1>8. g \in Sound
  <2>1. g.config \in Configs
    BY <1>6, <1>7 DEF Sound, Ready
  <2> HIDE DEF g
  <2> QED BY <1>6, <1>7, <2>1, SoundSame
<1> HIDE DEF g, S
<1>9. Played(e, g, k)
  BY <1>6, <1>7 DEF Played, InPlace, Current, HasCurrent
<1>10. CASE k = 0 /\ e.buffer = <<>>
  <2>1. p = TopUp(g) /\ g \in Ready /\ f = e
    BY <1>5, <1>8, <1>10 DEF g, Sound
  <2>2. p \in Sound
    BY <2>1, SoundTopUp
  <2>3. Continued(g, p, Len(g.buffer))
    BY <1>7, <2>1, TopUpContinues
  <2>4. ~Fed
    <3>1. Len(e.buffer) = 0 /\ e.cursor \in Nat
      BY <1>1, <1>10, FieldsOf
    <3>2. ~(Lookahead(e) >= 1)
      BY <3>1 DEF Lookahead
    <3> QED BY <3>2 DEF Sound
  <2>5. Played(e, p, k)
    BY <1>7, <1>9, <1>10, <2>1, <2>3, <2>4 DEF Played, Continued
  <2> QED BY <1>5, <2>2, <2>5 DEF p
<1>11. CASE ~(k = 0 /\ e.buffer = <<>>)
  <2>1. p = g
    BY <1>5, <1>11 DEF g
  <2> QED BY <1>5, <1>8, <1>9, <2>1 DEF p
<1> QED BY <1>10, <1>11

(***************************************************************************)
(* A new engine, or an emptied one                                         *)
(***************************************************************************)

Fresh(g, config) ==
  /\ g \in Sound /\ g.config = config /\ g.cursor = 0
  /\ Refillable /\ config.n # NaN => HasCurrent(g)
  /\ HasCurrent(g) => Current(g).at = 0

LEMMA FreshTopUp ==
  ASSUME NEW config \in Configs, NEW a \in 0 .. BacklogMax * Sub
  PROVE  LET g == TopUp([Blank(config) EXCEPT !.acc = a])
         IN  Fresh(g, config) /\ g.emitted = NoneEmitted
<1> DEFINE e == [Blank(config) EXCEPT !.acc = a]
           g == TopUp(e)
<1>1. e \in Ready /\ e \in Engines
  BY BlankReady DEF Ready
<1>2. e.buffer = <<>> /\ e.cursor = 0 /\ e.config = config /\ e.emitted = NoneEmitted
  BY DEF Blank
<1> HIDE DEF e
<1>3. g \in Sound /\ g \in Engines
  BY <1>1, SoundTopUp DEF Sound, Ready
<1>4. /\ Continued(e, g, Len(e.buffer))
      /\ e.buffer = <<>> /\ g.buffer # <<>> => g.buffer[1].at = 0
      /\ e.config.n \in Nat \ {0} => Lookahead(g) >= 1 \/ Lookahead(e) < 0
  BY <1>1, TopUpContinues
<1> HIDE DEF g
<1>5. g.cursor = 0 /\ g.config = config /\ g.emitted = NoneEmitted
  BY <1>2, <1>4 DEF Continued
<1>6. ASSUME HasCurrent(g) PROVE Current(g).at = 0
  <2>1. Len(g.buffer) # 0 /\ Current(g) = g.buffer[1]
    BY <1>5, <1>6 DEF HasCurrent, Current
  <2>2. g.buffer # <<>>
    BY <2>1
  <2> QED BY <1>2, <1>4, <2>1, <2>2
<1>7. ASSUME Refillable, config.n # NaN PROVE HasCurrent(g)
  <2>1. e.config.n \in Nat \ {0}
    BY <1>2, <1>7 DEF Refillable
  <2>2. Lookahead(e) = 0
    BY <1>2 DEF Lookahead
  <2> QED BY <1>3, <1>4, <2>1, <2>2, AheadOf
<1> QED BY <1>3, <1>5, <1>6, <1>7 DEF Fresh, g, e

LEMMA AdvanceInEngines ==
  ASSUME NEW e \in Engines
  PROVE  TopUp(Advance(e)) \in Engines
<1>1. Advance(e) \in Engines
  BY AdvanceMoves DEF Advanced
<1> QED BY <1>1, TopUpContinues DEF Continued

\* The timeline is not touched when a frame is announced.
LEMMA WithEmitted ==
  ASSUME NEW e \in Engines, HasCurrent(e), NEW held \in SUBSET e.held
  PROVE  LET g == [e EXCEPT !.emitted = Sig(Current(e)), !.held = held]
         IN  /\ g \in Engines /\ g.buffer = e.buffer /\ g.cursor = e.cursor
             /\ g.config = e.config /\ g.acc = e.acc
             /\ g.emitted = Sig(Current(e)) /\ g.emitted # NoneEmitted /\ g.held = held
<1>1. Sig(Current(e)) \in [tag : Nat, src : Source \cup {"none"}]
  BY AheadOf DEF Sig, Frame
<1>2. IsFiniteSet(held) /\ held \in SUBSET Nat
  BY FieldsOf, FS_Subset
<1>3. Sig(Current(e)) # NoneEmitted
  BY AheadOf DEF Sig, Frame, NoneEmitted
<1> QED BY <1>1, <1>2, <1>3 DEF Engines

LEMMA StartedFresh ==
  ASSUME NEW config \in Configs
  PROVE  LET g == Started(config)
         IN  Fresh(g, config) /\ (HasCurrent(g) => g.emitted = Sig(Current(g)))
<1> DEFINE b == Blank(config)
           S == [k \in 0 .. StepsMax |-> {f \in Engines : k = 0 => f = b}]
           e == Play(b, 0)
           g == Started(config)
<1>1. /\ b \in Engines /\ b.acc = 0 /\ b.buffer = <<>>
      /\ StepsMax \in Nat \ {0} /\ Sub \in Nat \ {0} /\ BacklogMax * Sub \in Nat
  <2>1. BacklogMax * Sub \in Nat /\ StepsMax \in Nat \ {0} /\ Sub \in Nat \ {0}
    BY LimitAssumption
  <2>2. 0 \in 0 .. BacklogMax * Sub
    BY <2>1
  <2>3. b \in Engines
    BY <2>2, BlankReady DEF Ready
  <2> QED BY <2>1, <2>3 DEF Blank
<1>2. Reached(b, 0, S)
  <2>1. b \in S[0]
    BY <1>1
  <2>2. \A k \in 0 .. StepsMax - 1 : \A f \in S[k] : TopUp(Advance(f)) \in S[k + 1]
    <3> SUFFICES ASSUME NEW k \in 0 .. StepsMax - 1, NEW f \in S[k]
                 PROVE  TopUp(Advance(f)) \in S[k + 1]
      OBVIOUS
    <3>1. k \in 0 .. StepsMax /\ k + 1 \in 0 .. StepsMax /\ k + 1 # 0
      BY <1>1
    <3>2. f \in Engines
      BY <3>1
    <3>3. TopUp(Advance(f)) \in Engines
      BY <3>2, AdvanceInEngines
    <3>4. S[k + 1] = {h \in Engines : k + 1 = 0 => h = b}
      BY <3>1
    <3> HIDE DEF S, b
    <3> QED BY <3>1, <3>3, <3>4
  <2> HIDE DEF S, b
  <2> QED BY <1>1, <2>1, <2>2, PlayReaches
<1>3. PICK a \in 0 .. BacklogMax * Sub : e = TopUp([b EXCEPT !.acc = a])
  <2>1. PICK k \in 0 .. StepsMax : \E f \in S[k], a \in 0 .. BacklogMax * Sub :
          /\ k * Sub <= b.acc + 0
          /\ k = 0 => f = b
          /\ e = IF k = 0 /\ b.buffer = <<>> THEN TopUp([f EXCEPT !.acc = a])
                 ELSE [f EXCEPT !.acc = a]
    BY <1>2 DEF Reached
  <2> HIDE DEF b, e, S
  <2>2. k = 0
    <3>1. k * Sub <= 0
      BY <1>1, <2>1
    <3> QED BY <1>1, <3>1
  <2> QED BY <1>1, <2>1, <2>2
<1>4. Fresh(e, config)
  <2> HIDE DEF e
  <2> QED BY <1>3, FreshTopUp
<1> HIDE DEF e, b
<1>5. g = IF HasCurrent(e) THEN [e EXCEPT !.emitted = Sig(Current(e))] ELSE e
  BY DEF Started, e, b
<1>6. CASE ~HasCurrent(e)
  BY <1>4, <1>5, <1>6
<1>7. CASE HasCurrent(e)
  <2>1. e \in Sound /\ e \in Engines
    BY <1>4 DEF Fresh, Sound, Ready
  <2>2. g = [e EXCEPT !.emitted = Sig(Current(e)), !.held = e.held]
    BY <1>5, <1>7, <2>1 DEF Engines
  <2>3. \A held \in SUBSET e.held :
          LET h == [e EXCEPT !.emitted = Sig(Current(e)), !.held = held]
          IN  /\ h \in Engines /\ h.buffer = e.buffer /\ h.cursor = e.cursor
              /\ h.config = e.config /\ h.emitted = Sig(Current(e))
    BY <1>7, <2>1, WithEmitted
  <2>4. /\ g \in Engines /\ g.buffer = e.buffer /\ g.cursor = e.cursor
        /\ g.config = e.config /\ g.emitted = Sig(Current(e))
    BY <2>2, <2>3
  <2> HIDE DEF g
  <2>5. g.config \in Configs
    BY <1>4, <2>4 DEF Fresh
  <2>6. g \in Sound
    BY <2>1, <2>4, <2>5, SoundSame
  <2>7. /\ HasCurrent(g) <=> HasCurrent(e)
        /\ Current(g) = Current(e)
    BY <2>4 DEF HasCurrent, Current
  <2> QED BY <1>4, <2>4, <2>6, <2>7 DEF Fresh, g
<1> QED BY <1>6, <1>7

(***************************************************************************)
(* Listeners that schedule again                                           *)
(***************************************************************************)

\* g is e after some schedules: the protected frames are e's, and every other
\* frame is e's or has a tag that is neither announced nor waited for.
Rescheduled(e, g) ==
  /\ g.cursor = e.cursor /\ g.config = e.config
  /\ g.emitted = e.emitted /\ g.held = e.held /\ g.acc = e.acc
  /\ ~Accepts(e) => g = e
  /\ \A k \in 1 .. Len(e.buffer) :
       (Accepts(e) => k <= e.cursor + e.config.d) =>
         k <= Len(g.buffer) /\ g.buffer[k] = e.buffer[k]
  /\ \A k \in 1 .. Len(g.buffer) :
       \/ k <= Len(e.buffer) /\ g.buffer[k] = e.buffer[k]
       \/ g.buffer[k].tag \notin {e.emitted.tag} \cup e.held
  /\ HasCurrent(e) => HasCurrent(g)

LEMMA RescheduledOnce ==
  ASSUME NEW e \in Sound, NEW f \in Sound, NEW clip \in Clips, Rescheduled(e, f)
  PROVE  Rescheduled(e, Schedule(f, clip))
<1> DEFINE g == Schedule(f, clip)
           start == e.cursor + e.config.d
<1>1. /\ e \in Engines /\ f \in Engines /\ g \in Sound
      /\ f.cursor = e.cursor /\ f.config = e.config
      /\ f.emitted = e.emitted /\ f.held = e.held /\ f.acc = e.acc
  BY SoundSchedule DEF Sound, Ready, Rescheduled
<1>2. Accepts(f) <=> Accepts(e)
  BY <1>1 DEF Accepts
<1>3. CASE ~Accepts(f)
  BY <1>3, ScheduleRefused
<1>4. CASE Accepts(f)
  <2>1. /\ e.config.d \in Nat
        /\ Continued(f, g, start)
        /\ Len(g.buffer) > start
    BY <1>1, <1>4, ScheduleContinues
  <2> HIDE DEF g
  <2>2. g \in Engines
    BY <1>1 DEF Sound, Ready
  <2>3. /\ e.cursor \in Nat /\ Len(e.buffer) \in Nat /\ Len(f.buffer) \in Nat
        /\ Len(g.buffer) \in Nat
    BY <1>1, <2>2, FieldsOf
  <2>4. \A k \in 1 .. Len(f.buffer) :
          k <= start => k <= Len(g.buffer) /\ g.buffer[k] = f.buffer[k]
    BY <2>1 DEF Continued
  <2>5. \A k \in 1 .. Len(e.buffer) :
          k <= start => k <= Len(g.buffer) /\ g.buffer[k] = e.buffer[k]
    <3> SUFFICES ASSUME NEW k \in 1 .. Len(e.buffer), k <= start
                 PROVE  k <= Len(g.buffer) /\ g.buffer[k] = e.buffer[k]
      OBVIOUS
    <3>1. k <= Len(f.buffer) /\ f.buffer[k] = e.buffer[k]
      BY DEF Rescheduled
    <3>2. k \in 1 .. Len(f.buffer)
      BY <2>3, <3>1
    <3> QED BY <2>4, <3>1, <3>2
  <2>6. \A k \in 1 .. Len(g.buffer) :
          \/ k <= Len(e.buffer) /\ g.buffer[k] = e.buffer[k]
          \/ g.buffer[k].tag \notin {e.emitted.tag} \cup e.held
    <3> SUFFICES ASSUME NEW k \in 1 .. Len(g.buffer),
                        g.buffer[k].tag \in {e.emitted.tag} \cup e.held
                 PROVE  k <= Len(e.buffer) /\ g.buffer[k] = e.buffer[k]
      OBVIOUS
    <3>1. g.buffer[k].tag \in KnownTags(f)
      BY <1>1 DEF KnownTags
    <3>2. k <= start /\ k <= Len(f.buffer)
      BY <2>1, <3>1 DEF Continued
    <3>3. k \in 1 .. Len(f.buffer)
      BY <2>3, <3>2
    <3>4. g.buffer[k] = f.buffer[k]
      BY <2>4, <3>2, <3>3
    <3>5. \/ k <= Len(e.buffer) /\ f.buffer[k] = e.buffer[k]
          \/ f.buffer[k].tag \notin {e.emitted.tag} \cup e.held
      BY <3>3 DEF Rescheduled
    <3> QED BY <3>4, <3>5
  <2>7. /\ g.cursor = e.cursor /\ g.config = e.config
        /\ g.emitted = e.emitted /\ g.held = e.held /\ g.acc = e.acc
    BY <1>1, <2>1 DEF Continued
  <2>8. HasCurrent(g)
    BY <2>1, <2>3, <2>7 DEF HasCurrent
  <2>9. Rescheduled(e, g)
    BY <1>2, <1>4, <2>5, <2>6, <2>7, <2>8 DEF Rescheduled
  <2> QED BY <2>9 DEF g
<1> QED BY <1>3, <1>4

LEMMA RescheduledSame ==
  ASSUME NEW e \in Sound
  PROVE  Rescheduled(e, e)
<1>1. \A k \in 1 .. Len(e.buffer) : k <= Len(e.buffer)
  BY FieldsOf DEF Sound, Ready
<1> QED BY <1>1 DEF Rescheduled

LEMMA SecondsInTurn ==
  ASSUME NEW e, NEW n \in Nat
  PROVE  \E g : g = [k \in 0 .. n |-> IF k = 0 THEN e ELSE Schedule(g[k - 1], Second)]
<1> DEFINE Turns(g, j) == g = [k \in 0 .. j |-> IF k = 0 THEN e ELSE Schedule(g[k - 1], Second)]
           S == {j \in 0 .. n : \E g : Turns(g, j)}
<1>1. 0 \in S
  <2> DEFINE g == [k \in 0 .. 0 |-> e]
  <2>1. g = [k \in 0 .. 0 |-> IF k = 0 THEN e ELSE Schedule(g[k - 1], Second)]
    OBVIOUS
  <2> HIDE DEF g
  <2>2. \E f : Turns(f, 0)
    BY <2>1
  <2>3. 0 \in 0 .. n
    OBVIOUS
  <2> HIDE DEF Turns
  <2> QED BY <2>2, <2>3
<1>2. \A j \in 0 .. n - 1 : j \in S => j + 1 \in S
  <2> SUFFICES ASSUME NEW j \in 0 .. n - 1, NEW g, Turns(g, j)
               PROVE  \E h : Turns(h, j + 1)
    OBVIOUS
  <2> DEFINE h == [k \in 0 .. j + 1 |-> IF k <= j THEN g[k] ELSE Schedule(g[j], Second)]
  <2>1. \A k \in 0 .. j + 1 : h[k] = IF k = 0 THEN e ELSE Schedule(h[k - 1], Second)
    <3> SUFFICES ASSUME NEW k \in 0 .. j + 1
                 PROVE  h[k] = IF k = 0 THEN e ELSE Schedule(h[k - 1], Second)
      OBVIOUS
    <3>1. CASE k <= j
      <4>1. k \in 0 .. j /\ h[k] = g[k] /\ (k # 0 => h[k - 1] = g[k - 1])
        BY <3>1
      <4>2. g[k] = IF k = 0 THEN e ELSE Schedule(g[k - 1], Second)
        BY <4>1
      <4> QED BY <4>1, <4>2
    <3>2. CASE k = j + 1
      <4>1. h[k] = Schedule(g[j], Second) /\ h[k - 1] = g[j] /\ k # 0
        BY <3>2
      <4> QED BY <4>1
    <3> QED BY <3>1, <3>2
  <2>2. Turns(h, j + 1)
    BY <2>1
  <2> QED BY <2>2
<1>3. n \in S
  <2> HIDE DEF S
  <2>1. \A k \in 0 .. n : k \in S
    BY <1>1, <1>2, UpTo
  <2> QED BY <2>1
<1> QED BY <1>3

LEMMA SecondsReschedule ==
  ASSUME NEW e \in Sound, NEW times \in Nat
  PROVE  ScheduleSecond(e, times) \in Sound /\ Rescheduled(e, ScheduleSecond(e, times))
<1> DEFINE step(g, k) == IF k = 0 THEN e ELSE Schedule(g[k - 1], Second)
           after == CHOOSE g : g = [k \in 0 .. times |-> step(g, k)]
           G == {k \in 0 .. times : after[k] \in Sound /\ Rescheduled(e, after[k])}
<1>1. ScheduleSecond(e, times) = after[times]
  BY DEF ScheduleSecond
<1>2. after = [k \in 0 .. times |-> step(after, k)]
  <2>1. \E g : g = [k \in 0 .. times |-> step(g, k)]
    BY SecondsInTurn
  <2> HIDE DEF step
  <2> QED BY <2>1
<1> HIDE DEF after
<1>3. 0 \in G
  <2>1. after[0] = e
    BY <1>2
  <2> QED BY <2>1, RescheduledSame
<1>4. \A k \in 0 .. times - 1 : k \in G => k + 1 \in G
  <2> SUFFICES ASSUME NEW k \in 0 .. times - 1, after[k] \in Sound, Rescheduled(e, after[k])
               PROVE  after[k + 1] \in Sound /\ Rescheduled(e, after[k + 1])
    OBVIOUS
  <2>1. k + 1 \in 0 .. times /\ k + 1 # 0 /\ (k + 1) - 1 = k
    OBVIOUS
  <2>2. after[k + 1] = Schedule(after[k], Second)
    BY <1>2, <2>1
  <2>3. Second \in Clips
    BY InputAssumption
  <2> DEFINE f == after[k]
  <2> HIDE DEF f
  <2> QED BY <2>2, <2>3, SoundSchedule, RescheduledOnce DEF f
<1>5. times \in G
  <2> HIDE DEF G
  <2>1. \A k \in 0 .. times : k \in G
    BY <1>3, <1>4, UpTo
  <2> QED BY <2>1
<1> QED BY <1>1, <1>5

(***************************************************************************)
(* The page                                                                *)
(***************************************************************************)

IInv ==
  /\ engine \in Sound
  /\ seqs \in SUBSET [tag : Nat, epoch : Nat] /\ IsFiniteSet(seqs)
  /\ drop \in [stage : DropStage, todo : Seq(Clips), tag : Nat]
  /\ drop.stage = "idle" <=> drop.todo = <<>>
  /\ epoch \in Nat

LEMMA NextFileIs ==
  ASSUME NEW dr \in [stage : DropStage, todo : Seq(Clips), tag : Nat],
         dr.todo # <<>>
  PROVE  /\ NextFile(dr) \in [stage : DropStage, todo : Seq(Clips), tag : Nat]
         /\ NextFile(dr).stage = "idle" <=> NextFile(dr).todo = <<>>
         /\ NextFile(dr).tag = dr.tag
         /\ Head(dr.todo) \in Clips
<1> DEFINE s == dr.todo
           r == NextFile(dr)
<1>1. s \in Seq(Clips) /\ s # <<>> /\ Len(s) \in Nat
  BY LenProperties
<1>2. Tail(s) \in Seq(Clips) /\ Head(s) \in Clips /\ Len(Tail(s)) = Len(s) - 1
  BY <1>1, HeadTailProperties
<1>3. Len(s) = 1 <=> Tail(s) = <<>>
  <2>1. Tail(s) = <<>> <=> Len(Tail(s)) = 0
    BY <1>2, EmptySeq
  <2> QED BY <1>1, <1>2, <2>1
<1>4. /\ r.todo = Tail(s) /\ r.stage = IF Len(s) = 1 THEN "idle" ELSE "loading"
      /\ r.tag = dr.tag
  BY DEF NextFile
<1>5. r \in [stage : DropStage, todo : Seq(Clips), tag : Nat]
  <2>1. {"idle", "loading"} \subseteq DropStage
    BY DEF DropStage
  <2> QED BY <1>2, <2>1 DEF NextFile
<1> QED BY <1>2, <1>3, <1>4, <1>5

LEMMA SoundConfig ==
  ASSUME NEW e \in Sound, NEW config \in Configs
  PROVE  LET g == [e EXCEPT !.config = config]
         IN  /\ g \in Sound /\ g.config = config
             /\ g.buffer = e.buffer /\ g.cursor = e.cursor /\ g.emitted = e.emitted
             /\ g.held = e.held /\ g.acc = e.acc
<1> DEFINE g == [e EXCEPT !.config = config]
<1>1. e \in Engines /\ config \in [n : Numbers, m : Numbers, d : Numbers]
  BY FieldsHold DEF Sound, Ready
<1>2. /\ g \in Engines /\ g.config = config
      /\ g.buffer = e.buffer /\ g.cursor = e.cursor /\ g.emitted = e.emitted
      /\ g.held = e.held /\ g.acc = e.acc
  BY <1>1 DEF Engines
<1> HIDE DEF g
<1>3. g \in Sound
  BY <1>1, <1>2, SoundSame
<1> QED BY <1>2, <1>3 DEF g

\* A refresh: p is the engine after the tick, and the announcement of its frame
\* leaves g, after the listeners of the segment that has ended.
RefreshTo(config, k, p, g) ==
  /\ p \in Sound /\ p.config = config
  /\ Played([engine EXCEPT !.config = config], p, k)
  /\ \/ /\ ~HasCurrent(p) \/ Sig(Current(p)) = p.emitted
        /\ engine' = p /\ seqs' = seqs /\ drop' = drop
     \/ /\ HasCurrent(p) /\ Sig(Current(p)) # p.emitted
        /\ g \in Sound /\ Rescheduled(p, g)
        /\ engine' = [g EXCEPT !.emitted = Sig(Current(p)), !.held = Released(@, p.emitted)]
        /\ seqs' \subseteq seqs
        /\ drop' = IF drop.stage = "waiting" /\ Wakes(p.emitted, drop.tag)
                   THEN NextFile(drop) ELSE drop
  /\ epoch' = epoch

LEMMA RefreshDoes ==
  ASSUME IInv, NEW config \in Configs, NEW elapsed \in Elapsed, Refresh(config, elapsed)
  PROVE  \E k \in 0 .. StepsMax : \E p, g : RefreshTo(config, k, p, g)
<1> DEFINE e == [engine EXCEPT !.config = config]
           p == Play(e, elapsed)
           woken == {l \in seqs : Wakes(p.emitted, l.tag)}
           g == ScheduleSecond(p, Cardinality(woken))
<1>1. e \in Sound /\ e.config = config /\ elapsed \in Nat
  BY SoundConfig, InputAssumption DEF IInv
<1>2. Announce(p) /\ epoch' = epoch
  BY DEF Refresh
<1>3. p \in Sound /\ \E k \in 0 .. StepsMax : Played(e, p, k)
  <2> HIDE DEF e
  <2> QED BY <1>1, TickPlays
<1>4. PICK k \in 0 .. StepsMax : Played(e, p, k)
  BY <1>3
<1> HIDE DEF e, p
<1>5. p.config = config
  BY <1>1, <1>4 DEF Played
<1>6. Cardinality(woken) \in Nat
  <2>1. woken \subseteq seqs /\ IsFiniteSet(seqs)
    BY DEF IInv
  <2> HIDE DEF woken
  <2> QED BY <2>1, FS_Subset, FS_CardinalityType
<1>7. g \in Sound /\ Rescheduled(p, g)
  <2> HIDE DEF woken
  <2> QED BY <1>3, <1>6, SecondsReschedule
<1>8. CASE ~HasCurrent(p) \/ Sig(Current(p)) = p.emitted
  <2>1. engine' = p /\ seqs' = seqs /\ drop' = drop
    BY <1>2, <1>8 DEF Announce
  <2>2. RefreshTo(config, k, p, p)
    BY <1>2, <1>3, <1>4, <1>5, <1>8, <2>1 DEF RefreshTo, e
  <2> QED BY <2>2
<1>9. CASE ~(~HasCurrent(p) \/ Sig(Current(p)) = p.emitted)
  <2>1. /\ engine' = [g EXCEPT !.emitted = Sig(Current(p)), !.held = Released(@, p.emitted)]
        /\ seqs' = seqs \ woken
        /\ drop' = IF drop.stage = "waiting" /\ Wakes(p.emitted, drop.tag)
                   THEN NextFile(drop) ELSE drop
    BY <1>2, <1>9 DEF Announce
  <2>2. seqs' \subseteq seqs
    BY <2>1
  <2> HIDE DEF g, woken
  <2>3. RefreshTo(config, k, p, g)
    BY <1>2, <1>3, <1>4, <1>5, <1>7, <1>9, <2>1, <2>2 DEF RefreshTo, e
  <2> QED BY <2>3
<1> QED BY <1>8, <1>9

\* What a refresh leaves.
LEMMA RefreshLeaves ==
  ASSUME IInv, NEW config \in Configs, NEW k, NEW p, NEW g, RefreshTo(config, k, p, g)
  PROVE  /\ engine' \in Sound /\ engine'.config = config
         /\ engine'.cursor = p.cursor
         /\ HasCurrent(p) => HasCurrent(engine')
         /\ HasCurrent(p) => engine'.emitted = Sig(Current(p))
         /\ seqs' \subseteq seqs
         /\ drop' = drop \/ /\ drop.stage = "waiting" /\ Wakes(p.emitted, drop.tag)
                            /\ drop' = NextFile(drop)
                            /\ HasCurrent(p) /\ Sig(Current(p)) # p.emitted
                            /\ engine'.buffer = g.buffer /\ Rescheduled(p, g)
<1>1. p \in Sound /\ p.config = config
  BY DEF RefreshTo
<1>2. CASE ~HasCurrent(p) \/ Sig(Current(p)) = p.emitted
  BY <1>1, <1>2 DEF RefreshTo
<1>3. CASE ~(~HasCurrent(p) \/ Sig(Current(p)) = p.emitted)
  <2>1. /\ HasCurrent(p) /\ Sig(Current(p)) # p.emitted
        /\ g \in Sound /\ g \in Engines /\ Rescheduled(p, g)
        /\ engine' = [g EXCEPT !.emitted = Sig(Current(p)), !.held = Released(@, p.emitted)]
        /\ seqs' \subseteq seqs
        /\ drop' = IF drop.stage = "waiting" /\ Wakes(p.emitted, drop.tag)
                   THEN NextFile(drop) ELSE drop
    BY <1>3 DEF RefreshTo, Sound, Ready
  <2>2. g.cursor = p.cursor /\ g.config = config /\ HasCurrent(g)
    BY <1>1, <2>1 DEF Rescheduled
  <2>3. Sig(Current(p)) \in [tag : Nat, src : Source \cup {"none"}]
    <3>1. p \in Engines
      BY <1>1 DEF Sound, Ready
    <3> QED BY <2>1, <3>1, AheadOf DEF Sig, Frame
  <2>4. /\ Released(g.held, p.emitted) \in SUBSET Nat
        /\ IsFiniteSet(Released(g.held, p.emitted))
    BY <2>1, FieldsOf, FS_Subset DEF Released
  <2>5. /\ engine' \in Engines /\ engine'.buffer = g.buffer /\ engine'.cursor = g.cursor
        /\ engine'.config = g.config /\ engine'.emitted = Sig(Current(p))
    BY <2>1, <2>3, <2>4 DEF Engines
  <2>6. engine' \in Sound
    BY <2>1, <2>2, <2>5, SoundSame
  <2>7. HasCurrent(engine')
    BY <2>2, <2>5 DEF HasCurrent
  <2> QED BY <2>1, <2>2, <2>5, <2>6, <2>7
<1> QED BY <1>2, <1>3

\* A schedule of the user's, whose clip's end may be waited for.
LEMMA UserSchedules ==
  ASSUME NEW e \in Sound, NEW clip \in Clips
  PROVE  LET g == Schedule(e, clip)
             h == Awaited(g)
         IN  /\ g \in Sound /\ h \in Sound
             /\ Rescheduled(e, g)
             /\ h.buffer = g.buffer /\ h.cursor = g.cursor /\ h.config = g.config
             /\ h.emitted = g.emitted
             /\ Accepts(e) => ScheduledTag(h) \in Nat
             /\ ~Accepts(e) => h = e
<1> DEFINE g == Schedule(e, clip)
           h == Awaited(g)
<1>1. g \in Sound /\ g \in Engines /\ e \in Engines
  BY SoundSchedule DEF Sound, Ready
<1>2. Rescheduled(e, g)
  BY RescheduledSame, RescheduledOnce
<1>3. Accepts(g) <=> Accepts(e)
  BY <1>2 DEF Rescheduled, Accepts
<1>4. CASE ~Accepts(e)
  <2>1. g = e /\ h = e
    BY <1>3, <1>4, ScheduleRefused DEF Awaited
  <2> QED BY <1>1, <1>2, <1>4, <2>1
<1>5. CASE Accepts(e)
  <2>1. ScheduledTag(g) \in Nat
    BY <1>1, <1>5, ScheduleContinues
  <2> HIDE DEF g
  <2>2. h = [g EXCEPT !.held = @ \cup {ScheduledTag(g)}]
    BY <1>3, <1>5 DEF Awaited
  <2>3. IsFiniteSet(g.held \cup {ScheduledTag(g)}) /\ g.held \cup {ScheduledTag(g)} \in SUBSET Nat
    BY <1>1, <2>1, FieldsOf, FS_AddElement
  <2>4. /\ h \in Engines /\ h.buffer = g.buffer /\ h.cursor = g.cursor /\ h.config = g.config
        /\ h.emitted = g.emitted
    BY <1>1, <2>2, <2>3 DEF Engines
  <2> HIDE DEF h
  <2>5. h \in Sound
    <3>1. h.config \in Configs
      BY <1>1, <2>4 DEF Sound, Ready
    <3> QED BY <1>1, <2>4, <3>1, SoundSame
  <2>6. ScheduledTag(h) \in Nat
    BY <2>1, <2>4 DEF ScheduledTag
  <2> QED BY <1>1, <1>2, <1>5, <2>4, <2>5, <2>6 DEF g, h
<1> QED BY <1>4, <1>5

(***************************************************************************)
(* The invariant, action by action                                         *)
(***************************************************************************)

LEMMA InitInv == Init => IInv
<1> SUFFICES ASSUME Init PROVE IInv
  OBVIOUS
<1>1. engine \in Sound
  BY StartedFresh DEF Init, Fresh
<1>2. NoDrop \in [stage : DropStage, todo : Seq(Clips), tag : Nat]
  BY DEF NoDrop, DropStage
<1>3. IsFiniteSet({})
  BY FS_EmptySet
<1> QED BY <1>1, <1>2, <1>3 DEF Init, IInv, NoDrop

LEMMA NextInv == IInv /\ [Next]_vars => IInv'
<1> SUFFICES ASSUME IInv, [Next]_vars PROVE IInv'
  OBVIOUS
<1> DEFINE Drops == [stage : DropStage, todo : Seq(Clips), tag : Nat]
<1>1. /\ engine \in Sound /\ engine \in Engines /\ engine.config \in Configs
      /\ seqs \in SUBSET [tag : Nat, epoch : Nat] /\ IsFiniteSet(seqs)
      /\ drop \in Drops /\ (drop.stage = "idle" <=> drop.todo = <<>>)
      /\ epoch \in Nat
  BY DEF IInv, Sound, Ready
<1>2. CASE Frames
  <2>1. PICK config \in Configs, elapsed \in Elapsed : Refresh(config, elapsed)
    BY <1>2 DEF Frames
  <2>2. PICK k \in 0 .. StepsMax : \E p, g : RefreshTo(config, k, p, g)
    BY <2>1, RefreshDoes
  <2>3. PICK p, g : RefreshTo(config, k, p, g)
    BY <2>2
  <2>4. /\ engine' \in Sound /\ seqs' \subseteq seqs
        /\ drop' = drop \/ (drop.stage = "waiting" /\ drop' = NextFile(drop))
    BY <2>3, RefreshLeaves
  <2>5. IsFiniteSet(seqs')
    BY <1>1, <2>4, FS_Subset
  <2>6. drop' \in Drops /\ (drop'.stage = "idle" <=> drop'.todo = <<>>)
    <3>1. CASE drop' = drop
      BY <1>1, <3>1
    <3>2. CASE drop.stage = "waiting" /\ drop' = NextFile(drop)
      <4>1. drop.todo # <<>>
        BY <1>1, <3>2
      <4> QED BY <1>1, <3>2, <4>1, NextFileIs
    <3> QED BY <2>4, <3>1, <3>2
  <2>7. epoch' = epoch
    BY <2>3 DEF RefreshTo
  <2> QED BY <1>1, <2>4, <2>5, <2>6, <2>7 DEF IInv
<1>3. CASE Visible
  <2>1. 0 \in 0 .. BacklogMax * Sub
    BY LimitAssumption
  <2>2. /\ engine' \in Engines /\ engine'.buffer = engine.buffer
        /\ engine'.cursor = engine.cursor /\ engine'.config = engine.config
    BY <1>1, <1>3, <2>1 DEF Visible, Engines
  <2>3. engine' \in Sound
    BY <1>1, <2>2, SoundSame
  <2> QED BY <1>1, <1>3, <2>3 DEF Visible, IInv
<1>4. ASSUME NEW clip \in Clips, ScheduleAnim(clip) PROVE IInv'
  <2>1. engine' \in Sound
    BY <1>1, <1>4, SoundSchedule DEF ScheduleAnim
  <2> QED BY <1>1, <1>4, <2>1 DEF ScheduleAnim, IInv
<1>5. CASE ScheduleSeq
  <2> DEFINE listener == [tag |-> ScheduledTag(engine'), epoch |-> epoch]
  <2>1. First \in Clips
    BY InputAssumption
  <2>2. /\ engine' = Awaited(Schedule(engine, First))
        /\ seqs' = IF Accepts(engine) THEN seqs \cup {listener} ELSE seqs
        /\ drop' = drop /\ epoch' = epoch
    BY <1>5 DEF ScheduleSeq
  <2>3. engine' \in Sound /\ (Accepts(engine) => ScheduledTag(engine') \in Nat)
    BY <1>1, <2>1, <2>2, UserSchedules
  <2>4. IsFiniteSet(seqs \cup {listener})
    BY <1>1, FS_AddElement
  <2>5. seqs' \in SUBSET [tag : Nat, epoch : Nat] /\ IsFiniteSet(seqs')
    <3>1. CASE Accepts(engine)
      <4>1. listener \in [tag : Nat, epoch : Nat]
        BY <1>1, <2>3, <3>1
      <4> HIDE DEF listener
      <4> QED BY <1>1, <2>2, <2>4, <3>1, <4>1
    <3>2. CASE ~Accepts(engine)
      BY <1>1, <2>2, <3>2
    <3> QED BY <3>1, <3>2
  <2> QED BY <1>1, <2>2, <2>3, <2>5 DEF IInv
<1>6. CASE ResetPos
  <2>1. /\ engine' = TopUp([Blank(engine.config) EXCEPT !.acc = engine.acc])
        /\ seqs' = seqs /\ drop' = drop /\ epoch' = epoch + 1
    BY <1>6 DEF ResetPos, ResetEngine
  <2>2. engine.acc \in 0 .. BacklogMax * Sub
    BY <1>1, FieldsOf
  <2>3. engine' \in Sound
    BY <1>1, <2>1, <2>2, FreshTopUp DEF Fresh
  <2>4. epoch' \in Nat
    BY <1>1, <2>1
  <2> QED BY <1>1, <2>1, <2>3, <2>4 DEF IInv
<1>7. ASSUME NEW config \in Configs, ReplaceVRM(config) PROVE IInv'
  <2>1. /\ engine' = Started(config) /\ seqs' = {} /\ epoch' = epoch
        /\ drop' = IF drop.stage = "waiting" THEN [drop EXCEPT !.tag = 0] ELSE drop
    BY <1>7 DEF ReplaceVRM
  <2>2. engine' \in Sound
    BY <2>1, StartedFresh DEF Fresh
  <2>3. IsFiniteSet(seqs') /\ seqs' \in SUBSET [tag : Nat, epoch : Nat]
    BY <2>1, FS_EmptySet
  <2>4. drop' \in Drops /\ (drop'.stage = "idle" <=> drop'.todo = <<>>)
    BY <1>1, <2>1
  <2> QED BY <1>1, <2>1, <2>2, <2>3, <2>4 DEF IInv
<1>8. ASSUME NEW files \in Files, DropFiles(files) PROVE IInv'
  <2>1. /\ engine' = engine /\ seqs' = seqs /\ epoch' = epoch
        /\ drop' = [drop EXCEPT !.stage = "loading", !.todo = files]
    BY <1>8 DEF DropFiles
  <2>2. files \in Seq(Clips) /\ files # <<>> /\ "loading" \in DropStage
    BY InputAssumption DEF DropStage
  <2>3. drop' \in Drops /\ (drop'.stage = "idle" <=> drop'.todo = <<>>)
    BY <1>1, <2>1, <2>2
  <2> QED BY <1>1, <2>1, <2>3 DEF IInv
<1>9. CASE DropLoaded
  <2>1. /\ drop.stage = "loading" /\ seqs' = seqs /\ epoch' = epoch
        /\ engine' = Awaited(Schedule(engine, Head(drop.todo)))
        /\ drop' = IF Accepts(engine)
                   THEN [drop EXCEPT !.stage = "waiting", !.tag = ScheduledTag(engine')]
                   ELSE [NextFile(drop) EXCEPT !.tag = 0]
    BY <1>9 DEF DropLoaded
  <2>2. drop.todo # <<>>
    BY <1>1, <2>1
  <2>3. /\ NextFile(drop) \in Drops /\ Head(drop.todo) \in Clips
        /\ NextFile(drop).stage = "idle" <=> NextFile(drop).todo = <<>>
    BY <1>1, <2>2, NextFileIs
  <2>4. engine' \in Sound /\ (Accepts(engine) => ScheduledTag(engine') \in Nat)
    BY <1>1, <2>1, <2>3, UserSchedules
  <2>5. drop' \in Drops /\ (drop'.stage = "idle" <=> drop'.todo = <<>>)
    <3>1. CASE Accepts(engine)
      <4>1. "waiting" \in DropStage /\ ScheduledTag(engine') \in Nat
        BY <2>4, <3>1 DEF DropStage
      <4> QED BY <1>1, <2>1, <2>2, <3>1, <4>1
    <3>2. CASE ~Accepts(engine)
      <4> DEFINE dr == NextFile(drop)
      <4> HIDE DEF dr
      <4>1. dr \in Drops /\ (dr.stage = "idle" <=> dr.todo = <<>>)
        BY <2>3 DEF dr
      <4>2. drop' = [dr EXCEPT !.tag = 0]
        BY <2>1, <3>2 DEF dr
      <4> QED BY <4>1, <4>2
    <3> QED BY <3>1, <3>2
  <2> QED BY <1>1, <2>1, <2>4, <2>5 DEF IInv
<1>10. CASE DropFailed
  <2>1. /\ drop.stage = "loading" /\ engine' = engine /\ seqs' = seqs /\ epoch' = epoch
        /\ drop' = [NextFile(drop) EXCEPT !.tag = 0]
    BY <1>10 DEF DropFailed
  <2>2. drop.todo # <<>>
    BY <1>1, <2>1
  <2> DEFINE dr == NextFile(drop)
  <2>3. dr \in Drops /\ (dr.stage = "idle" <=> dr.todo = <<>>)
    BY <1>1, <2>2, NextFileIs
  <2>4. drop' = [dr EXCEPT !.tag = 0]
    BY <2>1
  <2> HIDE DEF dr
  <2>5. drop' \in Drops /\ (drop'.stage = "idle" <=> drop'.todo = <<>>)
    BY <2>3, <2>4
  <2> QED BY <1>1, <2>1, <2>5 DEF IInv
<1>11. CASE UNCHANGED vars
  BY <1>1, <1>11 DEF IInv, vars
<1> QED BY <1>2, <1>3, <1>4, <1>5, <1>6, <1>7, <1>8, <1>9, <1>10, <1>11 DEF Next

LEMMA SpecInv == Spec => []IInv
<1>1. Init => IInv
  BY InitInv
<1>2. IInv /\ [Next]_vars => IInv'
  BY NextInv
<1> QED BY <1>1, <1>2, PTL DEF Spec

(***************************************************************************)
(* Invariants                                                              *)
(***************************************************************************)

\* Every reachable state of the page has its type, whatever clips are scheduled,
\* dropped or answered, at whatever pace the browser refreshes.
THEOREM TypeCorrect == Spec => []TypeOK
<1>1. IInv => TypeOK
  BY DEF IInv, TypeOK, Sound, Ready, Engines
<1> QED BY <1>1, SpecInv, PTL

\* However schedules, top-ups, dropped files and resets cut into the timeline,
\* segments stay whole: a tag has one run of frames in the buffer, in order.
THEOREM SegmentsStayWhole == Spec => []SegmentsWhole
<1>1. IInv => SegmentsWhole
  BY DEF IInv, Sound, Ready, Whole, SegmentsWhole, Buffer
<1> QED BY <1>1, SpecInv, PTL

\* The buffer never grows beyond what is kept of the past and the longest
\* timeline one operation leaves, for every content of the input fields.
THEOREM BufferStaysBounded == Spec => []BufferBounded
<1>1. IInv => BufferBounded
  <2> SUFFICES ASSUME IInv PROVE BufferBounded
    OBVIOUS
  <2>1. engine \in Engines /\ Bounded(engine)
    BY DEF IInv, Sound, Ready
  <2>2. PICK n \in LongestAhead : Lookahead(engine) <= n
    BY <2>1 DEF Bounded
  <2>3. /\ Len(Buffer) \in Nat /\ engine.cursor \in Nat /\ engine.cursor <= HistoryMax
        /\ HistoryMax \in Nat /\ n \in Int
    BY <2>1, FieldsOf, LimitAssumption, LongestOf DEF Buffer
  <2>4. Len(Buffer) <= HistoryMax + n
    BY <2>2, <2>3 DEF Lookahead, Buffer
  <2> QED BY <2>4 DEF BufferBounded
<1> QED BY <1>1, SpecInv, PTL

\* With transitions of at least one frame, idle joins idle directly and every
\* other switch of the timeline is blended.
THEOREM SwitchesAreBlended ==
  ASSUME Transitioned PROVE Spec => []BlendExactlyAtSwitches
<1>1. IInv => BlendExactlyAtSwitches
  BY Transitioned DEF IInv, Sound, Ready, Blended, BlendExactlyAtSwitches, Buffer
<1> QED BY <1>1, SpecInv, PTL

\* With a lookahead of at least one frame there is always a frame to show,
\* however far a tick advances and however far ahead a clip is scheduled.
THEOREM NeverStarved ==
  ASSUME Fed PROVE Spec => []AlwaysAFrame
<1>1. IInv => AlwaysAFrame
  BY Fed, AheadOf DEF IInv, Sound, Ready, AlwaysAFrame
<1> QED BY <1>1, SpecInv, PTL

(***************************************************************************)
(* What the screen shows and what has been announced                       *)
(***************************************************************************)

\* The last segment announced is the one on screen; before the first
\* announcement after a reset the first frame is.
ShownInv ==
  /\ HasCurrent(engine)
  /\ engine.emitted = NoneEmitted => Current(engine).at = 0
  /\ AnnouncedIsShown

\* An operation that keeps the frame on screen and what was announced.
LEMMA ShownSame ==
  ASSUME ShownInv, HasCurrent(engine'), Current(engine') = Current(engine),
         engine'.emitted = engine.emitted
  PROVE  ShownInv'
BY DEF ShownInv, AnnouncedIsShown

\* A schedule with a delay keeps the frame on screen.
LEMMA CurrentKept ==
  ASSUME Delayed, NEW e \in Sound, NEW g \in Sound, HasCurrent(e), Rescheduled(e, g)
  PROVE  Current(g) = Current(e) /\ HasCurrent(g)
<1>1. /\ e \in Engines /\ e.config \in Configs /\ g.cursor = e.cursor
      /\ e.cursor \in Nat /\ e.cursor + 1 \in 1 .. Len(e.buffer)
  BY AheadOf, FieldsOf DEF Sound, Ready, Rescheduled
<1>2. Accepts(e) => e.cursor + 1 <= e.cursor + e.config.d
  BY <1>1 DEF Accepts, Delayed
<1>3. g.buffer[e.cursor + 1] = e.buffer[e.cursor + 1]
  BY <1>1, <1>2 DEF Rescheduled
<1> QED BY <1>1, <1>3 DEF Current, Rescheduled

\* After a refresh the frame on screen is the tick's, and is announced.
LEMMA RefreshShows ==
  ASSUME Fed, Delayed, IInv, NEW config \in Configs, NEW k, NEW p, NEW g,
         RefreshTo(config, k, p, g)
  PROVE  /\ HasCurrent(p) /\ HasCurrent(engine')
         /\ Current(engine') = Current(p) /\ Current(p) \in Frame
         /\ engine'.emitted = Sig(Current(p))
<1>1. p \in Sound /\ p \in Engines
  BY DEF RefreshTo, Sound, Ready
<1>2. HasCurrent(p)
  BY <1>1, Fed, AheadOf DEF Sound
<1>3. HasCurrent(engine') /\ engine'.emitted = Sig(Current(p))
  BY <1>2, RefreshLeaves
<1>4. Current(engine') = Current(p)
  <2>1. CASE Sig(Current(p)) = p.emitted
    BY <1>2, <2>1 DEF RefreshTo
  <2>2. CASE Sig(Current(p)) # p.emitted
    <3>1. /\ g \in Sound /\ g \in Engines /\ Rescheduled(p, g)
          /\ engine' = [g EXCEPT !.emitted = Sig(Current(p)), !.held = Released(@, p.emitted)]
      BY <1>2, <2>2 DEF RefreshTo, Sound, Ready
    <3>2. Current(g) = Current(p)
      BY <1>1, <1>2, <3>1, Delayed, CurrentKept
    <3>3. engine'.buffer = g.buffer /\ engine'.cursor = g.cursor
      BY <3>1 DEF Engines
    <3> QED BY <3>2, <3>3 DEF Current
  <2> QED BY <2>1, <2>2
<1> QED BY <1>1, <1>2, <1>3, <1>4, AheadOf

LEMMA ShownSteps ==
  ASSUME Fed, Delayed
  PROVE  /\ Init => ShownInv
         /\ IInv /\ ShownInv /\ [Next]_vars => ShownInv'
<1>1. ASSUME NEW g \in Sound PROVE HasCurrent(g) /\ g \in Engines
  BY Fed, AheadOf DEF Sound, Ready
<1>3. Init => ShownInv
  <2> SUFFICES ASSUME NEW config \in Configs, engine = Started(config) PROVE ShownInv
    BY DEF Init
  <2>1. engine \in Sound /\ (HasCurrent(engine) => Current(engine).at = 0)
        /\ (HasCurrent(engine) => engine.emitted = Sig(Current(engine)))
    BY StartedFresh DEF Fresh
  <2> QED BY <1>1, <2>1 DEF ShownInv, AnnouncedIsShown
<1>4. IInv /\ ShownInv /\ [Next]_vars => ShownInv'
  <2> SUFFICES ASSUME IInv, ShownInv, [Next]_vars PROVE ShownInv'
    OBVIOUS
  <2>1. engine \in Sound /\ engine \in Engines /\ HasCurrent(engine)
    BY <1>1 DEF IInv
  <2>2. CASE Frames
    <3>1. PICK config \in Configs, elapsed \in Elapsed : Refresh(config, elapsed)
      BY <2>2 DEF Frames
    <3>2. PICK k \in 0 .. StepsMax : \E p, g : RefreshTo(config, k, p, g)
      BY <3>1, RefreshDoes
    <3>3. PICK p, g : RefreshTo(config, k, p, g)
      BY <3>2
    <3>4. /\ HasCurrent(engine') /\ Current(engine') = Current(p) /\ Current(p) \in Frame
          /\ engine'.emitted = Sig(Current(p))
      BY <3>3, Fed, Delayed, RefreshShows
    <3>5. engine'.emitted # NoneEmitted
      BY <3>4 DEF Sig, Frame, NoneEmitted
    <3> QED BY <3>4, <3>5 DEF ShownInv, AnnouncedIsShown
  <2>3. CASE Visible
    <3>1. /\ engine'.buffer = engine.buffer /\ engine'.cursor = engine.cursor
          /\ engine'.emitted = engine.emitted
      BY <2>1, <2>3 DEF Visible, Engines
    <3> QED BY <2>1, <3>1, ShownSame DEF HasCurrent, Current
  \* A schedule of clip, in an engine that may wait for its end.
  <2>4. ASSUME NEW clip \in Clips, engine' = Schedule(engine, clip) \/ engine' = Awaited(Schedule(engine, clip))
        PROVE  ShownInv'
    <3> DEFINE g == Schedule(engine, clip)
    <3>1. /\ g \in Sound /\ Rescheduled(engine, g)
          /\ engine'.buffer = g.buffer /\ engine'.cursor = g.cursor
          /\ engine'.emitted = g.emitted
      BY <2>1, <2>4, UserSchedules
    <3> HIDE DEF g
    <3>2. Current(g) = Current(engine) /\ HasCurrent(g) /\ g.emitted = engine.emitted
      BY <2>1, <3>1, Delayed, CurrentKept DEF Rescheduled
    <3> QED BY <3>1, <3>2, ShownSame DEF HasCurrent, Current
  <2>5. ASSUME NEW clip \in Clips, ScheduleAnim(clip) PROVE ShownInv'
    BY <2>4, <2>5 DEF ScheduleAnim
  <2>6. CASE ScheduleSeq
    <3>1. First \in Clips
      BY InputAssumption
    <3> QED BY <2>4, <2>6, <3>1 DEF ScheduleSeq
  <2>7. CASE ResetPos
    <3>1. engine.acc \in 0 .. BacklogMax * Sub /\ engine.config \in Configs
      BY <2>1, FieldsOf DEF Sound, Ready
    <3>2. engine' = TopUp([Blank(engine.config) EXCEPT !.acc = engine.acc])
      BY <2>7 DEF ResetPos, ResetEngine
    <3>3. engine' \in Sound /\ engine'.emitted = NoneEmitted
          /\ (HasCurrent(engine') => Current(engine').at = 0)
      BY <3>1, <3>2, FreshTopUp DEF Fresh
    <3> QED BY <1>1, <3>3 DEF ShownInv, AnnouncedIsShown
  <2>8. ASSUME NEW config \in Configs, ReplaceVRM(config) PROVE ShownInv'
    <3>1. engine' = Started(config)
      BY <2>8 DEF ReplaceVRM
    <3>2. engine' \in Sound /\ (HasCurrent(engine') => Current(engine').at = 0)
          /\ (HasCurrent(engine') => engine'.emitted = Sig(Current(engine')))
      BY <3>1, StartedFresh DEF Fresh
    <3> QED BY <1>1, <3>2 DEF ShownInv, AnnouncedIsShown
  <2>9. CASE DropLoaded
    <3>1. Head(drop.todo) \in Clips
      <4>1. drop.todo # <<>>
        BY <2>9 DEF DropLoaded, IInv
      <4> QED BY <4>1, NextFileIs DEF IInv
    <3> QED BY <2>4, <2>9, <3>1 DEF DropLoaded
  <2>10. ASSUME engine' = engine PROVE ShownInv'
    BY <2>1, <2>10, ShownSame
  <2>11. CASE DropFailed
    BY <2>10, <2>11 DEF DropFailed
  <2>12. ASSUME NEW files \in Files, DropFiles(files) PROVE ShownInv'
    BY <2>10, <2>12 DEF DropFiles
  <2>13. CASE UNCHANGED vars
    BY <2>10, <2>13 DEF vars
  <2> QED BY <2>2, <2>3, <2>5, <2>6, <2>7, <2>8, <2>9, <2>11, <2>12, <2>13 DEF Next
<1> QED BY <1>3, <1>4

LEMMA SpecShown ==
  ASSUME Fed, Delayed PROVE Spec => []ShownInv
<1>1. Init => ShownInv
  BY Fed, Delayed, ShownSteps
<1>2. IInv /\ ShownInv /\ [Next]_vars => ShownInv'
  BY Fed, Delayed, ShownSteps
<1> QED BY <1>1, <1>2, SpecInv, PTL DEF Spec

\* With a lookahead and a delay of at least one frame, the last segment
\* announced is the one on screen in every state.
THEOREM AnnouncementsMatch ==
  ASSUME Fed, Delayed PROVE Spec => []AnnouncedIsShown
<1>1. ShownInv => AnnouncedIsShown
  BY DEF ShownInv
<1>2. Spec => []ShownInv
  BY Fed, Delayed, SpecShown
<1> QED BY <1>1, <1>2, PTL

(***************************************************************************)
(* What a step may not do                                                  *)
(***************************************************************************)

\* A user's schedule touches none of the protected frames; a refused one none.
LEMMA ScheduleProtects ==
  ASSUME NEW e \in Sound, NEW clip \in Clips, NEW k \in 1 .. Len(e.buffer),
         Accepts(e) => k <= e.cursor + e.config.d
  PROVE  LET g == Schedule(e, clip)
         IN  /\ k <= Len(g.buffer) /\ g.buffer[k] = e.buffer[k]
             /\ k <= Len(Awaited(g).buffer) /\ Awaited(g).buffer[k] = e.buffer[k]
<1> DEFINE g == Schedule(e, clip)
<1>1. Rescheduled(e, g) /\ Awaited(g).buffer = g.buffer
  BY UserSchedules
<1> HIDE DEF g
<1>2. k <= Len(g.buffer) /\ g.buffer[k] = e.buffer[k]
  BY <1>1 DEF Rescheduled
<1> QED BY <1>1, <1>2 DEF g

\* No action but a refresh or a restart changes the frames the next d ones are
\* protected to be, also where the timeline is short of them.
THEOREM ProtectedStayProtected == Spec => ProtectedFrames
<1> DEFINE Restart == epoch' # epoch \/ \E config \in Configs : ReplaceVRM(config)
           Kept(k) == k <= Len(engine'.buffer) /\ engine'.buffer[k] = Buffer[k]
           Protects == Frames \/ Restart
                         \/ \A k \in 1 .. Len(Buffer) :
                              (Accepts(engine) => k <= engine.cursor + engine.config.d) => Kept(k)
<1>1. ASSUME IInv, [Next]_vars PROVE Protects
  <2>1. /\ engine \in Sound /\ engine \in Engines /\ Len(Buffer) \in Nat /\ Buffer = engine.buffer
        /\ \A k \in 1 .. Len(Buffer) : k <= Len(Buffer)
    BY <1>1, FieldsOf DEF IInv, Sound, Ready, Buffer
  <2>2. ASSUME engine'.buffer = engine.buffer PROVE Protects
    BY <2>1, <2>2
  <2>3. ASSUME NEW clip \in Clips,
               engine' = Schedule(engine, clip) \/ engine' = Awaited(Schedule(engine, clip))
        PROVE  Protects
    <3>1. \A k \in 1 .. Len(engine.buffer) :
            (Accepts(engine) => k <= engine.cursor + engine.config.d) =>
              k <= Len(engine'.buffer) /\ engine'.buffer[k] = engine.buffer[k]
      BY <2>1, <2>3, ScheduleProtects
    <3> QED BY <2>1, <3>1
  <2>4. CASE Visible
    BY <2>1, <2>2, <2>4 DEF Visible, Engines
  <2>5. ASSUME NEW clip \in Clips, ScheduleAnim(clip) PROVE Protects
    BY <2>3, <2>5 DEF ScheduleAnim
  <2>6. CASE ScheduleSeq
    BY <2>3, <2>6, InputAssumption DEF ScheduleSeq
  <2>7. CASE ResetPos
    <3>1. epoch' # epoch
      BY <1>1, <2>7 DEF ResetPos, IInv
    <3> QED BY <3>1
  <2>8. CASE DropLoaded
    <3>1. Head(drop.todo) \in Clips
      <4>1. drop.todo # <<>>
        BY <1>1, <2>8 DEF DropLoaded, IInv
      <4> QED BY <1>1, <4>1, NextFileIs DEF IInv
    <3> QED BY <2>3, <2>8, <3>1 DEF DropLoaded
  <2>9. CASE DropFailed
    BY <2>2, <2>9 DEF DropFailed
  <2>10. ASSUME NEW files \in Files, DropFiles(files) PROVE Protects
    BY <2>2, <2>10 DEF DropFiles
  <2>11. CASE UNCHANGED vars
    BY <2>2, <2>11 DEF vars
  <2> HIDE DEF Kept
  <2> QED BY <1>1, <2>4, <2>5, <2>6, <2>7, <2>8, <2>9, <2>10, <2>11 DEF Next
<1>2. IInv /\ [Next]_vars => Protects
  BY <1>1
<1> QED BY <1>2, SpecInv, PTL DEF Spec, ProtectedFrames

\* An engine that has run out of frames behind an emptied N field has one to
\* show again with the first frame played after the field holds a number.
THEOREM RecoveryIsImmediate ==
  ASSUME Refillable PROVE Spec => RecoversFromNaN
<1> DEFINE Recovers == engine'.config.n # NaN /\ engine'.cursor # engine.cursor
                         => HasCurrent(engine')
<1>1. ASSUME IInv, [Next]_vars PROVE Recovers
  <2>1. engine \in Sound /\ engine \in Engines /\ engine.config \in Configs
    BY <1>1 DEF IInv, Sound, Ready
  <2>2. ASSUME engine'.cursor = engine.cursor PROVE Recovers
    BY <2>2
  <2>3. CASE Frames
    <3>1. PICK config \in Configs, elapsed \in Elapsed : Refresh(config, elapsed)
      BY <2>3 DEF Frames
    <3>2. PICK k \in 0 .. StepsMax : \E p, g : RefreshTo(config, k, p, g)
      BY <1>1, <3>1, RefreshDoes
    <3>3. PICK p, g : RefreshTo(config, k, p, g)
      BY <3>2
    <3>4. /\ engine'.config = config /\ engine'.cursor = p.cursor
          /\ HasCurrent(p) => HasCurrent(engine')
      BY <1>1, <3>3, RefreshLeaves
    <3> DEFINE e == [engine EXCEPT !.config = config]
    <3>5. e.config = config /\ e.cursor = engine.cursor
      BY <2>1, SoundConfig
    <3>6. Played(e, p, k)
      BY <3>3 DEF RefreshTo
    <3> HIDE DEF e
    <3>7. /\ k = 0 => p.cursor = engine.cursor
          /\ config.n # NaN /\ k # 0 => HasCurrent(p)
      BY <3>5, <3>6, Refillable DEF Played
    <3> QED BY <3>4, <3>7
  <2>4. CASE Visible
    BY <2>1, <2>2, <2>4 DEF Visible, Engines
  <2>5. ASSUME NEW clip \in Clips,
               engine' = Schedule(engine, clip) \/ engine' = Awaited(Schedule(engine, clip))
        PROVE  engine'.cursor = engine.cursor
    BY <2>1, <2>5, UserSchedules DEF Rescheduled
  <2>6. ASSUME NEW clip \in Clips, ScheduleAnim(clip) PROVE Recovers
    BY <2>2, <2>5, <2>6 DEF ScheduleAnim
  <2>7. CASE ScheduleSeq
    BY <2>2, <2>5, <2>7, InputAssumption DEF ScheduleSeq
  <2>8. CASE ResetPos
    <3>1. engine' = TopUp([Blank(engine.config) EXCEPT !.acc = engine.acc])
      BY <2>8 DEF ResetPos, ResetEngine
    <3>2. engine.acc \in 0 .. BacklogMax * Sub
      BY <2>1, FieldsOf
    <3>3. Fresh(engine', engine.config)
      BY <2>1, <3>1, <3>2, FreshTopUp
    <3> QED BY <3>3, Refillable DEF Fresh
  <2>9. ASSUME NEW config \in Configs, ReplaceVRM(config) PROVE Recovers
    <3>1. Fresh(engine', config)
      BY <2>9, StartedFresh DEF ReplaceVRM
    <3> QED BY <3>1, Refillable DEF Fresh
  <2>10. CASE DropLoaded
    <3>1. Head(drop.todo) \in Clips
      <4>1. drop.todo # <<>>
        BY <1>1, <2>10 DEF DropLoaded, IInv
      <4> QED BY <1>1, <4>1, NextFileIs DEF IInv
    <3> QED BY <2>2, <2>5, <2>10, <3>1 DEF DropLoaded
  <2>11. CASE DropFailed
    BY <2>2, <2>11 DEF DropFailed
  <2>12. ASSUME NEW files \in Files, DropFiles(files) PROVE Recovers
    BY <2>2, <2>12 DEF DropFiles
  <2>13. CASE UNCHANGED vars
    BY <2>2, <2>13 DEF vars
  <2> QED BY <1>1, <2>3, <2>4, <2>6, <2>7, <2>8, <2>9, <2>10, <2>11, <2>12, <2>13 DEF Next
<1>2. IInv /\ [Next]_vars => Recovers
  BY <1>1
<1> QED BY <1>2, SpecInv, PTL DEF Spec, RecoversFromNaN

\* The frame on screen moves along its segment by the frames a tick plays, or
\* to the first frames of another: it never jumps, whatever is scheduled.
THEOREM PlaybackIsSmooth ==
  ASSUME Fed, Delayed PROVE Spec => SmoothPlayback
<1> DEFINE x == Current(engine)
           y == Current(engine')
           Smooth == \/ engine'.cursor = 0
                     \/ x.tag = y.tag /\ x.at <= y.at /\ y.at <= x.at + StepsMax
                     \/ x.tag # y.tag /\ y.at < StepsMax
<1>1. ASSUME IInv, ShownInv, [Next]_vars PROVE Smooth
  <2>1. /\ engine \in Sound /\ engine \in Engines /\ engine.config \in Configs
        /\ HasCurrent(engine) /\ x \in Frame /\ StepsMax \in Nat \ {0}
    BY <1>1, AheadOf, LimitAssumption DEF IInv, Sound, Ready, ShownInv
  <2>2. ASSUME y = x PROVE Smooth
    <3>1. x.at \in Nat
      BY <2>1 DEF Frame
    <3>2. x.at <= x.at /\ x.at <= x.at + StepsMax
      BY <2>1, <3>1
    <3> QED BY <2>2, <3>2
  <2>3. CASE Frames
    <3>1. PICK config \in Configs, elapsed \in Elapsed : Refresh(config, elapsed)
      BY <2>3 DEF Frames
    <3>2. PICK k \in 0 .. StepsMax : \E p, g : RefreshTo(config, k, p, g)
      BY <1>1, <3>1, RefreshDoes
    <3>3. PICK p, g : RefreshTo(config, k, p, g)
      BY <3>2
    <3>4. /\ HasCurrent(p) /\ y = Current(p) /\ y \in Frame /\ p \in Engines
      BY <1>1, <3>3, Fed, Delayed, RefreshShows DEF RefreshTo, Sound, Ready
    <3> DEFINE e == [engine EXCEPT !.config = config]
    <3>5. Current(e) = x /\ e.emitted = engine.emitted
      BY <2>1, SoundConfig DEF Current
    <3>6. Played(e, p, k)
      BY <3>3 DEF RefreshTo
    <3> HIDE DEF e
    <3>7. InPlace(p, x, k) /\ p.emitted = engine.emitted
      BY <3>5, <3>6, Fed DEF Played
    <3>8. k \in Nat /\ k <= StepsMax /\ x.at \in Nat /\ y.at \in Nat /\ StepsMax \in Nat
      BY <2>1, <3>4 DEF Frame
    <3>9. y.at < k \/ (y.tag = x.tag /\ y.at = x.at + k)
      BY <3>4, <3>7 DEF InPlace
    <3>10. CASE engine.emitted = NoneEmitted
      <4>1. x.at = 0
        BY <1>1, <3>10 DEF ShownInv
      <4> HIDE DEF x, y
      <4> QED BY <3>8, <3>9, <4>1
    <3>11. CASE engine.emitted # NoneEmitted
      <4>1. p.emitted.tag = x.tag
        BY <1>1, <3>7, <3>11 DEF ShownInv, AnnouncedIsShown, Sig
      <4>2. /\ p.cursor \in Nat /\ Len(p.buffer) \in Nat
            /\ p.cursor + 1 \in p.cursor + 1 .. Len(p.buffer)
        BY <3>4, FieldsOf DEF HasCurrent
      <4>3. y.tag = x.tag => y.at = x.at + k + ((p.cursor + 1) - (p.cursor + 1))
        BY <3>4, <3>7, <4>1, <4>2 DEF InPlace, Current
      <4>4. (p.cursor + 1) - (p.cursor + 1) = 0
        BY <4>2
      <4> HIDE DEF x, y
      <4>5. y.tag = x.tag => y.at = x.at + k
        BY <3>8, <4>3, <4>4
      <4> QED BY <3>8, <3>9, <4>5
    <3> QED BY <3>10, <3>11
  <2>4. CASE Visible
    BY <2>1, <2>2, <2>4 DEF Visible, Engines, Current
  <2>5. ASSUME NEW clip \in Clips,
               engine' = Schedule(engine, clip) \/ engine' = Awaited(Schedule(engine, clip))
        PROVE  Smooth
    <3> DEFINE g == Schedule(engine, clip)
    <3>1. /\ g \in Sound /\ Rescheduled(engine, g)
          /\ engine'.buffer = g.buffer /\ engine'.cursor = g.cursor
      BY <2>1, <2>5, UserSchedules
    <3> HIDE DEF g
    <3>2. Current(g) = x
      BY <2>1, <3>1, Delayed, CurrentKept
    <3> QED BY <2>2, <3>1, <3>2 DEF Current
  <2>6. ASSUME NEW clip \in Clips, ScheduleAnim(clip) PROVE Smooth
    BY <2>5, <2>6 DEF ScheduleAnim
  <2>7. CASE ScheduleSeq
    BY <2>5, <2>7, InputAssumption DEF ScheduleSeq
  <2>8. CASE ResetPos
    <3>1. engine' = TopUp([Blank(engine.config) EXCEPT !.acc = engine.acc])
      BY <2>8 DEF ResetPos, ResetEngine
    <3>2. engine.acc \in 0 .. BacklogMax * Sub
      BY <2>1, FieldsOf
    <3> QED BY <2>1, <3>1, <3>2, FreshTopUp DEF Fresh
  <2>9. ASSUME NEW config \in Configs, ReplaceVRM(config) PROVE Smooth
    BY <2>9, StartedFresh DEF ReplaceVRM, Fresh
  <2>10. CASE DropLoaded
    <3>1. Head(drop.todo) \in Clips
      <4>1. drop.todo # <<>>
        BY <1>1, <2>10 DEF DropLoaded, IInv
      <4> QED BY <1>1, <4>1, NextFileIs DEF IInv
    <3> QED BY <2>5, <2>10, <3>1 DEF DropLoaded
  <2>11. CASE DropFailed
    BY <2>2, <2>11 DEF DropFailed
  <2>12. ASSUME NEW files \in Files, DropFiles(files) PROVE Smooth
    BY <2>2, <2>12 DEF DropFiles
  <2>13. CASE UNCHANGED vars
    BY <2>2, <2>13 DEF vars
  <2> HIDE DEF Smooth
  <2> QED BY <1>1, <2>3, <2>4, <2>6, <2>7, <2>8, <2>9, <2>10, <2>11, <2>12, <2>13 DEF Next
<1>2. IInv /\ ShownInv /\ [Next]_vars => Smooth
  BY <1>1
<1>3. Spec => []ShownInv
  BY Fed, Delayed, SpecShown
<1> QED BY <1>2, <1>3, SpecInv, PTL DEF Spec, SmoothPlayback

\* A segment whose end is on screen has no frame to come: j is one of tag t.
LEMMA SegmentIsOver ==
  ASSUME NEW p \in Sound, NEW x \in Frame, NEW k \in Nat, InPlace(p, x, k),
         HasCurrent(p), p.emitted = Sig(x), x.src = "action", Sig(Current(p)) # p.emitted
  PROVE  \A j \in p.cursor + 1 .. Len(p.buffer) : p.buffer[j].tag # x.tag
<1> DEFINE c == p.cursor + 1
           T == {j \in c .. Len(p.buffer) : p.buffer[j].tag = x.tag}
<1>1. /\ p \in Engines /\ Whole(p.buffer) /\ c \in Nat \ {0} /\ Len(p.buffer) \in Nat
      /\ c <= Len(p.buffer) /\ Current(p) = p.buffer[c]
  BY FieldsOf, AheadOf DEF Sound, Ready, Current
<1>2. \A j \in c .. Len(p.buffer) :
        p.buffer[j].tag = x.tag =>
          p.buffer[j].at = x.at + k + (j - c) /\ p.buffer[j].src = "action"
  BY DEF InPlace, Sig
<1>3. SUFFICES ASSUME T # {} PROVE FALSE
  OBVIOUS
<1>4. PICK j \in T : \A i \in T : j <= i
  <2>1. T \in SUBSET Nat
    BY <1>1
  <2> HIDE DEF T
  <2> QED BY <1>3, <2>1, LeastNumber
<1>5. j \in c .. Len(p.buffer) /\ p.buffer[j].tag = x.tag /\ j \in 1 .. Len(p.buffer)
  BY <1>1
<1>6. j # c
  <2>1. p.buffer[c].tag # x.tag
    <3>1. c \in c .. Len(p.buffer)
      BY <1>1
    <3>2. p.buffer[c].tag = x.tag => p.buffer[c].src = "action"
      BY <1>2, <3>1
    <3> QED BY <1>1, <3>2 DEF Sig
  <2> QED BY <1>5, <2>1
<1> HIDE DEF c
<1>7. j - 1 \in c .. Len(p.buffer) /\ j - 1 \in 1 .. Len(p.buffer) /\ j = (j - 1) + 1
  BY <1>1, <1>5, <1>6
<1>8. p.buffer[j - 1].tag # x.tag
  BY <1>1, <1>4, <1>5, <1>7
<1>9. p.buffer[j].at = 0
  BY <1>1, <1>5, <1>7, <1>8 DEF Whole
<1>10. p.buffer[j].at = x.at + k + (j - c) /\ x.at \in Nat
  BY <1>2, <1>5 DEF Frame
<1> QED BY <1>1, <1>5, <1>6, <1>9, <1>10

\* The drop handler goes on to its next file only when the clip before it has
\* no frame left to come, and none is scheduled under its tag by a listener.
THEOREM DropsOneAtATime ==
  ASSUME Fed, Delayed PROVE Spec => DropOneAtATime
<1> DEFINE Over == \A k \in engine'.cursor + 1 .. Len(engine'.buffer) :
                     Sig(engine'.buffer[k]) # [tag |-> drop'.tag, src |-> "action"]
           OneAtATime == Len(drop'.todo) < Len(drop.todo) /\ drop'.tag # 0 => Over
<1>1. ASSUME IInv, ShownInv, [Next]_vars PROVE OneAtATime
  <2>1. /\ engine \in Sound /\ engine \in Engines /\ Len(drop.todo) \in Nat
        /\ HasCurrent(engine)
        /\ drop \in [stage : DropStage, todo : Seq(Clips), tag : Nat]
        /\ drop.stage = "idle" <=> drop.todo = <<>>
    BY <1>1, LenProperties DEF IInv, Sound, Ready, ShownInv
  <2>2. ASSUME drop'.todo = drop.todo \/ drop'.tag = 0 PROVE OneAtATime
    BY <2>1, <2>2
  <2>3. CASE Frames
    <3>1. PICK config \in Configs, elapsed \in Elapsed : Refresh(config, elapsed)
      BY <2>3 DEF Frames
    <3>2. PICK k \in 0 .. StepsMax : \E p, g : RefreshTo(config, k, p, g)
      BY <1>1, <3>1, RefreshDoes
    <3>3. PICK p, g : RefreshTo(config, k, p, g)
      BY <3>2
    <3>4a. engine'.cursor = p.cursor
      BY <1>1, <3>3, RefreshLeaves
    <3>4b. drop' = drop \/ /\ drop.stage = "waiting" /\ Wakes(p.emitted, drop.tag)
                           /\ drop' = NextFile(drop)
                           /\ HasCurrent(p) /\ Sig(Current(p)) # p.emitted
                           /\ engine'.buffer = g.buffer /\ Rescheduled(p, g)
      BY <1>1, <3>3, RefreshLeaves
    <3>4. /\ p \in Sound /\ engine'.cursor = p.cursor
          /\ drop' = drop \/ /\ drop.stage = "waiting" /\ Wakes(p.emitted, drop.tag)
                             /\ drop' = NextFile(drop)
                             /\ HasCurrent(p) /\ Sig(Current(p)) # p.emitted
                             /\ engine'.buffer = g.buffer /\ Rescheduled(p, g)
      BY <3>3, <3>4a, <3>4b DEF RefreshTo
    <3>5. CASE drop' = drop
      BY <2>2, <3>5
    <3>6. CASE drop' # drop
      <4> DEFINE x == Current(engine)
                 e == [engine EXCEPT !.config = config]
      <4>1. /\ Wakes(p.emitted, drop.tag) /\ drop' = NextFile(drop) /\ drop.stage = "waiting"
            /\ HasCurrent(p) /\ Sig(Current(p)) # p.emitted
            /\ engine'.buffer = g.buffer /\ Rescheduled(p, g)
        BY <3>4, <3>6
      <4>2. Current(e) = x /\ e.emitted = engine.emitted /\ x \in Frame
        BY <2>1, SoundConfig, AheadOf DEF Current
      <4>3. Played(e, p, k)
        BY <3>3 DEF RefreshTo
      <4> HIDE DEF e
      <4>4. InPlace(p, x, k) /\ p.emitted = engine.emitted
        BY <4>2, <4>3, Fed DEF Played
      <4>5. p.emitted = Sig(x) /\ x.tag = drop.tag /\ x.src = "action"
        <5>1. engine.emitted = [tag |-> drop.tag, src |-> "action"]
          BY <4>1, <4>4 DEF Wakes
        <5>2. engine.emitted # NoneEmitted
          BY <5>1 DEF NoneEmitted
        <5>3. engine.emitted = Sig(x)
          BY <1>1, <5>2 DEF ShownInv, AnnouncedIsShown
        <5> QED BY <4>4, <5>1, <5>3 DEF Sig
      <4> HIDE DEF x
      <4>6. \A j \in p.cursor + 1 .. Len(p.buffer) : p.buffer[j].tag # x.tag
        <5>1. k \in Nat
          BY LimitAssumption
        <5> QED BY <3>4, <4>1, <4>2, <4>4, <4>5, <5>1, SegmentIsOver
      <4>7. drop'.tag = x.tag
        <5>1. drop.todo # <<>>
          BY <2>1, <4>1
        <5> QED BY <2>1, <4>1, <4>5, <5>1, NextFileIs
      <4>8. Over
        <5> SUFFICES ASSUME NEW j \in p.cursor + 1 .. Len(g.buffer)
                     PROVE  g.buffer[j].tag # x.tag
          BY <3>4, <4>1, <4>7 DEF Sig
        <5>1. p.cursor \in Nat /\ Len(p.buffer) \in Nat
          BY <3>4, FieldsOf DEF Sound, Ready
        <5>2. j \in 1 .. Len(g.buffer)
          BY <5>1
        <5>3. \/ j <= Len(p.buffer) /\ g.buffer[j] = p.buffer[j]
              \/ g.buffer[j].tag \notin {p.emitted.tag} \cup p.held
          BY <4>1, <5>2 DEF Rescheduled
        <5>4. CASE j <= Len(p.buffer) /\ g.buffer[j] = p.buffer[j]
          <6>1. j \in p.cursor + 1 .. Len(p.buffer)
            BY <5>1, <5>4
          <6> QED BY <4>6, <5>4, <6>1
        <5>5. CASE g.buffer[j].tag \notin {p.emitted.tag} \cup p.held
          BY <4>5, <5>5 DEF Sig
        <5> QED BY <5>3, <5>4, <5>5
      <4> QED BY <4>8
    <3> QED BY <3>5, <3>6
  <2>4. CASE Visible
    BY <2>2, <2>4 DEF Visible
  <2>5. ASSUME NEW clip \in Clips, ScheduleAnim(clip) PROVE OneAtATime
    BY <2>2, <2>5 DEF ScheduleAnim
  <2>6. CASE ScheduleSeq
    BY <2>2, <2>6 DEF ScheduleSeq
  <2>7. CASE ResetPos
    BY <2>2, <2>7 DEF ResetPos
  <2>8. ASSUME NEW config \in Configs, ReplaceVRM(config) PROVE OneAtATime
    <3>1. drop'.todo = drop.todo
      BY <2>1, <2>8 DEF ReplaceVRM
    <3> QED BY <2>2, <3>1
  <2>9. CASE DropLoaded
    <3>1. drop'.todo = drop.todo \/ drop'.tag = 0
      <4>1. CASE Accepts(engine)
        BY <2>1, <2>9, <4>1 DEF DropLoaded
      <4>2. CASE ~Accepts(engine)
        <5>1. drop' = [NextFile(drop) EXCEPT !.tag = 0]
          BY <2>9, <4>2 DEF DropLoaded
        <5> QED BY <2>1, <5>1 DEF NextFile
      <4> QED BY <4>1, <4>2
    <3> QED BY <2>2, <3>1
  <2>10. CASE DropFailed
    <3>1. drop' = [NextFile(drop) EXCEPT !.tag = 0]
      BY <2>10 DEF DropFailed
    <3>2. drop'.tag = 0
      BY <2>1, <3>1 DEF NextFile
    <3> QED BY <2>2, <3>2
  <2>11. ASSUME NEW files \in Files, DropFiles(files) PROVE OneAtATime
    <3>1. drop.todo = <<>> /\ drop' = [drop EXCEPT !.stage = "loading", !.todo = files]
      BY <2>1, <2>11 DEF DropFiles
    <3>2. Len(drop.todo) = 0 /\ Len(files) \in Nat /\ drop'.todo = files
      BY <2>1, <3>1, InputAssumption, LenProperties
    <3> QED BY <3>2
  <2>12. CASE UNCHANGED vars
    BY <2>2, <2>12 DEF vars
  <2> HIDE DEF OneAtATime
  <2> QED BY <1>1, <2>3, <2>4, <2>5, <2>6, <2>7, <2>8, <2>9, <2>10, <2>11, <2>12 DEF Next
<1>2. IInv /\ ShownInv /\ [Next]_vars => OneAtATime
  BY <1>1
<1>3. Spec => []ShownInv
  BY Fed, Delayed, SpecShown
<1> QED BY <1>2, <1>3, SpecInv, PTL DEF Spec, DropOneAtATime
=============================================================================
