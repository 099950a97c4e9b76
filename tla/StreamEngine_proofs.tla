------------------------- MODULE StreamEngine_proofs -------------------------
(***************************************************************************)
(* What the operators of StreamEngine do to an engine, for every clip,     *)
(* every limit and every number of frames: the facts the invariants of     *)
(* the page rest on.                                                       *)
(*                                                                         *)
(* The two recursive functions of the engine (the frames played by a tick, *)
(* the listeners run by an event) are defined for every argument by a set  *)
(* form of induction: a set of numbers has a least element, which follows  *)
(* from the library's theorem that the order of numbers is well founded.   *)
(***************************************************************************)
EXTENDS StreamEngine, FiniteSetTheorems, SequenceTheorems, TLAPS

(***************************************************************************)
(* Numbers                                                                 *)
(***************************************************************************)

LEMMA LeastNumber ==
  ASSUME NEW S \in SUBSET Nat, S # {}
  PROVE  \E n \in S : \A m \in S : n <= m
<1> DEFINE R == OpToRel(<, Nat)
<1>1. IsWellFoundedOn(R, Nat)
  BY NatLessThanWellFounded
<1>2. \A x, y \in Nat : x < y => <<x, y>> \in R
  BY DEF OpToRel
<1> HIDE DEF R
<1>3. PICK n \in S : \A y \in S : ~ (<<y, n>> \in R)
  BY <1>1, WFMin
<1>4. \A m \in S : n <= m
  <2> SUFFICES ASSUME NEW m \in S PROVE n <= m
    OBVIOUS
  <2>1. ~ (m < n)
    BY <1>2, <1>3
  <2> QED BY <2>1
<1> QED BY <1>4

\* Induction on the numbers up to a bound, for a predicate given as a set.
LEMMA UpTo ==
  ASSUME NEW n \in Nat, NEW S, 0 \in S,
         \A k \in 0 .. n - 1 : k \in S => k + 1 \in S
  PROVE  \A k \in 0 .. n : k \in S
<1> DEFINE Out == {k \in 0 .. n : k \notin S}
<1> SUFFICES ASSUME Out # {} PROVE FALSE
  OBVIOUS
<1>1. PICK k \in Out : \A m \in Out : k <= m
  <2>1. Out \in SUBSET Nat
    OBVIOUS
  <2> HIDE DEF Out
  <2> QED BY <2>1, LeastNumber
<1>2. k # 0 /\ k \in 0 .. n
  OBVIOUS
<1>3. k - 1 \in 0 .. n - 1 /\ ~ (k <= k - 1)
  BY <1>2
<1>4. k - 1 \in S
  BY <1>1, <1>3
<1> QED BY <1>1, <1>3, <1>4

LEMMA DivMod ==
  ASSUME NEW a \in Nat, NEW l \in Nat \ {0}
  PROVE  /\ a \div l \in Nat /\ a % l \in 0 .. l - 1
         /\ a = ((a \div l) * l) + (a % l)
OBVIOUS

LEMMA DivUnique ==
  ASSUME NEW l \in Nat \ {0}, NEW n \in Int, NEW m \in Int,
         NEW i \in 0 .. l - 1, NEW j \in 0 .. l - 1, (n * l) + i = (m * l) + j
  PROVE  n = m /\ i = j
<1>1. CASE n < m
  <2>1. (n + 1) * l <= m * l
    BY <1>1
  <2>2. (n + 1) * l = (n * l) + l
    OBVIOUS
  <2> QED BY <2>1, <2>2
<1>2. CASE m < n
  <2>1. (m + 1) * l <= n * l
    BY <1>2
  <2>2. (m + 1) * l = (m * l) + l
    OBVIOUS
  <2> QED BY <2>1, <2>2
<1>3. CASE m = n
  BY <1>3
<1> QED BY <1>1, <1>2, <1>3

\* As many segments of l frames as x frames need, and not one more.
LEMMA CeilDiv ==
  ASSUME NEW x \in Nat \ {0}, NEW l \in Nat \ {0}
  PROVE  LET t == (x + l - 1) \div l
         IN  t \in Nat \ {0} /\ t * l >= x /\ t * l < x + l
<1> DEFINE a == x + l - 1
           t == a \div l
<1>1. a \in Nat /\ a >= l
  OBVIOUS
<1>2. t \in Nat /\ a % l \in 0 .. l - 1 /\ a = (t * l) + (a % l)
  BY <1>1, DivMod
<1>3. t # 0
  BY <1>1, <1>2
<1> HIDE DEF t
<1>4. t * l >= x /\ t * l < x + l
  BY <1>2
<1> QED BY <1>2, <1>3, <1>4 DEF t

(***************************************************************************)
(* Engines                                                                 *)
(***************************************************************************)

Numbers == Nat \cup {NaN}

Engines ==
  {e \in [buffer : Seq(Frame), cursor : 0 .. HistoryMax, held : SUBSET Nat,
          acc : 0 .. BacklogMax * Sub, emitted : [tag : Nat, src : Source \cup {"none"}],
          config : [n : Numbers, m : Numbers, d : Numbers]] : IsFiniteSet(e.held)}

IdleLen == ClipLen[Idle]

LEMMA Lens == IdleLen \in Nat \ {0} /\ \A c \in Clips : ClipLen[c] \in Nat \ {0}
BY ClipAssumption DEF IdleLen

LEMMA Numeric ==
  \A x \in Numbers, y \in Numbers :
    /\ x # NaN <=> x \in Nat
    /\ Less(x, y) <=> x \in Nat /\ y \in Nat /\ x < y
BY NaNAssumption DEF Numbers, Less

LEMMA FieldsOf ==
  ASSUME NEW e \in Engines
  PROVE  /\ e.buffer \in Seq(Frame) /\ Len(e.buffer) \in Nat
         /\ \A k \in 1 .. Len(e.buffer) : e.buffer[k] \in Frame
         /\ e.cursor \in Nat /\ e.cursor <= HistoryMax
         /\ e.held \in SUBSET Nat /\ IsFiniteSet(e.held)
         /\ e.acc \in 0 .. BacklogMax * Sub
         /\ e.emitted \in [tag : Nat, src : Source \cup {"none"}]
         /\ e.config.n \in Numbers /\ e.config.m \in Numbers /\ e.config.d \in Numbers
         /\ e.config \in [n : Numbers, m : Numbers, d : Numbers]
<1>1. /\ e.buffer \in Seq(Frame) /\ e.cursor \in 0 .. HistoryMax
      /\ e.held \in SUBSET Nat /\ IsFiniteSet(e.held)
      /\ e.acc \in 0 .. BacklogMax * Sub
      /\ e.emitted \in [tag : Nat, src : Source \cup {"none"}]
      /\ e.config \in [n : Numbers, m : Numbers, d : Numbers]
  BY DEF Engines
<1>2. e.cursor \in Nat /\ e.cursor <= HistoryMax
  BY <1>1, LimitAssumption
<1>3. /\ Len(e.buffer) \in Nat
      /\ \A k \in 1 .. Len(e.buffer) : e.buffer[k] \in Frame
  BY <1>1, ElementOfSeq, LenProperties
<1> QED BY <1>1, <1>2, <1>3

\* The buffer, and the place on it, may be replaced.
LEMMA WithBuffer ==
  ASSUME NEW e \in Engines, NEW b \in Seq(Frame), NEW c \in 0 .. HistoryMax
  PROVE  /\ [e EXCEPT !.buffer = b] \in Engines
         /\ [e EXCEPT !.cursor = c] \in Engines
         /\ [e EXCEPT !.cursor = c, !.buffer = b] \in Engines
BY DEF Engines

(***************************************************************************)
(* New tags: as many as are asked for, each unknown and each another one   *)
(***************************************************************************)

LEMMA FreshTag ==
  ASSUME NEW known, IsFiniteSet(known), NEW n \in Nat \ {0}
  PROVE  \E t \in 1 .. Cardinality(known) + n :
           t \notin known /\ Cardinality(1 .. t \ known) = n
<1> DEFINE new(t) == 1 .. t \ known
           top == Cardinality(known) + n
           S == {t \in Nat : Cardinality(new(t)) >= n}
<1>1. Cardinality(known) \in Nat /\ top \in Nat
  BY FS_CardinalityType
<1>2. \A t \in Nat : IsFiniteSet(new(t)) /\ Cardinality(new(t)) \in Nat
  <2> SUFFICES ASSUME NEW t \in Nat
               PROVE  IsFiniteSet(new(t)) /\ Cardinality(new(t)) \in Nat
    OBVIOUS
  <2>1. IsFiniteSet(1 .. t)
    BY FS_Interval
  <2>2. IsFiniteSet(new(t))
    BY <2>1, FS_Difference
  <2> HIDE DEF new
  <2> QED BY <2>2, FS_CardinalityType
<1>3. top \in S
  <2>1. IsFiniteSet(1 .. top) /\ Cardinality(1 .. top) = top
    BY <1>1, FS_Interval
  <2>2. Cardinality(new(top)) = top - Cardinality(1 .. top \cap known)
    BY <2>1, FS_Difference
  <2>3. /\ Cardinality(1 .. top \cap known) <= Cardinality(known)
        /\ Cardinality(1 .. top \cap known) \in Nat
    <3>1. (1 .. top) \cap known \subseteq known
      OBVIOUS
    <3> QED BY <3>1, FS_Subset, FS_CardinalityType
  <2> HIDE DEF new
  <2> QED BY <1>1, <1>2, <2>2, <2>3
<1>4. PICK t \in S : \A u \in S : t <= u
  <2>1. S \in SUBSET Nat /\ S # {}
    BY <1>3
  <2> HIDE DEF S
  <2> QED BY <2>1, LeastNumber
<1>5. t \in Nat /\ t <= top /\ Cardinality(new(t)) >= n
  BY <1>3, <1>4
<1>6. t # 0
  <2>1. new(0) = {}
    OBVIOUS
  <2>2. Cardinality(new(0)) = 0
    BY <2>1, FS_EmptySet
  <2> HIDE DEF new
  <2> QED BY <1>5, <2>2
<1>7. t - 1 \in Nat /\ Cardinality(new(t - 1)) < n
  <2>1. t - 1 \in Nat /\ t - 1 \notin S
    BY <1>4, <1>5, <1>6
  <2> HIDE DEF new
  <2> QED BY <1>2, <2>1
<1>8. t \notin known
  <2> SUFFICES ASSUME t \in known PROVE FALSE
    OBVIOUS
  <2>1. new(t) = new(t - 1)
    BY <1>5, <1>6
  <2> HIDE DEF new
  <2> QED BY <1>2, <1>5, <1>7, <2>1
<1>9. Cardinality(new(t)) = Cardinality(new(t - 1)) + 1
  <2>1. new(t) = new(t - 1) \cup {t} /\ t \notin new(t - 1)
    BY <1>5, <1>6, <1>8
  <2>2. IsFiniteSet(new(t - 1))
    BY <1>2, <1>7
  <2> HIDE DEF new
  <2> QED BY <2>1, <2>2, FS_AddElement
<1>10. Cardinality(new(t)) = n
  <2> HIDE DEF new
  <2> QED BY <1>2, <1>5, <1>7, <1>9
<1>11. t \in 1 .. top
  BY <1>1, <1>5, <1>6
<1> QED BY <1>8, <1>10, <1>11

LEMMA KnownFinite ==
  ASSUME NEW e \in Engines
  PROVE  IsFiniteSet(KnownTags(e))
<1> DEFINE S == 1 .. Len(e.buffer)
           T == {e.buffer[k].tag : k \in S}
           f == [k \in S |-> e.buffer[k].tag]
<1>1. IsFiniteSet(S)
  BY FieldsOf, FS_Interval
<1>2. f \in Surjection(S, T)
  BY DEF Surjection
<1>3. IsFiniteSet(T)
  <2> HIDE DEF S, T, f
  <2> QED BY <1>1, <1>2, FS_Surjection
<1>4. IsFiniteSet(T \cup {e.emitted.tag})
  <2> HIDE DEF T
  <2> QED BY <1>3, FS_AddElement
<1>5. IsFiniteSet(e.held)
  BY FieldsOf
<1>6. IsFiniteSet((T \cup {e.emitted.tag}) \cup e.held)
  <2> HIDE DEF T
  <2> QED BY <1>4, <1>5, FS_Union
<1> QED BY <1>6 DEF KnownTags

\* No new tag is known, and no two are the same.
LEMMA NewTags ==
  ASSUME NEW e \in Engines
  PROVE  /\ \A n \in Nat \ {0} : NextTag(e, n) \in Nat \ {0} /\ NextTag(e, n) \notin KnownTags(e)
         /\ \A n, m \in Nat \ {0} : NextTag(e, n) = NextTag(e, m) => n = m
<1> DEFINE known == KnownTags(e)
           good(t, n) == t \notin known /\ Cardinality(1 .. t \ known) = n
<1>1. IsFiniteSet(known) /\ Cardinality(known) \in Nat
  BY KnownFinite, FS_CardinalityType
<1>2. \A n \in Nat \ {0} :
        NextTag(e, n) \in 1 .. Cardinality(known) + n /\ good(NextTag(e, n), n)
  <2> SUFFICES ASSUME NEW n \in Nat \ {0}
               PROVE  /\ NextTag(e, n) \in 1 .. Cardinality(known) + n
                      /\ good(NextTag(e, n), n)
    OBVIOUS
  <2>1. \E t \in 1 .. Cardinality(known) + n : good(t, n)
    <3> HIDE DEF known
    <3> QED BY <1>1, FreshTag
  <2>2. NextTag(e, n) = CHOOSE t \in 1 .. Cardinality(known) + n : good(t, n)
    BY DEF NextTag
  <2> HIDE DEF known, good
  <2> QED BY <2>1, <2>2
<1>3. \A n \in Nat \ {0} : NextTag(e, n) \in Nat \ {0}
  <2> HIDE DEF known, good
  <2>1. \A n \in Nat \ {0} : NextTag(e, n) \in 1 .. Cardinality(known) + n
    BY <1>2
  <2> QED BY <1>1, <2>1
<1> QED BY <1>2, <1>3

(***************************************************************************)
(* Timelines: segments are whole, action frames end their segment, and     *)
(* idle follows idle only                                                  *)
(***************************************************************************)

Whole(b) ==
  \A j, k \in 1 .. Len(b) :
    /\ b[j].tag = b[k].tag =>
         /\ b[k].at - b[j].at = k - j
         /\ b[k].clip = b[j].clip
    /\ k = j + 1 /\ b[j].tag # b[k].tag => b[k].at = 0

Ordered(b) ==
  \A j, k \in 1 .. Len(b) :
    b[j].tag = b[k].tag /\ j <= k /\ b[j].src = "action" => b[k].src = "action"

Blended(b) ==
  \A k \in 2 .. Len(b) :
    b[k - 1].tag # b[k].tag =>
      (b[k].src = "idle" <=> b[k - 1].src = "idle" /\ b[k].clip = Idle)

Apart(b, c) == \A j \in 1 .. Len(b), k \in 1 .. Len(c) : b[j].tag # c[k].tag

\* A timeline continued by segments of other tags.
LEMMA Joined ==
  ASSUME NEW b \in Seq(Frame), NEW c \in Seq(Frame), Apart(b, c)
  PROVE  /\ Whole(b) /\ Whole(c) /\ (c # <<>> => c[1].at = 0) => Whole(b \o c)
         /\ Ordered(b) /\ Ordered(c) => Ordered(b \o c)
         /\ /\ Blended(b) /\ Blended(c)
            /\ \/ b = <<>> \/ c = <<>>
               \/ c[1].src = "idle" <=> b[Len(b)].src = "idle" /\ c[1].clip = Idle
            => Blended(b \o c)
<1> DEFINE s == b \o c
           n == Len(b)
<1>1. /\ n \in Nat /\ Len(c) \in Nat /\ Len(s) = n + Len(c)
      /\ \A k \in 1 .. n : s[k] = b[k]
      /\ \A k \in n + 1 .. Len(s) : s[k] = c[k - n] /\ k - n \in 1 .. Len(c)
  BY ConcatProperties, LenProperties
<1>2. \A k \in 1 .. Len(s) : k \in 1 .. n \/ k \in n + 1 .. Len(s)
  BY <1>1
<1>3. \A j \in 1 .. n, k \in n + 1 .. Len(s) : s[j].tag # s[k].tag
  BY <1>1 DEF Apart
<1> HIDE DEF s, n
<1>4. ASSUME Whole(b), Whole(c), c # <<>> => c[1].at = 0
      PROVE  Whole(s)
  <2> SUFFICES ASSUME NEW j \in 1 .. Len(s), NEW k \in 1 .. Len(s)
               PROVE  /\ s[j].tag = s[k].tag =>
                           /\ s[k].at - s[j].at = k - j
                           /\ s[k].clip = s[j].clip
                      /\ k = j + 1 /\ s[j].tag # s[k].tag => s[k].at = 0
    BY DEF Whole
  <2>1. CASE j \in 1 .. n /\ k \in 1 .. n
    BY <1>1, <1>4, <2>1 DEF Whole, n
  <2>2. CASE j \in n + 1 .. Len(s) /\ k \in n + 1 .. Len(s)
    <3>1. /\ s[j] = c[j - n] /\ s[k] = c[k - n]
          /\ j - n \in 1 .. Len(c) /\ k - n \in 1 .. Len(c)
          /\ (k - n) - (j - n) = k - j /\ (k = j + 1 => k - n = (j - n) + 1)
      BY <1>1, <2>2
    <3>2. /\ c[j - n].tag = c[k - n].tag =>
               /\ c[k - n].at - c[j - n].at = (k - n) - (j - n)
               /\ c[k - n].clip = c[j - n].clip
          /\ k - n = (j - n) + 1 /\ c[j - n].tag # c[k - n].tag => c[k - n].at = 0
      BY <1>4, <3>1 DEF Whole
    <3> QED BY <3>1, <3>2
  <2>3. CASE j \in 1 .. n /\ k \in n + 1 .. Len(s)
    <3>1. s[j].tag # s[k].tag
      BY <1>3, <2>3
    <3>2. ASSUME k = j + 1 PROVE s[k].at = 0
      <4>1. k = n + 1 /\ s[k] = c[1] /\ c # <<>>
        BY <1>1, <2>3, <3>2, EmptySeq
      <4> QED BY <1>4, <4>1
    <3> QED BY <3>1, <3>2
  <2>4. CASE j \in n + 1 .. Len(s) /\ k \in 1 .. n
    <3>1. s[j].tag # s[k].tag /\ k # j + 1
      BY <1>1, <1>3, <2>4
    <3> QED BY <3>1
  <2> QED BY <1>2, <2>1, <2>2, <2>3, <2>4
<1>5. ASSUME Ordered(b), Ordered(c)
      PROVE  Ordered(s)
  <2> SUFFICES ASSUME NEW j \in 1 .. Len(s), NEW k \in 1 .. Len(s),
                      s[j].tag = s[k].tag, j <= k, s[j].src = "action"
               PROVE  s[k].src = "action"
    BY DEF Ordered
  <2>1. CASE j \in 1 .. n /\ k \in 1 .. n
    BY <1>1, <1>5, <2>1 DEF Ordered, n
  <2>2. CASE j \in n + 1 .. Len(s) /\ k \in n + 1 .. Len(s)
    <3>1. /\ s[j] = c[j - n] /\ s[k] = c[k - n]
          /\ j - n \in 1 .. Len(c) /\ k - n \in 1 .. Len(c) /\ j - n <= k - n
      BY <1>1, <2>2
    <3> QED BY <1>5, <3>1 DEF Ordered
  <2> QED BY <1>2, <1>3, <2>1, <2>2
<1>6. ASSUME Blended(b), Blended(c),
             \/ b = <<>> \/ c = <<>>
             \/ c[1].src = "idle" <=> b[Len(b)].src = "idle" /\ c[1].clip = Idle
      PROVE  Blended(s)
  <2> SUFFICES ASSUME NEW k \in 2 .. Len(s), s[k - 1].tag # s[k].tag
               PROVE  s[k].src = "idle" <=> s[k - 1].src = "idle" /\ s[k].clip = Idle
    BY DEF Blended
  <2>1. k - 1 \in 1 .. Len(s) /\ k \in 1 .. Len(s)
    BY <1>1
  <2>2. CASE k <= n
    <3>1. s[k] = b[k] /\ s[k - 1] = b[k - 1] /\ k \in 2 .. Len(b)
      BY <1>1, <2>2 DEF n
    <3> QED BY <1>6, <3>1 DEF Blended
  <2>3. CASE k = n + 1
    <3>1. s[k] = c[1] /\ s[k - 1] = b[Len(b)] /\ b # <<>> /\ c # <<>>
      BY <1>1, <2>3, EmptySeq DEF n
    <3> QED BY <1>6, <3>1
  <2>4. CASE k > n + 1
    <3>1. /\ s[k] = c[k - n] /\ s[k - 1] = c[(k - n) - 1] /\ k - n \in 2 .. Len(c)
      <4>1. k - 1 \in n + 1 .. Len(s) /\ k \in n + 1 .. Len(s) /\ (k - 1) - n = (k - n) - 1
        BY <1>1, <2>4
      <4> QED BY <1>1, <2>4, <4>1
    <3> QED BY <1>6, <3>1 DEF Blended
  <2> QED BY <1>1, <2>2, <2>3, <2>4
<1>7. /\ Whole(b) /\ Whole(c) /\ (c # <<>> => c[1].at = 0) => Whole(s)
      /\ Ordered(b) /\ Ordered(c) => Ordered(s)
  BY <1>4, <1>5
<1>8. /\ Blended(b) /\ Blended(c)
      /\ \/ b = <<>> \/ c = <<>>
         \/ c[1].src = "idle" <=> b[Len(b)].src = "idle" /\ c[1].clip = Idle
      => Blended(s)
  BY <1>6
<1> QED BY <1>7, <1>8 DEF s

\* A piece of a timeline.
LEMMA Piece ==
  ASSUME NEW b \in Seq(Frame), NEW i \in Nat \ {0}, NEW l \in 0 .. Len(b)
  PROVE  LET s == SubSeq(b, i, l)
         IN  /\ s \in Seq(Frame) /\ Len(s) = IF i <= l THEN l - i + 1 ELSE 0
             /\ \A k \in 1 .. Len(s) : s[k] = b[k + i - 1] /\ k + i - 1 \in 1 .. Len(b)
<1> DEFINE s == SubSeq(b, i, l)
<1>1. Len(b) \in Nat /\ \A k \in 1 .. Len(b) : b[k] \in Frame
  BY LenProperties, ElementOfSeq
<1>2. l \in Nat /\ \A k \in i .. l : b[k] \in Frame
  BY <1>1
<1>3. /\ s \in Seq(Frame) /\ Len(s) = IF i <= l THEN l - i + 1 ELSE 0
      /\ \A k \in 1 .. l - i + 1 : s[k] = b[i + k - 1]
  BY <1>2, SubSeqProperties
<1> HIDE DEF s
<1>4. \A k \in 1 .. Len(s) : s[k] = b[k + i - 1] /\ k + i - 1 \in 1 .. Len(b)
  <2> SUFFICES ASSUME NEW k \in 1 .. Len(s)
               PROVE  s[k] = b[k + i - 1] /\ k + i - 1 \in 1 .. Len(b)
    OBVIOUS
  <2>1. i <= l /\ k \in 1 .. l - i + 1 /\ k + i - 1 = i + k - 1
    BY <1>2, <1>3
  <2> QED BY <1>1, <1>2, <1>3, <2>1
<1> QED BY <1>3, <1>4 DEF s

LEMMA PieceKeeps ==
  ASSUME NEW b \in Seq(Frame), NEW i \in Nat \ {0}, NEW l \in 0 .. Len(b)
  PROVE  /\ Whole(b) => Whole(SubSeq(b, i, l))
         /\ Ordered(b) => Ordered(SubSeq(b, i, l))
         /\ Blended(b) => Blended(SubSeq(b, i, l))
<1> DEFINE s == SubSeq(b, i, l)
<1>1. /\ Len(s) \in Nat
      /\ \A k \in 1 .. Len(s) : s[k] = b[k + i - 1] /\ k + i - 1 \in 1 .. Len(b)
  BY Piece, LenProperties
<1> HIDE DEF s
<1>2. ASSUME Whole(b) PROVE Whole(s)
  <2> SUFFICES ASSUME NEW j \in 1 .. Len(s), NEW k \in 1 .. Len(s)
               PROVE  /\ s[j].tag = s[k].tag =>
                           /\ s[k].at - s[j].at = k - j
                           /\ s[k].clip = s[j].clip
                      /\ k = j + 1 /\ s[j].tag # s[k].tag => s[k].at = 0
    BY DEF Whole
  <2>1. /\ s[j] = b[j + i - 1] /\ s[k] = b[k + i - 1]
        /\ j + i - 1 \in 1 .. Len(b) /\ k + i - 1 \in 1 .. Len(b)
        /\ (k + i - 1) - (j + i - 1) = k - j
        /\ (k = j + 1 => k + i - 1 = (j + i - 1) + 1)
    BY <1>1
  <2>2. /\ b[j + i - 1].tag = b[k + i - 1].tag =>
             /\ b[k + i - 1].at - b[j + i - 1].at = (k + i - 1) - (j + i - 1)
             /\ b[k + i - 1].clip = b[j + i - 1].clip
        /\ k + i - 1 = (j + i - 1) + 1 /\ b[j + i - 1].tag # b[k + i - 1].tag =>
             b[k + i - 1].at = 0
    BY <1>2, <2>1 DEF Whole
  <2> QED BY <2>1, <2>2
<1>3. ASSUME Ordered(b) PROVE Ordered(s)
  <2> SUFFICES ASSUME NEW j \in 1 .. Len(s), NEW k \in 1 .. Len(s),
                      s[j].tag = s[k].tag, j <= k, s[j].src = "action"
               PROVE  s[k].src = "action"
    BY DEF Ordered
  <2>1. s[j] = b[j + i - 1] /\ j + i - 1 \in 1 .. Len(b)
    BY <1>1
  <2>2. s[k] = b[k + i - 1] /\ k + i - 1 \in 1 .. Len(b)
    BY <1>1
  <2>3. j + i - 1 <= k + i - 1
    OBVIOUS
  <2> QED BY <1>3, <2>1, <2>2, <2>3 DEF Ordered
<1>4. ASSUME Blended(b) PROVE Blended(s)
  <2> SUFFICES ASSUME NEW k \in 2 .. Len(s), s[k - 1].tag # s[k].tag
               PROVE  s[k].src = "idle" <=> s[k - 1].src = "idle" /\ s[k].clip = Idle
    BY DEF Blended
  <2>1. k \in 1 .. Len(s) /\ k - 1 \in 1 .. Len(s)
    BY <1>1
  <2>2. /\ s[k] = b[k + i - 1] /\ s[k - 1] = b[(k + i - 1) - 1]
        /\ k + i - 1 \in 2 .. Len(b)
    <3>1. (k - 1) + i - 1 = (k + i - 1) - 1 /\ k + i - 1 >= 2
      OBVIOUS
    <3> QED BY <1>1, <2>1, <3>1
  <2> QED BY <1>4, <2>2 DEF Blended
<1> QED BY <1>2, <1>3, <1>4 DEF s

(***************************************************************************)
(* Idle segments                                                           *)
(***************************************************************************)

Blends(e, joins, n) == ~joins /\ (n = 0 \/ ~Less(e.config.m, IdleLen))

IdleAt(e, joins, n, i) ==
  [src |-> IF Blends(e, joins, n) /\ Less(i, e.config.m) THEN "transition" ELSE "idle",
   tag |-> NextTag(e, n + 1), clip |-> Idle, at |-> i]

LEMMA IsTimeline ==
  ASSUME NEW n \in Nat, NEW f \in [1 .. n -> Frame]
  PROVE  f \in Seq(Frame) /\ Len(f) = n
OBVIOUS

LEMMA IdleShape ==
  ASSUME NEW e \in Engines, NEW times \in Nat, NEW joins \in BOOLEAN
  PROVE  LET F == IdleFrames(e, times, joins)
         IN  /\ F \in Seq(Frame) /\ Len(F) = times * IdleLen
             /\ \A k \in 1 .. Len(F) : \E n \in Nat, i \in 0 .. IdleLen - 1 :
                  k - 1 = (n * IdleLen) + i /\ F[k] = IdleAt(e, joins, n, i)
<1> DEFINE F == IdleFrames(e, times, joins)
           L == times * IdleLen
           N(k) == (k - 1) \div IdleLen
           A(k) == (k - 1) % IdleLen
<1>1. IdleLen \in Nat \ {0}
  BY Lens
<1>2. L \in Nat
  BY <1>1
<1>3. F = [k \in 1 .. L |-> IdleAt(e, joins, N(k), A(k))]
  BY DEF IdleFrames, IdleAt, Blends, IdleLen
<1>4. \A k \in 1 .. L : /\ N(k) \in Nat /\ A(k) \in 0 .. IdleLen - 1
                        /\ k - 1 = (N(k) * IdleLen) + A(k)
  <2> SUFFICES ASSUME NEW k \in 1 .. L
               PROVE  /\ N(k) \in Nat /\ A(k) \in 0 .. IdleLen - 1
                      /\ k - 1 = (N(k) * IdleLen) + A(k)
    OBVIOUS
  <2>1. k - 1 \in Nat
    BY <1>2
  <2> QED BY <1>1, <2>1, DivMod
<1>5. \A n \in Nat, i \in 0 .. IdleLen - 1 : IdleAt(e, joins, n, i) \in Frame
  <2> SUFFICES ASSUME NEW n \in Nat, NEW i \in 0 .. IdleLen - 1
               PROVE  IdleAt(e, joins, n, i) \in Frame
    OBVIOUS
  <2>1. n + 1 \in Nat \ {0}
    OBVIOUS
  <2>2. NextTag(e, n + 1) \in Nat \ {0}
    BY <2>1, NewTags
  <2>3. i \in Nat
    BY <1>1
  <2> QED BY <2>2, <2>3 DEF IdleAt, Frame, Source
<1> HIDE DEF F, L, N, A
<1>6. F \in [1 .. L -> Frame]
  BY <1>3, <1>4, <1>5
<1>7. F \in Seq(Frame) /\ Len(F) = L
  BY <1>2, <1>6, IsTimeline
<1>8. \A k \in 1 .. Len(F) : \E n \in Nat, i \in 0 .. IdleLen - 1 :
         k - 1 = (n * IdleLen) + i /\ F[k] = IdleAt(e, joins, n, i)
  <2> SUFFICES ASSUME NEW k \in 1 .. Len(F)
               PROVE  \E n \in Nat, i \in 0 .. IdleLen - 1 :
                        k - 1 = (n * IdleLen) + i /\ F[k] = IdleAt(e, joins, n, i)
    OBVIOUS
  <2>1. F[k] = IdleAt(e, joins, N(k), A(k))
    BY <1>3, <1>7
  <2> QED BY <1>4, <1>7, <2>1
<1> QED BY <1>7, <1>8 DEF F, L

\* The appended frames by themselves.
LEMMA IdleTimeline ==
  ASSUME NEW e \in Engines, NEW times \in Nat, NEW joins \in BOOLEAN
  PROVE  LET F == IdleFrames(e, times, joins)
         IN  /\ \A k \in 1 .. Len(F) :
                  F[k].tag \notin KnownTags(e) /\ F[k].src # "action" /\ F[k].clip = Idle
             /\ F # <<>> => F[1].at = 0
             /\ Whole(F) /\ Ordered(F)
             /\ e.config.m \in Nat \ {0} =>
                  Blended(F) /\ (F # <<>> => (F[1].src = "idle" <=> joins))
<1> DEFINE F == IdleFrames(e, times, joins)
<1>1. IdleLen \in Nat \ {0}
  BY Lens
<1>2. /\ F \in Seq(Frame) /\ Len(F) \in Nat
      /\ \A k \in 1 .. Len(F) : \E n \in Nat, i \in 0 .. IdleLen - 1 :
           k - 1 = (n * IdleLen) + i /\ F[k] = IdleAt(e, joins, n, i)
  BY IdleShape, LenProperties
<1> HIDE DEF F
<1>3. \A n, m \in Nat : NextTag(e, n + 1) = NextTag(e, m + 1) => n = m
  <2> SUFFICES ASSUME NEW n \in Nat, NEW m \in Nat, NextTag(e, n + 1) = NextTag(e, m + 1)
               PROVE  n = m
    OBVIOUS
  <2>1. n + 1 \in Nat \ {0} /\ m + 1 \in Nat \ {0}
    OBVIOUS
  <2>2. n + 1 = m + 1
    BY <2>1, NewTags
  <2> QED BY <2>2
<1>4. \A k \in 1 .. Len(F) :
        F[k].tag \notin KnownTags(e) /\ F[k].src # "action" /\ F[k].clip = Idle
  <2> SUFFICES ASSUME NEW k \in 1 .. Len(F)
               PROVE  F[k].tag \notin KnownTags(e) /\ F[k].src # "action" /\ F[k].clip = Idle
    OBVIOUS
  <2>1. PICK n \in Nat, i \in 0 .. IdleLen - 1 : F[k] = IdleAt(e, joins, n, i)
    BY <1>2
  <2>2. n + 1 \in Nat \ {0}
    OBVIOUS
  <2>3. NextTag(e, n + 1) \notin KnownTags(e)
    BY <2>2, NewTags
  <2> QED BY <2>1, <2>3 DEF IdleAt
\* Two frames, by the numbers of their segments.
<1>5b. ASSUME NEW j \in 1 .. Len(F), NEW k \in 1 .. Len(F), k = j + 1,
              NEW n \in Nat, NEW i \in 0 .. IdleLen - 1,
              NEW m \in Nat, NEW h \in 0 .. IdleLen - 1,
              j - 1 = (n * IdleLen) + i, F[j] = IdleAt(e, joins, n, i),
              k - 1 = (m * IdleLen) + h, F[k] = IdleAt(e, joins, m, h),
              F[j].tag # F[k].tag
       PROVE  h = 0 /\ i = IdleLen - 1 /\ m = n + 1
  <2>1. n # m
    BY <1>5b DEF IdleAt
  <2>2. (m * IdleLen) + h = ((n * IdleLen) + i) + 1
    BY <1>1, <1>5b
  <2>3. i = IdleLen - 1
    <3> SUFFICES ASSUME i # IdleLen - 1 PROVE FALSE
      OBVIOUS
    <3>1. i + 1 \in 0 .. IdleLen - 1 /\ (n * IdleLen) + (i + 1) = (m * IdleLen) + h
      BY <1>1, <2>2
    <3>2. n = m
      BY <1>1, <3>1, DivUnique
    <3> QED BY <2>1, <3>2
  <2>4. ((n + 1) * IdleLen) + 0 = (m * IdleLen) + h
    BY <1>1, <2>2, <2>3
  <2>5. n + 1 = m /\ 0 = h
    <3>1. 0 \in 0 .. IdleLen - 1 /\ n + 1 \in Int /\ m \in Int
      BY <1>1
    <3> QED BY <1>1, <2>4, <3>1, DivUnique
  <2> QED BY <2>3, <2>5
<1>6. F # <<>> => F[1].at = 0
  <2> SUFFICES ASSUME F # <<>> PROVE F[1].at = 0
    OBVIOUS
  <2>1. 1 \in 1 .. Len(F)
    BY <1>2, EmptySeq
  <2>2. PICK n \in Nat, i \in 0 .. IdleLen - 1 :
          1 - 1 = (n * IdleLen) + i /\ F[1] = IdleAt(e, joins, n, i)
    BY <1>2, <2>1
  <2>3. n * IdleLen \in Nat
    BY <1>1
  <2> QED BY <2>2, <2>3 DEF IdleAt
<1>7. Whole(F)
  <2> SUFFICES ASSUME NEW j \in 1 .. Len(F), NEW k \in 1 .. Len(F)
               PROVE  /\ F[j].tag = F[k].tag =>
                           /\ F[k].at - F[j].at = k - j
                           /\ F[k].clip = F[j].clip
                      /\ k = j + 1 /\ F[j].tag # F[k].tag => F[k].at = 0
    BY DEF Whole
  <2>1. PICK n \in Nat, i \in 0 .. IdleLen - 1 :
          j - 1 = (n * IdleLen) + i /\ F[j] = IdleAt(e, joins, n, i)
    BY <1>2
  <2>2. PICK m \in Nat, h \in 0 .. IdleLen - 1 :
          k - 1 = (m * IdleLen) + h /\ F[k] = IdleAt(e, joins, m, h)
    BY <1>2
  <2>3. /\ F[j].tag = F[k].tag => F[k].at - F[j].at = k - j
        /\ k = j + 1 /\ F[j].tag # F[k].tag => h = 0
    <3>1. ASSUME F[j].tag = F[k].tag PROVE F[k].at - F[j].at = k - j
      <4>1. F[j] = IdleAt(e, joins, n, i) /\ F[k] = IdleAt(e, joins, m, h)
        BY <2>1, <2>2
      <4>2. j - 1 = (n * IdleLen) + i /\ k - 1 = (m * IdleLen) + h
        BY <2>1, <2>2
      <4>3. i \in 0 .. IdleLen - 1 /\ h \in 0 .. IdleLen - 1 /\ n \in Nat /\ m \in Nat
        BY <2>1, <2>2
      <4>4. F[j].at = i /\ F[k].at = h
        BY <4>1 DEF IdleAt
      <4>5. n = m
        BY <1>3, <3>1, <4>1, <4>3 DEF IdleAt
      <4> DEFINE z == n * IdleLen
      <4>6. z \in Int /\ j \in Int /\ k \in Int /\ i \in Int /\ h \in Int
        BY <1>1, <4>3
      <4>7. j - 1 = z + i /\ k - 1 = z + h
        BY <4>2, <4>5
      <4> HIDE DEF z, F
      <4>8. h - i = k - j
        BY <4>6, <4>7
      <4> QED BY <4>4, <4>8
    <3>2. ASSUME k = j + 1, F[j].tag # F[k].tag PROVE h = 0
      BY <1>5b, <2>1, <2>2, <3>2
    <3> QED BY <3>1, <3>2
  <2>4. F[k].at = h /\ F[k].clip = F[j].clip
    BY <2>1, <2>2 DEF IdleAt
  <2> QED BY <2>3, <2>4
<1>8. Ordered(F)
  BY <1>4 DEF Ordered
<1>9. ASSUME e.config.m \in Nat \ {0}
      PROVE  Blended(F) /\ (F # <<>> => (F[1].src = "idle" <=> joins))
  <2>1. \A n, i \in Nat : IdleAt(e, joins, n, i).src = "idle" <=>
          ~Blends(e, joins, n) \/ ~(i < e.config.m)
    BY <1>9, Numeric DEF IdleAt, Numbers
  <2>2. \A n \in Nat : Blends(e, joins, n) <=> ~joins /\ (n = 0 \/ ~(e.config.m < IdleLen))
    BY <1>1, <1>9, Numeric DEF Blends, Numbers
  <2>3. Blended(F)
    <3> SUFFICES ASSUME NEW k \in 2 .. Len(F), F[k - 1].tag # F[k].tag
                 PROVE  F[k].src = "idle" <=> F[k - 1].src = "idle" /\ F[k].clip = Idle
      BY DEF Blended
    <3>1. k \in 1 .. Len(F) /\ k - 1 \in 1 .. Len(F) /\ k = (k - 1) + 1
      OBVIOUS
    <3>2. PICK n \in Nat, i \in 0 .. IdleLen - 1 :
            (k - 1) - 1 = (n * IdleLen) + i /\ F[k - 1] = IdleAt(e, joins, n, i)
      BY <1>2, <3>1
    <3>3. PICK m \in Nat, h \in 0 .. IdleLen - 1 :
            k - 1 = (m * IdleLen) + h /\ F[k] = IdleAt(e, joins, m, h)
      BY <1>2, <3>1
    <3>4. h = 0 /\ i = IdleLen - 1 /\ m = n + 1
      <4> DEFINE j == k - 1
      <4>1. j \in 1 .. Len(F) /\ k = j + 1 /\ F[j].tag # F[k].tag
        BY <3>1
      <4>2. j - 1 = (n * IdleLen) + i /\ F[j] = IdleAt(e, joins, n, i)
        BY <3>2
      <4> HIDE DEF j
      <4> QED BY <1>5b, <3>1, <3>3, <4>1, <4>2
    <3>5. F[k].clip = Idle
      BY <3>3 DEF IdleAt
    <3>6. F[k].src = "idle" <=> ~Blends(e, joins, m) \/ ~(0 < e.config.m)
      BY <2>1, <3>3, <3>4
    <3>7. F[k - 1].src = "idle" <=> ~Blends(e, joins, n) \/ ~(IdleLen - 1 < e.config.m)
      <4>1. i \in Nat
        BY <1>1
      <4> QED BY <2>1, <3>2, <3>4, <4>1
    <3>8. ~Blends(e, joins, m) \/ ~(0 < e.config.m)
            <=> ~Blends(e, joins, n) \/ ~(IdleLen - 1 < e.config.m)
      BY <1>1, <1>9, <2>2, <3>4
    <3> QED BY <3>5, <3>6, <3>7, <3>8
  <2>4. ASSUME F # <<>> PROVE F[1].src = "idle" <=> joins
    <3>1. 1 \in 1 .. Len(F)
      BY <1>2, <2>4, EmptySeq
    <3>2. PICK n \in Nat, i \in 0 .. IdleLen - 1 :
            1 - 1 = (n * IdleLen) + i /\ F[1] = IdleAt(e, joins, n, i)
      BY <1>2, <3>1
    <3>3. n = 0 /\ i = 0
      <4>1. (n * IdleLen) + i = (0 * IdleLen) + 0
        BY <1>1, <3>2
      <4>2. 0 \in 0 .. IdleLen - 1 /\ n \in Int /\ 0 \in Int
        BY <1>1
      <4> QED BY <1>1, <4>1, <4>2, DivUnique
    <3> QED BY <1>9, <2>1, <2>2, <3>2, <3>3
  <2> QED BY <2>3, <2>4
<1> QED BY <1>4, <1>6, <1>7, <1>8, <1>9 DEF F

(***************************************************************************)
(* g is e with another timeline from the frame after `keep' on, or from    *)
(* the end of e's on: the new frames have new tags, and the timeline is    *)
(* as good as it was.                                                      *)
(***************************************************************************)

Continued(e, g, keep) ==
  /\ g \in Engines
  /\ g = [e EXCEPT !.buffer = g.buffer]
  /\ g.cursor = e.cursor /\ g.config = e.config /\ g.emitted = e.emitted
  /\ g.held = e.held /\ g.acc = e.acc
  /\ \A k \in 1 .. Len(e.buffer) :
       k <= keep => k <= Len(g.buffer) /\ g.buffer[k] = e.buffer[k]
  /\ \A k \in 1 .. Len(g.buffer) :
       (k <= keep /\ k <= Len(e.buffer)) \/ g.buffer[k].tag \notin KnownTags(e)
  /\ Whole(e.buffer) => Whole(g.buffer)
  /\ Ordered(e.buffer) => Ordered(g.buffer)
  /\ e.config.m \in Nat \ {0} /\ Blended(e.buffer) => Blended(g.buffer)

\* A timeline that is kept up to some frame and goes on with frames of new tags.
LEMMA IsContinued ==
  ASSUME NEW e \in Engines, NEW b \in Seq(Frame), NEW keep \in Int,
         \A k \in 1 .. Len(e.buffer) :
           k <= keep => k <= Len(b) /\ b[k] = e.buffer[k],
         \A k \in 1 .. Len(b) :
           (k <= keep /\ k <= Len(e.buffer)) \/ b[k].tag \notin KnownTags(e),
         Whole(e.buffer) => Whole(b),
         Ordered(e.buffer) => Ordered(b),
         e.config.m \in Nat \ {0} /\ Blended(e.buffer) => Blended(b)
  PROVE  Continued(e, [e EXCEPT !.buffer = b], keep)
<1> DEFINE g == [e EXCEPT !.buffer = b]
<1>1. g \in Engines
  BY FieldsOf DEF Engines
<1>2. /\ g.buffer = b /\ g.cursor = e.cursor /\ g.config = e.config
      /\ g.emitted = e.emitted /\ g.held = e.held /\ g.acc = e.acc
  BY DEF Engines
<1>3. g = [e EXCEPT !.buffer = g.buffer]
  BY <1>2
<1> HIDE DEF g
<1>4. Continued(e, g, keep)
  BY <1>1, <1>2, <1>3 DEF Continued
<1> QED BY <1>4 DEF g

LEMMA AppendIdleContinues ==
  ASSUME NEW e \in Engines, NEW times \in Nat
  PROVE  LET g == AppendIdle(e, times)
         IN  /\ Continued(e, g, Len(e.buffer))
             /\ Len(g.buffer) = Len(e.buffer) + (times * IdleLen)
             /\ e.buffer = <<>> /\ g.buffer # <<>> => g.buffer[1].at = 0
<1> DEFINE joins == e.buffer = <<>> \/ e.buffer[Len(e.buffer)].src = "idle"
           F == IdleFrames(e, times, joins)
           b == e.buffer
           g == AppendIdle(e, times)
<1>1. joins \in BOOLEAN /\ b \in Seq(Frame)
  BY FieldsOf
<1>2. g = [e EXCEPT !.buffer = b \o F]
  BY FieldsOf DEF AppendIdle, Engines
<1>3. F \in Seq(Frame) /\ Len(F) = times * IdleLen
  <2> HIDE DEF joins
  <2> QED BY <1>1, IdleShape
<1>4. /\ \A k \in 1 .. Len(F) :
            F[k].tag \notin KnownTags(e) /\ F[k].src # "action" /\ F[k].clip = Idle
      /\ F # <<>> => F[1].at = 0
      /\ Whole(F) /\ Ordered(F)
      /\ e.config.m \in Nat \ {0} =>
           Blended(F) /\ (F # <<>> => (F[1].src = "idle" <=> joins))
  <2> HIDE DEF joins
  <2> QED BY <1>1, IdleTimeline
<1> HIDE DEF F, g
<1>5. /\ b \o F \in Seq(Frame) /\ Len(b \o F) = Len(b) + Len(F)
      /\ \A k \in 1 .. Len(b) : (b \o F)[k] = b[k]
      /\ \A k \in Len(b) + 1 .. Len(b) + Len(F) :
           (b \o F)[k] = F[k - Len(b)] /\ k - Len(b) \in 1 .. Len(F)
      /\ Len(b) \in Nat /\ Len(F) \in Nat
  <2>1. Len(b) \in Nat /\ Len(F) \in Nat
    BY <1>1, <1>3, LenProperties
  <2>2. /\ b \o F \in Seq(Frame) /\ Len(b \o F) = Len(b) + Len(F)
        /\ \A k \in 1 .. Len(b) + Len(F) :
             (b \o F)[k] = IF k <= Len(b) THEN b[k] ELSE F[k - Len(b)]
    BY <1>1, <1>3, ConcatProperties
  <2> QED BY <2>1, <2>2
<1>6. Apart(b, F)
  BY <1>4 DEF Apart, KnownTags
<1>7. /\ Whole(b) => Whole(b \o F)
      /\ Ordered(b) => Ordered(b \o F)
  BY <1>1, <1>3, <1>4, <1>6, Joined
<1>8. e.config.m \in Nat \ {0} /\ Blended(b) => Blended(b \o F)
  <2> SUFFICES ASSUME e.config.m \in Nat \ {0}, Blended(b) PROVE Blended(b \o F)
    OBVIOUS
  <2>1. Blended(F)
    BY <1>4
  <2>2. \/ b = <<>> \/ F = <<>>
        \/ F[1].src = "idle" <=> b[Len(b)].src = "idle" /\ F[1].clip = Idle
    <3> SUFFICES ASSUME b # <<>>, F # <<>>
                 PROVE  F[1].src = "idle" <=> b[Len(b)].src = "idle" /\ F[1].clip = Idle
      OBVIOUS
    <3>1. F[1].src = "idle" <=> joins
      BY <1>4
    <3>2. 1 \in 1 .. Len(F)
      BY <1>3, <1>5, EmptySeq
    <3>3. F[1].clip = Idle
      BY <1>4, <3>2
    <3> QED BY <3>1, <3>3
  <2> QED BY <1>1, <1>3, <1>6, <2>1, <2>2, Joined
<1>9. \A k \in 1 .. Len(b \o F) :
        k <= Len(b) \/ (b \o F)[k].tag \notin KnownTags(e)
  BY <1>4, <1>5
<1>10. Continued(e, [e EXCEPT !.buffer = b \o F], Len(b))
  <2> DEFINE c == b \o F
  <2>1. /\ c \in Seq(Frame) /\ Len(b) \in Int
        /\ \A k \in 1 .. Len(e.buffer) : k <= Len(b) => k <= Len(c) /\ c[k] = e.buffer[k]
        /\ \A k \in 1 .. Len(c) :
             (k <= Len(b) /\ k <= Len(e.buffer)) \/ c[k].tag \notin KnownTags(e)
    BY <1>5, <1>9
  <2>2. /\ Whole(e.buffer) => Whole(c)
        /\ Ordered(e.buffer) => Ordered(c)
        /\ e.config.m \in Nat \ {0} /\ Blended(e.buffer) => Blended(c)
    BY <1>7, <1>8
  <2> HIDE DEF c
  <2>3. Continued(e, [e EXCEPT !.buffer = c], Len(b))
    BY <2>1, <2>2, IsContinued
  <2> QED BY <2>3 DEF c
<1>11. Len(g.buffer) = Len(b) + (times * IdleLen)
  BY <1>2, <1>3, <1>5 DEF Engines
<1>12. b = <<>> /\ g.buffer # <<>> => g.buffer[1].at = 0
  <2> SUFFICES ASSUME b = <<>>, g.buffer # <<>> PROVE g.buffer[1].at = 0
    OBVIOUS
  <2>1. g.buffer = b \o F
    BY <1>2 DEF Engines
  <2>2. b \o F = F
    BY <1>3
  <2> QED BY <1>4, <2>1, <2>2
<1> QED BY <1>2, <1>10, <1>11, <1>12 DEF g

LEMMA LookaheadInt ==
  ASSUME NEW e \in Engines
  PROVE  Lookahead(e) \in Int /\ Lookahead(e) >= 0 - HistoryMax
BY FieldsOf, LimitAssumption DEF Lookahead

\* How many segments a loop appends.
LEMMA MissingIs ==
  ASSUME NEW e \in Engines, NEW frames \in Numbers
  PROVE  LET t == Missing(e, frames)
         IN  /\ t \in Nat
             /\ (frames \notin Nat \/ Lookahead(e) >= frames) => t = 0
             /\ frames \in Nat /\ Lookahead(e) < frames =>
                  /\ t >= 1
                  /\ Lookahead(e) + (t * IdleLen) >= frames
                  /\ Lookahead(e) + (t * IdleLen) <= frames - 1 + IdleLen
<1> DEFINE t == Missing(e, frames)
           l == Lookahead(e)
<1>1. l \in Int /\ IdleLen \in Nat \ {0}
  BY LookaheadInt, Lens
<1>2. Less(l, frames) <=> frames \in Nat /\ l < frames
  BY <1>1, NaNAssumption DEF Less, Numbers
<1>3. CASE ~Less(l, frames)
  BY <1>1, <1>2, <1>3 DEF Missing
<1>4. CASE Less(l, frames)
  <2>1. t = (frames - l + IdleLen - 1) \div IdleLen
    BY <1>4 DEF Missing, IdleLen
  <2>2. frames - l \in Nat \ {0}
    BY <1>1, <1>2, <1>4
  <2> DEFINE x == frames - l
  <2>3. LET u == (x + IdleLen - 1) \div IdleLen
        IN  u \in Nat \ {0} /\ u * IdleLen >= x /\ u * IdleLen < x + IdleLen
    <3> HIDE DEF x
    <3> QED BY <1>1, <2>2, CeilDiv DEF x
  <2>4. t \in Nat \ {0} /\ t * IdleLen >= x /\ t * IdleLen < x + IdleLen
    BY <2>1, <2>3
  <2> HIDE DEF t
  <2>5. t * IdleLen \in Int
    BY <1>1, <2>4
  <2>6. t >= 1 /\ l + (t * IdleLen) >= frames /\ l + (t * IdleLen) <= frames - 1 + IdleLen
    BY <1>1, <1>2, <1>4, <2>4, <2>5
  <2> QED BY <1>1, <1>2, <1>4, <2>4, <2>6 DEF t
<1> QED BY <1>3, <1>4

LEMMA TopUpContinues ==
  ASSUME NEW e \in Engines
  PROVE  /\ Continued(e, TopUp(e), Len(e.buffer))
         /\ e.buffer = <<>> /\ TopUp(e).buffer # <<>> => TopUp(e).buffer[1].at = 0
         /\ Lookahead(TopUp(e)) >= Lookahead(e)
         /\ \/ Lookahead(TopUp(e)) = Lookahead(e)
            \/ /\ e.config.n \in Nat
               /\ Lookahead(TopUp(e)) <= e.config.n - 1 + IdleLen
         /\ e.config.n \in Nat \ {0} =>
              \/ Lookahead(TopUp(e)) >= 1
              \/ /\ Lookahead(e) < 0
                 /\ Lookahead(TopUp(e)) >= Lookahead(e) + (TopUpGuard * IdleLen)
<1> DEFINE t == Missing(e, e.config.n)
           times == IF t < TopUpGuard THEN t ELSE TopUpGuard
           l == Lookahead(e)
           n == e.config.n
           g == TopUp(e)
<1>1. n \in Numbers /\ l \in Int /\ IdleLen \in Nat \ {0} /\ TopUpGuard \in Nat \ {0}
  BY FieldsOf, LookaheadInt, Lens, LimitAssumption
<1>2. /\ t \in Nat
      /\ (n \notin Nat \/ l >= n) => t = 0
      /\ n \in Nat /\ l < n =>
           t >= 1 /\ l + (t * IdleLen) >= n /\ l + (t * IdleLen) <= n - 1 + IdleLen
  BY <1>1, MissingIs
<1>3. times \in Nat /\ g = AppendIdle(e, times)
  BY <1>1, <1>2 DEF TopUp
<1>4. times <= t /\ (times = t \/ times = TopUpGuard) /\ (t >= 1 => times >= 1)
  BY <1>1, <1>2
<1> HIDE DEF times, t, g
<1>5. /\ Continued(e, g, Len(e.buffer)) /\ Len(g.buffer) = Len(e.buffer) + (times * IdleLen)
      /\ e.buffer = <<>> /\ g.buffer # <<>> => g.buffer[1].at = 0
  BY <1>3, AppendIdleContinues
<1>6. /\ times * IdleLen \in Nat /\ t * IdleLen \in Nat /\ TopUpGuard * IdleLen \in Nat
      /\ times * IdleLen <= t * IdleLen
      /\ times >= 1 => times * IdleLen >= IdleLen
  <2>1. (t - times) * IdleLen \in Nat
    BY <1>1, <1>2, <1>3, <1>4
  <2>2. (t - times) * IdleLen = (t * IdleLen) - (times * IdleLen)
    BY <1>1, <1>2, <1>3
  <2>3. ASSUME times >= 1 PROVE times * IdleLen >= IdleLen
    <3>1. (times - 1) * IdleLen \in Nat
      BY <1>1, <1>3, <2>3
    <3>2. (times - 1) * IdleLen = (times * IdleLen) - IdleLen
      BY <1>1, <1>3
    <3> QED BY <1>1, <1>3, <3>1, <3>2
  <2> QED BY <1>1, <1>2, <1>3, <2>1, <2>2, <2>3
<1>7. Lookahead(g) = l + (times * IdleLen)
  <2>1. g.cursor = e.cursor /\ e.cursor \in Nat /\ Len(e.buffer) \in Nat
    BY <1>5, FieldsOf DEF Continued
  <2> QED BY <1>5, <1>6, <2>1 DEF Lookahead
<1>8. Lookahead(g) >= l
  BY <1>1, <1>6, <1>7
<1>9. Lookahead(g) = l \/ (n \in Nat /\ Lookahead(g) <= n - 1 + IdleLen)
  <2>1. CASE t = 0
    BY <1>1, <1>3, <1>4, <1>7, <2>1
  <2>2. CASE t # 0
    <3>1. n \in Nat /\ l + (t * IdleLen) <= n - 1 + IdleLen
      BY <1>1, <1>2, <2>2
    <3> QED BY <1>1, <1>6, <1>7, <3>1
  <2> QED BY <2>1, <2>2
<1>10. ASSUME n \in Nat \ {0}
       PROVE  \/ Lookahead(g) >= 1
              \/ l < 0 /\ Lookahead(g) >= l + (TopUpGuard * IdleLen)
  <2>1. CASE l >= n
    BY <1>1, <1>6, <1>7, <1>10, <2>1
  <2>2. CASE l < n
    <3>1. t >= 1 /\ l + (t * IdleLen) >= n
      BY <1>2, <1>10, <2>2
    <3>2. CASE times = t
      BY <1>1, <1>6, <1>7, <1>10, <3>1, <3>2
    <3>3. CASE times = TopUpGuard
      <4>1. l < 0 \/ l >= 0
        BY <1>1
      <4>2. CASE l >= 0
        BY <1>1, <1>4, <1>6, <1>7, <3>1, <4>2
      <4>3. CASE l < 0
        BY <1>1, <1>6, <1>7, <3>3, <4>3
      <4> QED BY <4>1, <4>2, <4>3
    <3> QED BY <1>4, <3>2, <3>3
  <2> QED BY <1>1, <1>10, <2>1, <2>2
<1> QED BY <1>5, <1>8, <1>9, <1>10 DEF g

LEMMA FillContinues ==
  ASSUME NEW e \in Engines, NEW frames \in Nat
  PROVE  /\ Continued(e, Fill(e, frames), Len(e.buffer))
         /\ Lookahead(Fill(e, frames)) >= frames
<1> DEFINE t == Missing(e, frames)
           g == Fill(e, frames)
<1>1. frames \in Numbers /\ Lookahead(e) \in Int /\ IdleLen \in Nat \ {0}
  BY LookaheadInt, Lens DEF Numbers
<1>2. /\ t \in Nat
      /\ Lookahead(e) >= frames => t = 0
      /\ Lookahead(e) < frames => Lookahead(e) + (t * IdleLen) >= frames
  BY <1>1, MissingIs
<1>3. g = AppendIdle(e, t)
  BY DEF Fill
<1> HIDE DEF t, g
<1>4. Continued(e, g, Len(e.buffer)) /\ Len(g.buffer) = Len(e.buffer) + (t * IdleLen)
  BY <1>2, <1>3, AppendIdleContinues
<1>5. Lookahead(g) = Lookahead(e) + (t * IdleLen)
  <2>1. g.cursor = e.cursor /\ e.cursor \in Nat /\ Len(e.buffer) \in Nat
    BY <1>4, FieldsOf DEF Continued
  <2>2. t * IdleLen \in Nat
    BY <1>1, <1>2
  <2> QED BY <1>4, <2>1, <2>2 DEF Lookahead
<1>6. t * IdleLen \in Nat
  BY <1>1, <1>2
<1>7. Lookahead(g) >= frames
  BY <1>1, <1>2, <1>5, <1>6
<1> QED BY <1>4, <1>7 DEF g

(***************************************************************************)
(* Advancing: the frames move to the front by as many as are dropped       *)
(***************************************************************************)

Advanced(e, g, gone) ==
  /\ g \in Engines
  /\ gone \in Nat
  /\ g.cursor = e.cursor + 1 - gone
  /\ g.config = e.config /\ g.emitted = e.emitted /\ g.held = e.held /\ g.acc = e.acc
  /\ Len(g.buffer) = IF gone <= Len(e.buffer) THEN Len(e.buffer) - gone ELSE 0
  /\ \A k \in 1 .. Len(g.buffer) :
       g.buffer[k] = e.buffer[k + gone] /\ k + gone \in 1 .. Len(e.buffer)
  /\ Whole(e.buffer) => Whole(g.buffer)
  /\ Ordered(e.buffer) => Ordered(g.buffer)
  /\ Blended(e.buffer) => Blended(g.buffer)

LEMMA AdvanceMoves ==
  ASSUME NEW e \in Engines
  PROVE  \E gone \in Nat : Advanced(e, Advance(e), gone)
<1> DEFINE c == e.cursor + 1
           b == e.buffer
           g == Advance(e)
<1>1. /\ c \in Nat \ {0} /\ c <= HistoryMax + 1 /\ HistoryMax \in Nat
      /\ HistoryKeep \in 0 .. HistoryMax
      /\ b \in Seq(Frame) /\ Len(b) \in Nat /\ \A k \in 1 .. Len(b) : b[k] \in Frame
  BY FieldsOf, LimitAssumption, SMTT(20)
<1>2. CASE c <= HistoryMax
  <2>1. g = [e EXCEPT !.cursor = c]
    BY <1>2 DEF Advance
  <2>2. c \in 0 .. HistoryMax
    BY <1>1, <1>2
  <2>3. g \in Engines
    BY <2>1, <2>2 DEF Engines
  <2>4. /\ g.cursor = c - 0 /\ g.buffer = b /\ g.config = e.config /\ g.emitted = e.emitted
        /\ g.held = e.held /\ g.acc = e.acc
    BY <1>1, <2>1 DEF Engines
  <2>5. /\ Len(g.buffer) = Len(b) - 0
        /\ \A k \in 1 .. Len(g.buffer) : g.buffer[k] = b[k + 0] /\ k + 0 \in 1 .. Len(b)
    BY <1>1, <2>4
  <2> HIDE DEF g
  <2>6. Advanced(e, g, 0)
    BY <1>1, <2>3, <2>4, <2>5 DEF Advanced
  <2> QED BY <2>6 DEF g
<1>3. CASE ~(c <= HistoryMax)
  <2> DEFINE gone == c - HistoryKeep
             s == SubSeq(b, gone + 1, Len(b))
  <2>1. gone \in Nat /\ gone + 1 \in Nat \ {0} /\ Len(b) \in 0 .. Len(b)
    BY <1>1, <1>3
  <2>2. c - HistoryKeep + 1 = gone + 1
    OBVIOUS
  <2>3. g = [e EXCEPT !.cursor = HistoryKeep, !.buffer = s]
    BY <1>3, <2>2 DEF Advance
  <2> HIDE DEF gone
  <2>4. /\ s \in Seq(Frame) /\ Len(s) = IF gone + 1 <= Len(b) THEN Len(b) - (gone + 1) + 1 ELSE 0
        /\ \A k \in 1 .. Len(s) :
             s[k] = b[k + (gone + 1) - 1] /\ k + (gone + 1) - 1 \in 1 .. Len(b)
    BY <1>1, <2>1, Piece
  <2>5. /\ Whole(b) => Whole(s)
        /\ Ordered(b) => Ordered(s)
        /\ Blended(b) => Blended(s)
    BY <1>1, <2>1, PieceKeeps
  <2>6. /\ Len(s) \in Nat /\ Len(s) = IF gone <= Len(b) THEN Len(b) - gone ELSE 0
        /\ \A k \in 1 .. Len(s) : s[k] = b[k + gone] /\ k + gone \in 1 .. Len(b)
    <3>1. Len(s) = IF gone <= Len(b) THEN Len(b) - gone ELSE 0
      BY <1>1, <2>1, <2>4
    <3>2. ASSUME NEW k \in 1 .. Len(s)
          PROVE  s[k] = b[k + gone] /\ k + gone \in 1 .. Len(b)
      <4>1. k + (gone + 1) - 1 = k + gone
        BY <2>1
      <4> QED BY <2>4, <4>1
    <3> QED BY <1>1, <2>1, <3>1, <3>2
  <2> HIDE DEF s, b
  <2>7. g \in Engines
    BY <1>1, <2>3, <2>4 DEF Engines
  <2>8. /\ g.cursor = HistoryKeep /\ g.buffer = s /\ g.config = e.config
        /\ g.emitted = e.emitted /\ g.held = e.held /\ g.acc = e.acc
    BY <2>3 DEF Engines
  <2>9. g.cursor = e.cursor + 1 - gone
    BY <1>1, <2>8, FieldsOf DEF gone
  <2> HIDE DEF g, c
  <2>10. Advanced(e, g, gone)
    BY <2>1, <2>5, <2>6, <2>7, <2>8, <2>9 DEF Advanced, b
  <2> QED BY <2>1, <2>10 DEF g
<1> QED BY <1>2, <1>3

(***************************************************************************)
(* Scheduling                                                              *)
(***************************************************************************)

LEMMA ActionTimeline ==
  ASSUME NEW clip \in Clips, NEW tag \in Nat \ {0}, NEW m \in Nat
  PROVE  LET A == Action(clip, tag, m)
         IN  /\ A \in Seq(Frame) /\ Len(A) = Larger(ClipLen[clip], m) /\ Len(A) >= 1
             /\ \A k \in 1 .. Len(A) :
                  A[k].tag = tag /\ A[k].src # "idle" /\ A[k].clip = clip /\ A[k].at = k - 1
             /\ Whole(A) /\ Ordered(A) /\ Blended(A)
<1> DEFINE A == Action(clip, tag, m)
           L == Larger(ClipLen[clip], m)
<1>1. L \in Nat /\ L >= 1
  BY Lens DEF Larger
<1>2. A = [k \in 1 .. L |-> [src |-> IF k <= m THEN "transition" ELSE "action",
                             tag |-> tag, clip |-> clip, at |-> k - 1]]
  BY DEF Action
<1> HIDE DEF L, A
<1>3. A \in [1 .. L -> Frame]
  BY <1>1, <1>2 DEF Frame, Source
<1>4. A \in Seq(Frame) /\ Len(A) = L
  BY <1>1, <1>3, IsTimeline
<1>5. \A k \in 1 .. Len(A) :
        /\ A[k].tag = tag /\ A[k].src # "idle" /\ A[k].clip = clip /\ A[k].at = k - 1
        /\ A[k].src = "action" <=> ~(k <= m)
  BY <1>2, <1>4
<1>6. Whole(A) /\ Blended(A)
  BY <1>1, <1>4, <1>5 DEF Whole, Blended
<1>7. Ordered(A)
  BY <1>1, <1>4, <1>5 DEF Ordered
<1> QED BY <1>1, <1>4, <1>5, <1>6, <1>7 DEF A, L

LEMMA ScheduleContinues ==
  ASSUME NEW e \in Engines, NEW clip \in Clips, Accepts(e)
  PROVE  LET g     == Schedule(e, clip)
             start == e.cursor + e.config.d
         IN  /\ e.config.d \in Nat /\ e.config.m \in Nat
             /\ Continued(e, g, start)
             /\ Len(g.buffer) = start + Larger(ClipLen[clip], e.config.m)
             /\ Len(g.buffer) > start
             /\ ScheduledTag(g) \in Nat \ {0} /\ ScheduledTag(g) \notin KnownTags(e)
<1> DEFINE m == e.config.m
           d == e.config.d
           start == e.cursor + d
           frames == d + m + 1
           f == Fill(e, frames)
           tag == NextTag(f, 1)
           p == SubSeq(f.buffer, 1, start)
           A == Action(clip, tag, m)
           g == Schedule(e, clip)
<1>1. d \in Nat /\ m \in Nat /\ e.cursor \in Nat /\ start \in Nat /\ frames \in Nat
  BY FieldsOf, Numeric DEF Accepts, Numbers
<1>2. g = [f EXCEPT !.buffer = p \o A]
  <2>1. f.buffer \in Seq(Frame) /\ f \in Engines
    <3>1. Continued(e, f, Len(e.buffer))
      BY <1>1, FillContinues
    <3>2. f \in Engines
      BY <3>1 DEF Continued
    <3> QED BY <3>2, FieldsOf
  <2> QED BY <2>1 DEF Schedule, Engines
<1>3. Continued(e, f, Len(e.buffer)) /\ Lookahead(f) >= frames
  <2> HIDE DEF frames
  <2> QED BY <1>1, FillContinues
<1> HIDE DEF f, g
<1>4. /\ f \in Engines /\ f.cursor = e.cursor /\ f.config = e.config
      /\ f = [e EXCEPT !.buffer = f.buffer]
      /\ f.emitted = e.emitted /\ f.held = e.held /\ f.acc = e.acc
      /\ \A k \in 1 .. Len(e.buffer) : k <= Len(f.buffer) /\ f.buffer[k] = e.buffer[k]
      /\ \A k \in 1 .. Len(f.buffer) :
           k <= Len(e.buffer) \/ f.buffer[k].tag \notin KnownTags(e)
      /\ Whole(e.buffer) => Whole(f.buffer)
      /\ Ordered(e.buffer) => Ordered(f.buffer)
      /\ e.config.m \in Nat \ {0} /\ Blended(e.buffer) => Blended(f.buffer)
  <2>1. Len(e.buffer) \in Nat
    BY FieldsOf
  <2>2. \A k \in 1 .. Len(e.buffer) : k <= Len(f.buffer) /\ f.buffer[k] = e.buffer[k]
    BY <1>3, <2>1 DEF Continued
  <2>3. \A k \in 1 .. Len(f.buffer) :
          k <= Len(e.buffer) \/ f.buffer[k].tag \notin KnownTags(e)
    BY <1>3 DEF Continued
  <2>4. f = [e EXCEPT !.buffer = f.buffer]
    BY <1>3 DEF Continued
  <2> QED BY <1>3, <2>2, <2>3, <2>4 DEF Continued
<1>5. /\ f.buffer \in Seq(Frame) /\ Len(f.buffer) \in Nat /\ Len(e.buffer) \in Nat
      /\ e.buffer \in Seq(Frame)
  <2>1. f \in Engines
    BY <1>4
  <2> QED BY <2>1, FieldsOf
<1>6. start \in 0 .. Len(f.buffer)
  <2>1. f.cursor \in Nat
    BY <1>4, FieldsOf
  <2>2. Lookahead(f) = Len(f.buffer) - f.cursor
    BY DEF Lookahead
  <2>3. f.cursor = e.cursor /\ Lookahead(f) >= frames
    BY <1>3, <1>4
  <2>4. start \in Nat /\ m \in Nat /\ Len(f.buffer) \in Nat
    BY <1>1, <1>5
  <2>5. Len(f.buffer) - e.cursor >= d + m + 1
    BY <2>2, <2>3
  <2>6. start <= Len(f.buffer)
    <3> DEFINE L == Len(f.buffer)
               c == e.cursor
    <3>1. L \in Nat /\ c \in Nat /\ d \in Nat /\ m \in Nat /\ L - c >= d + m + 1
      BY <1>1, <2>4, <2>5
    <3> HIDE DEF L, c, d, m
    <3>2. c + d <= L
      BY <3>1
    <3> QED BY <3>2 DEF L, c
  <2> HIDE DEF start
  <2> QED BY <2>4, <2>6
<1>7. tag \in Nat \ {0} /\ tag \notin KnownTags(f) /\ KnownTags(e) \subseteq KnownTags(f)
  <2>1. tag \in Nat \ {0} /\ tag \notin KnownTags(f)
    <3>1. 1 \in Nat \ {0}
      OBVIOUS
    <3> QED BY <1>4, <3>1, NewTags
  <2>2. KnownTags(e) \subseteq KnownTags(f)
    <3>1. \A k \in 1 .. Len(e.buffer) : k \in 1 .. Len(f.buffer) /\ f.buffer[k] = e.buffer[k]
      BY <1>4, <1>5
    <3> QED BY <1>4, <3>1 DEF KnownTags
  <2> QED BY <2>1, <2>2
<1>8. /\ A \in Seq(Frame) /\ Len(A) = Larger(ClipLen[clip], m) /\ Len(A) >= 1 /\ Len(A) \in Nat
      /\ \A k \in 1 .. Len(A) :
           A[k].tag = tag /\ A[k].src # "idle" /\ A[k].clip = clip /\ A[k].at = k - 1
      /\ Whole(A) /\ Ordered(A) /\ Blended(A)
  <2> HIDE DEF tag, m
  <2> QED BY <1>1, <1>7, ActionTimeline, LenProperties
<1>9. /\ p \in Seq(Frame) /\ Len(p) = start
      /\ \A k \in 1 .. Len(p) : p[k] = f.buffer[k] /\ k \in 1 .. Len(f.buffer)
  <2> HIDE DEF start
  <2>1. 1 \in Nat \ {0}
    OBVIOUS
  <2>2. /\ p \in Seq(Frame) /\ Len(p) = IF 1 <= start THEN start - 1 + 1 ELSE 0
        /\ \A k \in 1 .. Len(p) : p[k] = f.buffer[k + 1 - 1] /\ k + 1 - 1 \in 1 .. Len(f.buffer)
    BY <1>5, <1>6, <2>1, Piece
  <2>3. Len(p) = start
    BY <1>1, <2>2
  <2>4. \A k \in 1 .. Len(p) : k + 1 - 1 = k
    BY <1>1, <2>3
  <2> QED BY <2>2, <2>3, <2>4
<1>10. /\ Whole(e.buffer) => Whole(p)
       /\ Ordered(e.buffer) => Ordered(p)
       /\ e.config.m \in Nat \ {0} /\ Blended(e.buffer) => Blended(p)
  <2> HIDE DEF start
  <2>1. 1 \in Nat \ {0}
    OBVIOUS
  <2>2. /\ Whole(f.buffer) => Whole(p)
        /\ Ordered(f.buffer) => Ordered(p)
        /\ Blended(f.buffer) => Blended(p)
    BY <1>5, <1>6, <2>1, PieceKeeps
  <2> QED BY <1>4, <2>2
<1> HIDE DEF p, A, start, m, d, frames, tag
<1>11. Apart(p, A)
  <2>1. \A k \in 1 .. Len(f.buffer) : f.buffer[k].tag # tag
    BY <1>7 DEF KnownTags
  <2> QED BY <1>8, <1>9, <2>1 DEF Apart
<1>12. A # <<>> /\ A[1].at = 0 /\ A[1].src # "idle" /\ A[1].clip # Idle
  <2>1. A # <<>>
    BY <1>8, EmptySeq
  <2>2. 1 \in 1 .. Len(A)
    BY <1>8
  <2>3. A[1].at = 1 - 1 /\ A[1].clip = clip /\ A[1].src # "idle"
    BY <1>8, <2>2
  <2> QED BY <2>1, <2>3, ClipAssumption
<1> DEFINE b == p \o A
<1>13. /\ Whole(p) => Whole(b)
       /\ Ordered(p) => Ordered(b)
       /\ Blended(p) => Blended(b)
  BY <1>8, <1>9, <1>11, <1>12, Joined
<1>14. /\ b \in Seq(Frame) /\ Len(b) = start + Len(A)
       /\ \A k \in 1 .. start : b[k] = p[k]
       /\ \A k \in start + 1 .. Len(b) : b[k] = A[k - start] /\ k - start \in 1 .. Len(A)
  <2>1. /\ b \in Seq(Frame) /\ Len(b) = Len(p) + Len(A)
        /\ \A k \in 1 .. Len(p) + Len(A) : b[k] = IF k <= Len(p) THEN p[k] ELSE A[k - Len(p)]
    <3>1. p \in Seq(Frame) /\ A \in Seq(Frame)
      BY <1>8, <1>9
    <3> QED BY ONLY <3>1, ConcatProperties DEF b
  <2> HIDE DEF b
  <2> QED BY <1>1, <1>8, <1>9, <2>1
<1> HIDE DEF b
<1>15. \A k \in 1 .. Len(e.buffer) : k <= start => k <= Len(b) /\ b[k] = e.buffer[k]
  <2> SUFFICES ASSUME NEW k \in 1 .. Len(e.buffer), k <= start
               PROVE  k <= Len(b) /\ b[k] = e.buffer[k]
    OBVIOUS
  <2>1. k \in 1 .. start /\ k <= Len(b)
    BY <1>1, <1>8, <1>14
  <2>2. b[k] = p[k] /\ p[k] = f.buffer[k] /\ f.buffer[k] = e.buffer[k]
    BY <1>4, <1>9, <1>14, <2>1
  <2> QED BY <2>1, <2>2
<1>16. \A k \in 1 .. Len(b) :
         (k <= start /\ k <= Len(e.buffer)) \/ b[k].tag \notin KnownTags(e)
  <2> SUFFICES ASSUME NEW k \in 1 .. Len(b), ~(k <= start /\ k <= Len(e.buffer))
               PROVE  b[k].tag \notin KnownTags(e)
    OBVIOUS
  <2>1. CASE k <= start
    <3>1. k \in 1 .. start
      BY <1>1, <2>1
    <3>2. b[k] = f.buffer[k] /\ k \in 1 .. Len(f.buffer)
      BY <1>9, <1>14, <3>1
    <3> QED BY <1>4, <2>1, <3>2
  <2>2. CASE ~(k <= start)
    <3>1. k \in start + 1 .. Len(b)
      BY <1>1, <1>8, <1>14, <2>2
    <3>2. b[k].tag = tag
      BY <1>8, <1>14, <3>1
    <3> QED BY <1>7, <3>2
  <2> QED BY <2>1, <2>2
<1>17. /\ Whole(e.buffer) => Whole(b)
       /\ Ordered(e.buffer) => Ordered(b)
       /\ e.config.m \in Nat \ {0} /\ Blended(e.buffer) => Blended(b)
  BY <1>10, <1>13
<1>18. g = [e EXCEPT !.buffer = b]
  BY <1>2, <1>4 DEF b, Engines
<1>19. Continued(e, g, start)
  <2>1. start \in Int
    BY <1>1
  <2> QED BY <1>14, <1>15, <1>16, <1>17, <1>18, <2>1, IsContinued
<1>20. g.buffer = b
  BY <1>18 DEF Engines
<1>21. Len(b) = start + Larger(ClipLen[clip], m) /\ Len(b) > start
  BY <1>1, <1>8, <1>14
<1>22. ScheduledTag(g) = tag
  <2>1. Len(b) \in start + 1 .. Len(b)
    BY <1>1, <1>8, <1>14
  <2>2. b[Len(b)].tag = tag
    BY <1>8, <1>14, <2>1
  <2> QED BY <1>20, <2>2 DEF ScheduledTag
<1> QED BY <1>1, <1>7, <1>19, <1>20, <1>21, <1>22 DEF g, start, m, d

LEMMA ScheduleRefused ==
  ASSUME NEW e, NEW clip, ~Accepts(e)
  PROVE  Schedule(e, clip) = e
BY DEF Schedule

(***************************************************************************)
(* A tick plays a number of frames, one after the other                    *)
(***************************************************************************)

LEMMA FramesInTurn ==
  ASSUME NEW e, NEW n \in Nat
  PROVE  \E g : g = [k \in 0 .. n |-> IF k = 0 THEN e ELSE TopUp(Advance(g[k - 1]))]
<1> DEFINE Turns(g, j) == g = [k \in 0 .. j |-> IF k = 0 THEN e ELSE TopUp(Advance(g[k - 1]))]
           S == {j \in 0 .. n : \E g : Turns(g, j)}
<1>1. 0 \in S
  <2> DEFINE g == [k \in 0 .. 0 |-> e]
  <2>1. g = [k \in 0 .. 0 |-> IF k = 0 THEN e ELSE TopUp(Advance(g[k - 1]))]
    OBVIOUS
  <2> HIDE DEF g
  <2>2. \E f : Turns(f, 0)
    BY <2>1
  <2>3. 0 \in 0 .. n
    OBVIOUS
  <2> HIDE DEF Turns
  <2> QED BY <2>2, <2>3
<1>2. \A j \in 0 .. n - 1 : j \in S => j + 1 \in S
  <2> SUFFICES ASSUME NEW j \in 0 .. n - 1, NEW g, Turns(g, j)
               PROVE  \E h : Turns(h, j + 1)
    OBVIOUS
  <2> DEFINE h == [k \in 0 .. j + 1 |-> IF k <= j THEN g[k] ELSE TopUp(Advance(g[j]))]
  <2>1. \A k \in 0 .. j + 1 : h[k] = IF k = 0 THEN e ELSE TopUp(Advance(h[k - 1]))
    <3> SUFFICES ASSUME NEW k \in 0 .. j + 1
                 PROVE  h[k] = IF k = 0 THEN e ELSE TopUp(Advance(h[k - 1]))
      OBVIOUS
    <3>1. CASE k <= j
      <4>1. k \in 0 .. j /\ h[k] = g[k] /\ (k # 0 => h[k - 1] = g[k - 1])
        BY <3>1
      <4>2. g[k] = IF k = 0 THEN e ELSE TopUp(Advance(g[k - 1]))
        BY <4>1
      <4> QED BY <4>1, <4>2
    <3>2. CASE k = j + 1
      <4>1. h[k] = TopUp(Advance(g[j])) /\ h[k - 1] = g[j] /\ k # 0
        BY <3>2
      <4> QED BY <4>1
    <3> QED BY <3>1, <3>2
  <2>2. Turns(h, j + 1)
    BY <2>1
  <2> QED BY <2>2
<1>3. n \in S
  <2> HIDE DEF S
  <2>1. \A k \in 0 .. n : k \in S
    BY <1>1, <1>2, UpTo
  <2> QED BY <2>1
<1> QED BY <1>3

\* A tick ends at an engine of S[k], for the k frames it had time for.
Reached(e, elapsed, S) ==
  \E k \in 0 .. StepsMax : \E f \in S[k], a \in 0 .. BacklogMax * Sub :
    /\ k * Sub <= e.acc + elapsed
    /\ k = 0 => f = e
    /\ Play(e, elapsed) = IF k = 0 /\ e.buffer = <<>> THEN TopUp([f EXCEPT !.acc = a])
                          ELSE [f EXCEPT !.acc = a]

\* What holds frame by frame holds after a tick: S[k] are the engines that may
\* be met after k frames.
LEMMA PlayReaches ==
  ASSUME NEW e \in Engines, NEW elapsed \in Nat, NEW S, e \in S[0],
         \A k \in 0 .. StepsMax - 1 : \A f \in S[k] : TopUp(Advance(f)) \in S[k + 1]
  PROVE  Reached(e, elapsed, S)
<1> DEFINE cap == BacklogMax * Sub
           owed == IF e.acc + elapsed < cap THEN e.acc + elapsed ELSE cap
           n == Steps(owed)
           step(g, k) == IF k = 0 THEN e ELSE TopUp(Advance(g[k - 1]))
           after == CHOOSE g : g = [k \in 0 .. n |-> step(g, k)]
           a == owed - (n * Sub)
           played == [after[n] EXCEPT !.acc = a]
<1>1. /\ cap \in Nat /\ Sub \in Nat \ {0} /\ StepsMax \in Nat \ {0} /\ e.acc \in Nat
  BY FieldsOf, LimitAssumption
<1>2. owed \in 0 .. cap /\ owed <= e.acc + elapsed
  BY <1>1
<1>3. Play(e, elapsed) = IF n = 0 /\ e.buffer = <<>> THEN TopUp(played) ELSE played
  BY DEF Play
<1> HIDE DEF cap, owed
<1>4. /\ owed \div Sub \in Nat
      /\ owed % Sub \in 0 .. Sub - 1
      /\ owed = ((owed \div Sub) * Sub) + (owed % Sub)
  <2>1. owed \in Nat
    BY <1>1, <1>2
  <2> QED BY <1>1, <2>1, DivMod
<1>5. n \in 0 .. StepsMax /\ n <= owed \div Sub
  BY <1>1, <1>4 DEF Steps
<1> HIDE DEF n
<1>6. a \in 0 .. cap /\ n * Sub <= e.acc + elapsed
  <2>1. n * Sub \in Nat /\ n * Sub <= (owed \div Sub) * Sub
    <3>1. ((owed \div Sub) - n) * Sub \in Nat
      BY <1>1, <1>4, <1>5
    <3>2. ((owed \div Sub) - n) * Sub = ((owed \div Sub) * Sub) - (n * Sub)
      BY <1>1, <1>4, <1>5
    <3>3. n * Sub \in Nat
      BY <1>1, <1>5
    <3>4. (owed \div Sub) * Sub \in Nat
      BY <1>1, <1>4
    <3> HIDE <1>1, <1>4, <1>5
    <3> DEFINE x == (owed \div Sub) * Sub
               y == n * Sub
    <3>5. x \in Nat /\ y \in Nat /\ x - y \in Nat
      BY <3>1, <3>2, <3>3, <3>4
    <3> HIDE DEF x, y
    <3>6. y <= x
      BY <3>5
    <3> QED BY <3>5, <3>6 DEF x, y
  <2>2. (owed \div Sub) * Sub <= owed
    BY <1>1, <1>2, <1>4
  <2> QED BY <1>1, <1>2, <1>4, <2>1, <2>2
<1>7. after = [k \in 0 .. n |-> step(after, k)]
  <2>1. n \in Nat
    BY <1>1, <1>5
  <2>2. \E g : g = [k \in 0 .. n |-> step(g, k)]
    BY <2>1, FramesInTurn, ZenonT(30)
  <2> HIDE DEF step
  <2> QED BY <2>2
<1> HIDE DEF after, a
<1>8. \A k \in 0 .. n : after[k] \in S[k]
  <2> DEFINE G == {k \in 0 .. n : after[k] \in S[k]}
  <2>1. 0 \in G /\ after[0] = e
    BY <1>1, <1>5, <1>7
  <2>2. \A k \in 0 .. n - 1 : k \in G => k + 1 \in G
    <3> SUFFICES ASSUME NEW k \in 0 .. n - 1, after[k] \in S[k]
                 PROVE  after[k + 1] \in S[k + 1]
      BY <1>1, <1>5
    <3>1. k \in 0 .. StepsMax - 1 /\ k + 1 \in 0 .. n /\ k + 1 # 0 /\ (k + 1) - 1 = k
      BY <1>1, <1>5
    <3>2. after[k + 1] = TopUp(Advance(after[k]))
      BY <1>7, <3>1
    <3> QED BY <3>1, <3>2
  <2>3. \A k \in 0 .. n : k \in G
    <3> HIDE DEF G
    <3>1. n \in Nat
      BY <1>1, <1>5
    <3> QED BY <2>1, <2>2, <3>1, UpTo
  <2> QED BY <2>3
<1>9. n = 0 => after[n] = e
  BY <1>1, <1>5, <1>7
<1>10. n \in 0 .. n
  BY <1>1, <1>5
<1>11. after[n] \in S[n]
  BY <1>8, <1>10
<1> DEFINE f == after[n]
           result(k, g) == IF k = 0 /\ e.buffer = <<>> THEN TopUp([g EXCEPT !.acc = a])
                           ELSE [g EXCEPT !.acc = a]
<1>12. f \in S[n] /\ (n = 0 => f = e) /\ Play(e, elapsed) = result(n, f)
  BY <1>3, <1>9, <1>11
<1> HIDE DEF f
<1>13. a \in 0 .. BacklogMax * Sub
  BY <1>6 DEF cap
<1> QED BY <1>5, <1>6, <1>12, <1>13 DEF Reached
=============================================================================
