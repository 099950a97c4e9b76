------------------------ MODULE LlamaContext_proofs ------------------------
(***************************************************************************)
(* Theorems of LlamaContext: the cells of a context and what they promise, *)
(* for every size of the cache, of a batch and of its parts.               *)
(*                                                                         *)
(* Everything rests on two facts.  The bookkeeping is a function of the    *)
(* cells, so that a cache whose cells are put back is the one it was; and  *)
(* the folds over the parts of a batch have a history, one cache after     *)
(* each part, along which a property is carried.                           *)
(***************************************************************************)
EXTENDS LlamaContext, FiniteSetTheorems, SequenceTheorems, TLAPS

(***************************************************************************)
(* Numbers                                                                 *)
(***************************************************************************)

LEMMA LeastOf ==
  ASSUME NEW S \in SUBSET Nat, S # {}
  PROVE  \E n \in S : \A m \in S : n <= m
<1> DEFINE R == OpToRel(<, Nat)
<1>1. IsWellFoundedOn(R, Nat)
  BY NatLessThanWellFounded
<1>2. \A x, y \in Nat : x < y => <<x, y>> \in R
  BY DEF OpToRel
<1> HIDE DEF R
<1>3. PICK n \in S : \A y \in S : ~ (<<y, n>> \in R)
  BY <1>1, WFMin
<1>4. \A m \in S : n <= m
  <2> SUFFICES ASSUME NEW m \in S PROVE n <= m
    OBVIOUS
  <2>1. ~ (m < n)
    BY <1>2, <1>3
  <2> QED BY <2>1
<1> QED BY <1>4

\* Induction, for a predicate given as a set.
LEMMA Reached ==
  ASSUME NEW S, 0 \in S, \A k \in Nat : k \in S => k + 1 \in S
  PROVE  \A k \in Nat : k \in S
<1> DEFINE Out == Nat \ S
<1> SUFFICES ASSUME Out # {} PROVE FALSE
  OBVIOUS
<1>1. PICK k \in Out : \A m \in Out : k <= m
  <2>1. Out \in SUBSET Nat
    OBVIOUS
  <2> HIDE DEF Out
  <2> QED BY <2>1, LeastOf
<1>2. k - 1 \in Nat /\ ~ (k <= k - 1)
  OBVIOUS
<1>3. k - 1 \in S
  BY <1>1, <1>2
<1> QED BY <1>2, <1>3

LEMMA UpTo ==
  ASSUME NEW n \in Nat, NEW S, 0 \in S, \A k \in 0 .. n - 1 : k \in S => k + 1 \in S
  PROVE  \A k \in 0 .. n : k \in S
<1> DEFINE T == {k \in Nat : k <= n => k \in S}
<1>1. 0 \in T /\ \A k \in Nat : k \in T => k + 1 \in T
  OBVIOUS
<1>2. \A k \in Nat : k \in T
  <2> HIDE DEF T
  <2> QED BY <1>1, Reached
<1> QED BY <1>2

LEMMA MinOf ==
  ASSUME NEW S \in SUBSET Nat, S # {}
  PROVE  Min(S) \in S /\ \A n \in S : Min(S) <= n
BY LeastOf DEF Min

LEMMA MaxOf ==
  ASSUME NEW S \in SUBSET Nat, S # {}, NEW b \in Nat, \A n \in S : n <= b
  PROVE  Max(S) \in S /\ \A n \in S : n <= Max(S)
<1> DEFINE T == {m \in Nat : b - m \in S}
<1>1. \A n \in S : n \in Nat /\ b - n \in T
  <2> SUFFICES ASSUME NEW n \in S PROVE n \in Nat /\ b - n \in T
    OBVIOUS
  <2>1. n \in Nat /\ n <= b /\ b - (b - n) = n
    OBVIOUS
  <2> QED BY <2>1
<1>2. PICK t \in T : \A m \in T : t <= m
  <2>1. T \in SUBSET Nat /\ T # {}
    BY <1>1
  <2> HIDE DEF T
  <2> QED BY <2>1, LeastOf
<1>3. b - t \in S /\ \A y \in S : b - t >= y
  BY <1>1, <1>2
<1>4. Max(S) \in S /\ \A y \in S : Max(S) >= y
  BY <1>3 DEF Max
<1> QED BY <1>4

(***************************************************************************)
(* Folds: the values they run through                                      *)
(***************************************************************************)

\* A fold from the left takes the largest index off last, one from the right
\* the smallest.
LEMMA LastOfRun ==
  ASSUME NEW n \in Nat, NEW s \in SUBSET (1 .. n), n \in s
  PROVE  Max(s) = n
<1>1. Max(s) \in s /\ \A k \in s : k <= Max(s)
  <2>1. s \in SUBSET Nat /\ s # {} /\ \A k \in s : k <= n
    OBVIOUS
  <2> QED BY <2>1, MaxOf
<1>2. Max(s) \in Nat /\ Max(s) <= n /\ n <= Max(s)
  <2>1. Max(s) \in 1 .. n /\ n <= Max(s)
    BY <1>1
  <2> HIDE <1>1
  <2> QED BY <2>1
<1> QED BY <1>2

LEMMA PlacedRun ==
  ASSUME NEW c, NEW seq, Len(seq) \in Nat, DOMAIN seq = 1 .. Len(seq)
  PROVE  \E r : /\ r[0] = [fits |-> TRUE, cells |-> c, states |-> <<>>] /\ r[Len(seq)] = Placed(c, seq)
                /\ \A k \in 1 .. Len(seq) : r[k] = PlaceNext(r[k - 1], seq[k])
<1> DEFINE n == Len(seq)
           base == [fits |-> TRUE, cells |-> c, states |-> <<>>]
<1>0. n \in Nat /\ DOMAIN seq = 1 .. n
  OBVIOUS
<1> HIDE DEF n, base
<1> DEFINE Is(f, m) ==
             f = [s \in SUBSET (1 .. m) |->
                    IF s = {} THEN base ELSE PlaceNext(f[s \ {Max(s)}], seq[Max(s)])]
           S == {m \in Nat : \E f : Is(f, m)}
<1> USE <1>0
<1>1. 0 \in S
  <2>1. Is([s \in {{}} |-> base], 0)
    OBVIOUS
  <2> QED BY <2>1
<1>2. ASSUME NEW m \in Nat, m \in S PROVE m + 1 \in S
  <2>1. PICK f : Is(f, m)
    BY <1>2
  <2> DEFINE g == [s \in SUBSET (1 .. m + 1) |->
                     IF m + 1 \in s THEN PlaceNext(f[s \ {m + 1}], seq[m + 1]) ELSE f[s]]
  <2>2. Is(g, m + 1)
    <3>1. ASSUME NEW s \in SUBSET (1 .. m + 1)
          PROVE  g[s] = IF s = {} THEN base ELSE PlaceNext(g[s \ {Max(s)}], seq[Max(s)])
      <4>1. CASE m + 1 \in s
        <5>1. Max(s) = m + 1
          BY <4>1, LastOfRun
        <5>2. g[s \ {m + 1}] = f[s \ {m + 1}]
          OBVIOUS
        <5> QED BY <4>1, <5>1, <5>2
      <4>2. CASE m + 1 \notin s
        <5>1. s \in SUBSET (1 .. m)
          BY <4>2
        <5>2. g[s] = f[s] /\ g[s \ {Max(s)}] = f[s \ {Max(s)}]
          BY <4>2
        <5> QED BY <2>1, <5>1, <5>2
      <4> QED BY <4>1, <4>2
    <3>2. g = [s \in SUBSET (1 .. m + 1) |-> g[s]]
      OBVIOUS
    <3> HIDE DEF g
    <3> QED BY <3>1, <3>2
  <2>3. \E h : Is(h, m + 1)
    <3> HIDE DEF g
    <3> QED BY <2>2
  <2>4. m + 1 \in Nat
    OBVIOUS
  <2> QED BY <2>3, <2>4
<1>3. n \in S
  <2> HIDE DEF S
  <2> QED BY <1>1, <1>2, Reached
<1> DEFINE iter == CHOOSE f : Is(f, n)
           r == [k \in 0 .. n |-> iter[1 .. k]]
<1>4. Is(iter, n)
  BY <1>3
<1>5. Placed(c, seq) = iter[1 .. n]
  BY DEF Placed, base, FoldLeft, MapThenFoldSet
<1> HIDE DEF iter, S
<1>6. r[0] = base /\ r[n] = iter[1 .. n]
  <2>1. iter[{}] = base /\ 1 .. 0 = {}
    BY <1>4
  <2>2. r[0] = iter[1 .. 0] /\ r[n] = iter[1 .. n]
    OBVIOUS
  <2> QED BY <2>1, <2>2
<1>7. ASSUME NEW k \in 1 .. n PROVE r[k] = PlaceNext(r[k - 1], seq[k])
  <2>1. Max(1 .. k) = k /\ (1 .. k) \ {k} = 1 .. k - 1 /\ 1 .. k # {}
    <3>1. k \in Nat /\ 1 .. k \in SUBSET (1 .. k) /\ k \in 1 .. k
      OBVIOUS
    <3>2. Max(1 .. k) = k
      BY <3>1, LastOfRun
    <3>3. (1 .. k) \ {k} = 1 .. k - 1
      OBVIOUS
    <3> QED BY <3>1, <3>2, <3>3
  <2>2. 1 .. k \in SUBSET (1 .. n)
    OBVIOUS
  <2>3. iter[1 .. k] = PlaceNext(iter[1 .. k - 1], seq[k])
    BY <1>4, <2>1, <2>2
  <2> QED BY <2>3
<1> QED BY <1>5, <1>6, <1>7 DEF n, base

LEMMA FirstOfRun ==
  ASSUME NEW n \in Nat, NEW k \in 1 .. n, NEW s \in SUBSET (k .. n), k \in s
  PROVE  Min(s) = k
<1>1. Min(s) \in s /\ \A j \in s : Min(s) <= j
  <2>1. s \in SUBSET Nat /\ s # {}
    OBVIOUS
  <2> QED BY <2>1, MinOf
<1>2. Min(s) \in Nat /\ k <= Min(s) /\ Min(s) <= k
  <2>1. Min(s) \in k .. n /\ Min(s) <= k
    BY <1>1
  <2> HIDE <1>1
  <2> QED BY <2>1
<1> QED BY <1>2

LEMMA TakenBackRun ==
  ASSUME NEW base, NEW seq, Len(seq) \in Nat, DOMAIN seq = 1 .. Len(seq)
  PROVE  \E r : /\ r[Len(seq)] = base /\ r[0] = TakeAllBack(seq, base)
                /\ \A k \in 1 .. Len(seq) : r[k - 1] = TakeBack(seq[k], r[k])
<1> DEFINE n == Len(seq)
<1>0. n \in Nat /\ DOMAIN seq = 1 .. n
  OBVIOUS
<1> HIDE DEF n
<1> DEFINE Is(f, l) ==
             f = [s \in SUBSET (l .. n) |->
                    IF s = {} THEN base ELSE TakeBack(seq[Min(s)], f[s \ {Min(s)}])]
           Has(m) == \E l \in Nat : l + m = n + 1 /\ \E f : Is(f, l)
           S == {m \in Nat : m <= n => Has(m)}
<1> USE <1>0
<1>1. 0 \in S
  <2>1. n + 1 .. n = {} /\ n + 1 \in Nat /\ (n + 1) + 0 = n + 1
    OBVIOUS
  <2>2. Is([s \in {{}} |-> base], n + 1)
    BY <2>1
  <2>3. Has(0)
    <3> HIDE DEF Is
    <3> QED BY <2>1, <2>2
  <2> HIDE DEF Has
  <2> QED BY <2>3
<1>2. ASSUME NEW m \in Nat, m \in S PROVE m + 1 \in S
  <2> SUFFICES ASSUME m + 1 <= n PROVE Has(m + 1)
    <3> HIDE DEF Has
    <3> QED OBVIOUS
  <2>b. Has(m)
    <3> HIDE DEF Has
    <3> QED BY <1>2
  <2>a. PICK up \in Nat : up + m = n + 1 /\ \E f : Is(f, up)
    <3> HIDE DEF S, Is
    <3> QED BY <2>b
  <2>1. PICK f : Is(f, up)
    BY <2>a
  <2> DEFINE l == up - 1
  <2>0. l \in 1 .. n /\ l + 1 = up /\ l + (m + 1) = n + 1
    BY <2>a
  <2> HIDE DEF l
  <2> DEFINE g == [s \in SUBSET (l .. n) |->
                     IF l \in s THEN TakeBack(seq[l], f[s \ {l}]) ELSE f[s]]
  <2>2. Is(g, l)
    <3>1. ASSUME NEW s \in SUBSET (l .. n)
          PROVE  g[s] = IF s = {} THEN base ELSE TakeBack(seq[Min(s)], g[s \ {Min(s)}])
      <4>1. CASE l \in s
        <5>1. Min(s) = l
          BY <2>0, <4>1, FirstOfRun
        <5>2. g[s \ {l}] = f[s \ {l}]
          OBVIOUS
        <5> QED BY <4>1, <5>1, <5>2
      <4>2. CASE l \notin s
        <5>1. s \in SUBSET (up .. n)
          BY <2>0, <4>2
        <5>2. g[s] = f[s] /\ g[s \ {Min(s)}] = f[s \ {Min(s)}]
          BY <4>2
        <5> QED BY <2>1, <5>1, <5>2
      <4> QED BY <4>1, <4>2
    <3>2. g = [s \in SUBSET (l .. n) |-> g[s]]
      OBVIOUS
    <3> HIDE DEF g
    <3> QED BY <3>1, <3>2
  <2>3. \E h : Is(h, l)
    <3> HIDE DEF g
    <3> QED BY <2>2
  <2> HIDE DEF Is
  <2> QED BY <2>0, <2>3
<1>3. n \in S
  <2> HIDE DEF S
  <2> QED BY <1>1, <1>2, Reached
<1> DEFINE iter == CHOOSE f : Is(f, 1)
           r == [k \in 0 .. n |-> iter[k + 1 .. n]]
<1>4. Is(iter, 1)
  <2>a. PICK l \in Nat : l + n = n + 1 /\ \E f : Is(f, l)
    <3>1. Has(n)
      <4> HIDE DEF Has
      <4> QED BY <1>3
    <3> HIDE DEF S, Is
    <3> QED BY <3>1
  <2>b. PICK f : Is(f, l)
    BY <2>a
  <2>c. l .. n = 1 .. n
    BY <2>a
  <2>2. \E h : Is(h, 1)
    BY <2>b, <2>c
  <2> HIDE DEF S
  <2> QED BY <2>2
<1>5. TakeAllBack(seq, base) = iter[1 .. n]
  BY DEF TakeAllBack, FoldRight, MapThenFoldSet
<1> HIDE DEF iter, S
<1>6. r[n] = base /\ r[0] = iter[1 .. n]
  <2>1. iter[{}] = base /\ n + 1 .. n = {}
    BY <1>4
  <2>2. r[n] = iter[n + 1 .. n] /\ r[0] = iter[1 .. n]
    OBVIOUS
  <2> QED BY <2>1, <2>2
<1>7. ASSUME NEW k \in 1 .. n PROVE r[k - 1] = TakeBack(seq[k], r[k])
  <2>1. Min(k .. n) = k /\ (k .. n) \ {k} = k + 1 .. n /\ k .. n # {}
    <3>1. k \in Nat /\ k .. n \in SUBSET (k .. n) /\ k \in k .. n
      OBVIOUS
    <3>2. Min(k .. n) = k
      BY <3>1, FirstOfRun
    <3>3. (k .. n) \ {k} = k + 1 .. n
      OBVIOUS
    <3> QED BY <3>1, <3>2, <3>3
  <2>2. k .. n \in SUBSET (1 .. n)
    OBVIOUS
  <2>3. iter[k .. n] = TakeBack(seq[k], iter[k + 1 .. n])
    BY <1>4, <2>1, <2>2
  <2>4. k - 1 \in 0 .. n /\ k \in 0 .. n /\ (k - 1) + 1 = k
    OBVIOUS
  <2> QED BY <2>3, <2>4
<1> QED BY <1>5, <1>6, <1>7 DEF n

(***************************************************************************)
(* Cells and their bookkeeping                                             *)
(***************************************************************************)

\* The cells of I that hold sequence s at position p.
Where(c, I, s, p) == {i \in I : s \in c.seq[i] /\ c.pos[i] = p}

\* A cache whose bookkeeping is that of its cells.
Sound(c) ==
  /\ c \in Cells
  /\ c.used = {i \in Index : c.pos[i] # Empty}
  /\ \A i \in Index : c.pos[i] = Empty <=> c.seq[i] = {}
  /\ \A s \in Heads, p \in 0 .. NPos - 1 : c.count[s][p] = Cardinality(Where(c, Index, s, p))

\* What cells may be changed to.
Changes(new) ==
  /\ DOMAIN new \subseteq Index
  /\ \A i \in DOMAIN new :
       /\ new[i].pos \in 0 .. NPos - 1 \cup {Empty} /\ new[i].seqs \in SUBSET Heads
       /\ new[i].pos = Empty <=> new[i].seqs = {}

LEMMA IndexFinite == 
  /\ IsFiniteSet(Index) /\ Cardinality(Index) = NCells
  /\ \A I \in SUBSET Index : IsFiniteSet(I) /\ Cardinality(I) \in Nat
<1>1. NCells \in Nat \ {0} /\ NCells - 1 \in Int
  BY SizesAssumption
<1>2. IsFiniteSet(Index) /\ Cardinality(Index) = NCells
  BY <1>1, FS_Interval DEF Index
<1> QED BY <1>2, FS_Subset, FS_CardinalityType

LEMMA Apart ==
  ASSUME NEW A \in SUBSET Index, NEW B \in SUBSET Index, A \cap B = {}
  PROVE  Cardinality(A \cup B) = Cardinality(A) + Cardinality(B)
<1>1. IsFiniteSet(A) /\ IsFiniteSet(B) /\ Cardinality(A) \in Nat /\ Cardinality(B) \in Nat
  BY IndexFinite
<1>2. Cardinality(A \cup B) = Cardinality(A) + Cardinality(B) - Cardinality({})
  BY <1>1, FS_Union
<1> QED BY <1>1, <1>2, FS_EmptySet

LEMMA CellsFields ==
  ASSUME NEW c \in Cells
  PROVE  /\ c.pos \in [Index -> 0 .. NPos - 1 \cup {Empty}] /\ c.seq \in [Index -> SUBSET Heads]
         /\ c.used \in SUBSET Index /\ c.count \in [Heads -> [0 .. NPos - 1 -> Nat]]
         /\ c.data \in [Index -> Token \cup {Spoilt}] /\ c.head \in 0 .. NCells
         /\ c = [pos |-> c.pos, seq |-> c.seq, used |-> c.used, count |-> c.count,
                 data |-> c.data, head |-> c.head]
BY DEF Cells

\* A cache with its four fields of cells and counters replaced.
Four(c, pos, seq, used, count) ==
  [c EXCEPT !.pos = pos, !.seq = seq, !.used = used, !.count = count]

LEMMA Fourfold ==
  ASSUME NEW c \in Cells, NEW pos, NEW seq, NEW used, NEW count
  PROVE  Four(c, pos, seq, used, count) =
           [pos |-> pos, seq |-> seq, used |-> used, count |-> count,
            data |-> c.data, head |-> c.head]
<1> DEFINE d == [c EXCEPT !.pos = pos, !.seq = seq, !.used = used, !.count = count]
           r == [pos |-> pos, seq |-> seq, used |-> used, count |-> count,
                 data |-> c.data, head |-> c.head]
           F == {"pos", "seq", "used", "count", "data", "head"}
<1>1. DOMAIN c = F
  BY DEF Cells
<1>2. d = [x \in F |-> d[x]]
  BY <1>1
<1>3. /\ d.pos = pos /\ d.seq = seq /\ d.used = used /\ d.count = count
      /\ d.data = c.data /\ d.head = c.head
  BY <1>1
<1>4. /\ r = [x \in F |-> r[x]]
      /\ r.pos = pos /\ r.seq = seq /\ r.used = used /\ r.count = count
      /\ r.data = c.data /\ r.head = c.head
  OBVIOUS
<1>5. d = r
  <2> HIDE DEF d, r
  <2> QED BY <1>2, <1>3, <1>4
<1> QED BY <1>5 DEF Four

\* Changing cells keeps the bookkeeping.
LEMMA SetCellsSound ==
  ASSUME NEW c, Sound(c), NEW new, Changes(new)
  PROVE  LET d == SetCells(c, new)
         IN  /\ Sound(d)
             /\ d.pos = [i \in Index |-> IF i \in DOMAIN new THEN new[i].pos ELSE c.pos[i]]
             /\ d.seq = [i \in Index |-> IF i \in DOMAIN new THEN new[i].seqs ELSE c.seq[i]]
             /\ d.data = c.data /\ d.head = c.head
<1> DEFINE pos == [i \in Index |-> IF i \in DOMAIN new THEN new[i].pos ELSE c.pos[i]]
           seq == [i \in Index |-> IF i \in DOMAIN new THEN new[i].seqs ELSE c.seq[i]]
           used == (c.used \ DOMAIN new) \cup {i \in DOMAIN new : new[i].pos # Empty}
           off(s, p) == {i \in DOMAIN new : s \in c.seq[i] /\ c.pos[i] = p}
           on(s, p) == {i \in DOMAIN new : s \in seq[i] /\ pos[i] = p}
           count == [s \in Heads |-> [p \in 0 .. NPos - 1 |->
                       c.count[s][p] - Cardinality(off(s, p)) + Cardinality(on(s, p))]]
           d == [pos |-> pos, seq |-> seq, used |-> used, count |-> count,
                 data |-> c.data, head |-> c.head]
<1>1. c \in Cells
  BY DEF Sound
<1>2. SetCells(c, new) = d
  <2>1. SetCells(c, new) = Four(c, pos, seq, used, count)
    BY DEF SetCells, Four
  <2> HIDE DEF pos, seq, used, count
  <2>2. Four(c, pos, seq, used, count) = d
    BY <1>1, Fourfold
  <2> HIDE DEF d
  <2> QED BY <2>1, <2>2
<1>3. pos \in [Index -> 0 .. NPos - 1 \cup {Empty}] /\ seq \in [Index -> SUBSET Heads]
  BY <1>1, CellsFields DEF Changes
<1>4. used \in SUBSET Index /\ used = {i \in Index : pos[i] # Empty}
  BY <1>1, CellsFields DEF Changes, Sound
<1>5. \A i \in Index : pos[i] = Empty <=> seq[i] = {}
  BY DEF Changes, Sound
<1>6. ASSUME NEW s \in Heads, NEW p \in 0 .. NPos - 1
      PROVE  count[s][p] \in Nat /\ count[s][p] = Cardinality(Where(d, Index, s, p))
  <2> DEFINE rest == {i \in Index \ DOMAIN new : s \in c.seq[i] /\ c.pos[i] = p}
  <2>1. Where(c, Index, s, p) = rest \cup off(s, p) /\ rest \cap off(s, p) = {}
    BY DEF Where, Changes
  <2>2. Where(d, Index, s, p) = rest \cup on(s, p) /\ rest \cap on(s, p) = {}
    BY DEF Where, Changes
  <2>3. rest \in SUBSET Index /\ off(s, p) \in SUBSET Index /\ on(s, p) \in SUBSET Index
    BY DEF Changes
  <2>4. c.count[s][p] = Cardinality(Where(c, Index, s, p))
    BY DEF Sound
  <2>5. count[s][p] = c.count[s][p] - Cardinality(off(s, p)) + Cardinality(on(s, p))
    OBVIOUS
  <2> HIDE DEF rest, off, on, count, d
  <2>6. /\ c.count[s][p] = Cardinality(rest) + Cardinality(off(s, p))
        /\ Cardinality(Where(d, Index, s, p)) = Cardinality(rest) + Cardinality(on(s, p))
    BY <2>1, <2>2, <2>3, <2>4, Apart
  <2>7. Cardinality(rest) \in Nat /\ Cardinality(off(s, p)) \in Nat /\ Cardinality(on(s, p)) \in Nat
    BY <2>3, IndexFinite
  <2> QED BY <2>5, <2>6, <2>7
<1>7. count \in [Heads -> [0 .. NPos - 1 -> Nat]]
  <2>1. \A s \in Heads : count[s] \in [0 .. NPos - 1 -> Nat]
    <3> SUFFICES ASSUME NEW s \in Heads PROVE count[s] \in [0 .. NPos - 1 -> Nat]
      OBVIOUS
    <3>1. \A p \in 0 .. NPos - 1 : count[s][p] \in Nat
      BY <1>6
    <3>2. count[s] = [p \in 0 .. NPos - 1 |-> count[s][p]]
      OBVIOUS
    <3> HIDE DEF count
    <3> QED BY <3>1, <3>2
  <2>2. count = [s \in Heads |-> count[s]]
    OBVIOUS
  <2> HIDE DEF count
  <2> QED BY <2>1, <2>2
<1>8. d \in Cells
  <2> HIDE DEF pos, seq, used, count
  <2> QED BY <1>1, <1>3, <1>4, <1>7, CellsFields DEF Cells
<1>9. d.pos = pos /\ d.seq = seq /\ d.used = used /\ d.count = count
  OBVIOUS
<1>10. d.data = c.data /\ d.head = c.head
  OBVIOUS
<1>11. Sound(d)
  <2> HIDE DEF d, pos, seq, used, count
  <2> QED BY <1>4, <1>5, <1>6, <1>8, <1>9 DEF Sound
<1> QED BY <1>2, <1>9, <1>10, <1>11

\* The bookkeeping is a function of the cells.
LEMMA Determined ==
  ASSUME NEW c, Sound(c), NEW d, Sound(d),
         c.pos = d.pos, c.seq = d.seq, c.data = d.data, c.head = d.head
  PROVE  c = d
<1>1. c \in Cells /\ d \in Cells
  BY DEF Sound
<1>2. c.used = d.used
  BY DEF Sound
<1>3. c.count = d.count
  <2>1. \A s \in Heads, p \in 0 .. NPos - 1 : c.count[s][p] = d.count[s][p]
    <3> SUFFICES ASSUME NEW s \in Heads, NEW p \in 0 .. NPos - 1
                 PROVE  c.count[s][p] = d.count[s][p]
      OBVIOUS
    <3>1. Where(c, Index, s, p) = Where(d, Index, s, p)
      BY DEF Where
    <3>2. c.count[s][p] = Cardinality(Where(c, Index, s, p))
      BY DEF Sound
    <3>3. d.count[s][p] = Cardinality(Where(d, Index, s, p))
      BY DEF Sound
    <3> QED BY <3>1, <3>2, <3>3
  <2>2. c.count \in [Heads -> [0 .. NPos - 1 -> Nat]] /\ d.count \in [Heads -> [0 .. NPos - 1 -> Nat]]
    BY <1>1, CellsFields
  <2>3. \A s \in Heads : c.count[s] = d.count[s]
    <3> SUFFICES ASSUME NEW s \in Heads PROVE c.count[s] = d.count[s]
      OBVIOUS
    <3>1. c.count[s] \in [0 .. NPos - 1 -> Nat] /\ d.count[s] \in [0 .. NPos - 1 -> Nat]
      BY <2>2
    <3>2. c.count[s] = [p \in 0 .. NPos - 1 |-> c.count[s][p]]
      BY <3>1
    <3>3. d.count[s] = [p \in 0 .. NPos - 1 |-> d.count[s][p]]
      BY <3>1
    <3>4. \A p \in 0 .. NPos - 1 : c.count[s][p] = d.count[s][p]
      BY <2>1
    <3> QED BY <3>2, <3>3, <3>4
  <2> QED BY <2>2, <2>3
<1> QED BY <1>1, <1>2, <1>3, CellsFields

LEMMA SameCells ==
  ASSUME NEW c, Sound(c), NEW d \in Cells,
         d.pos = c.pos, d.seq = c.seq, d.used = c.used, d.count = c.count
  PROVE  Sound(d)
<1>1. \A s \in Heads, p \in 0 .. NPos - 1 : Where(d, Index, s, p) = Where(c, Index, s, p)
  BY DEF Where
<1> QED BY <1>1 DEF Sound

\* Moving the head, or changing the tensors, leaves the bookkeeping alone.
LEMMA HeadMoved ==
  ASSUME NEW c, Sound(c), NEW h \in 0 .. NCells
  PROVE  LET d == [c EXCEPT !.head = h]
         IN  /\ Sound(d) /\ d.head = h
             /\ d.pos = c.pos /\ d.seq = c.seq /\ d.data = c.data
             /\ d.used = c.used /\ d.count = c.count
<1> DEFINE d == [c EXCEPT !.head = h]
<1>1. c \in Cells
  BY DEF Sound
<1>2. /\ d \in Cells /\ d.head = h
      /\ d.pos = c.pos /\ d.seq = c.seq /\ d.data = c.data
      /\ d.used = c.used /\ d.count = c.count
  BY <1>1 DEF Cells
<1> HIDE DEF d
<1>3. Sound(d)
  BY <1>2, SameCells
<1> QED BY <1>2, <1>3 DEF d

LEMMA DataChanged ==
  ASSUME NEW c, Sound(c), NEW data \in [Index -> Token \cup {Spoilt}]
  PROVE  LET d == [c EXCEPT !.data = data]
         IN  /\ Sound(d) /\ d.data = data
             /\ d.pos = c.pos /\ d.seq = c.seq /\ d.head = c.head
             /\ d.used = c.used /\ d.count = c.count
<1> DEFINE d == [c EXCEPT !.data = data]
<1>1. c \in Cells
  BY DEF Sound
<1>2. /\ d \in Cells /\ d.data = data
      /\ d.pos = c.pos /\ d.seq = c.seq /\ d.head = c.head
      /\ d.used = c.used /\ d.count = c.count
  BY <1>1 DEF Cells
<1> HIDE DEF d
<1>3. Sound(d)
  BY <1>2, SameCells
<1> QED BY <1>2, <1>3 DEF d

\* Removing positions: what is left on each cell.
LEMMA SeqRmSound ==
  ASSUME NEW c, Sound(c), NEW from \in [Heads -> 0 .. NPos]
  PROVE  LET d == SeqRm(c, from)
             left(i) == {s \in c.seq[i] : c.pos[i] < from[s]}
         IN  /\ Sound(d) /\ d.data = c.data
             /\ d.pos = [i \in Index |-> IF left(i) = {} THEN Empty ELSE c.pos[i]]
             /\ d.seq = [i \in Index |-> left(i)]
<1> DEFINE left(i) == {s \in c.seq[i] : c.pos[i] < from[s]}
           hit == {i \in Index : left(i) # c.seq[i]}
           freed == {i \in hit : left(i) = {}}
           new == [i \in hit |-> [pos |-> IF i \in freed THEN Empty ELSE c.pos[i], seqs |-> left(i)]]
           e == SetCells(c, new)
           h == IF freed # {} /\ Min(freed) < e.head THEN Min(freed) ELSE e.head
           d == [e EXCEPT !.head = h]
<1>1. c \in Cells /\ c.pos \in [Index -> 0 .. NPos - 1 \cup {Empty}] /\ c.seq \in [Index -> SUBSET Heads]
  BY CellsFields DEF Sound
<1>2. Changes(new)
  BY <1>1 DEF Changes, Sound
<1>3. /\ Sound(e) /\ e.data = c.data /\ e.head = c.head
      /\ e.pos = [i \in Index |-> IF i \in hit THEN new[i].pos ELSE c.pos[i]]
      /\ e.seq = [i \in Index |-> IF i \in hit THEN new[i].seqs ELSE c.seq[i]]
  <2> DEFINE D == DOMAIN new
  <2>1. D = hit
    OBVIOUS
  <2> HIDE DEF new, hit
  <2> QED BY <1>2, <2>1, SetCellsSound
<1>4. h \in 0 .. NCells
  <2>1. e.head \in 0 .. NCells
    BY <1>3, CellsFields DEF Sound
  <2>2. CASE freed # {}
    <3>1. freed \in SUBSET Nat /\ freed \in SUBSET (0 .. NCells)
      BY SizesAssumption DEF Index
    <3>2. Min(freed) \in freed
      <4> HIDE DEF freed
      <4> QED BY <2>2, <3>1, MinOf
    <3> HIDE DEF freed, e
    <3> QED BY <2>1, <3>1, <3>2
  <2>3. CASE freed = {}
    BY <2>1, <2>3
  <2> QED BY <2>2, <2>3
<1>5. SeqRm(c, from) = d
  BY DEF SeqRm
<1>6. Sound(d) /\ d.pos = e.pos /\ d.seq = e.seq /\ d.data = e.data
  <2> HIDE DEF e, h
  <2> QED BY <1>3, <1>4, HeadMoved
<1>7. /\ e.pos = [i \in Index |-> IF left(i) = {} THEN Empty ELSE c.pos[i]]
      /\ e.seq = [i \in Index |-> left(i)]
  <2> HIDE DEF e
  <2>1. ASSUME NEW i \in Index
        PROVE  /\ (IF i \in hit THEN new[i].pos ELSE c.pos[i]) = (IF left(i) = {} THEN Empty ELSE c.pos[i])
               /\ (IF i \in hit THEN new[i].seqs ELSE c.seq[i]) = left(i)
    BY DEF Sound
  <2> HIDE DEF hit, new, left
  <2> QED BY <1>3, <2>1
<1>8. /\ Sound(d) /\ d.data = c.data
      /\ d.pos = [i \in Index |-> IF left(i) = {} THEN Empty ELSE c.pos[i]]
      /\ d.seq = [i \in Index |-> left(i)]
  <2> HIDE DEF d, e, left
  <2> QED BY <1>3, <1>6, <1>7
<1> HIDE DEF d
<1> QED BY <1>5, <1>8

(***************************************************************************)
(* Finding cells                                                           *)
(***************************************************************************)

FreeCells(c) == {i \in Index : c.pos[i] = Empty}

\* Different empty cells, as many as there are tokens.
IsSlot(c, slot, n) ==
  /\ slot \in Seq(Index) /\ Len(slot) = n /\ DOMAIN slot = 1 .. n
  /\ \A k \in 1 .. n : slot[k] \in FreeCells(c)
  /\ \A j, k \in 1 .. n : slot[j] = slot[k] => j = k

\* A search comes by one cell after the other.
LEMMA SearchOrder ==
  ASSUME NEW start \in 0 .. NCells, NEW i \in Index, NEW j \in Index, i # j
  PROVE  /\ i \in Tested(start, i) /\ Tested(start, i) \subseteq Index
         /\ \/ Tested(start, i) \subseteq Tested(start, j) /\ j \notin Tested(start, i)
            \/ Tested(start, j) \subseteq Tested(start, i) /\ i \notin Tested(start, j)
<1>1. NCells \in Nat \ {0}
  BY SizesAssumption
<1>2. i \in Int /\ j \in Int /\ start \in Int
  BY <1>1 DEF Index
<1>3. i \in Tested(start, i) /\ Tested(start, i) \subseteq Index
  BY <1>1 DEF Tested, Index
<1>4. CASE start <= i /\ start <= j
  <2>1. Tested(start, i) = start .. i /\ Tested(start, j) = start .. j
    BY <1>4 DEF Tested
  <2>2. CASE i < j
    <3>1. start .. i \subseteq start .. j /\ j \notin start .. i
      BY <1>2, <2>2
    <3> QED BY <1>3, <2>1, <3>1
  <2>3. CASE j < i
    <3>1. start .. j \subseteq start .. i /\ i \notin start .. j
      BY <1>2, <2>3
    <3> QED BY <1>3, <2>1, <3>1
  <2> QED BY <1>2, <2>2, <2>3
<1>5. CASE ~ (start <= i) /\ ~ (start <= j)
  <2>1. /\ Tested(start, i) = 0 .. i \cup start .. NCells - 1
        /\ Tested(start, j) = 0 .. j \cup start .. NCells - 1
    BY <1>5 DEF Tested
  <2>2. /\ i \notin start .. NCells - 1 /\ j \notin start .. NCells - 1
        /\ i < j => 0 .. i \subseteq 0 .. j /\ j \notin 0 .. i
        /\ j < i => 0 .. j \subseteq 0 .. i /\ i \notin 0 .. j
    BY <1>2, <1>5
  <2>3. i < j \/ j < i
    BY <1>2
  <2> QED BY <1>3, <2>1, <2>2, <2>3
<1>6. CASE start <= i /\ ~ (start <= j)
  <2>1. Tested(start, j) = 0 .. j \cup start .. NCells - 1 /\ Tested(start, i) = start .. i
    BY <1>6 DEF Tested
  <2>2. start .. i \subseteq start .. NCells - 1
    BY <1>1, <1>2 DEF Index
  <2>3. j \notin start .. i
    BY <1>2, <1>6
  <2> QED BY <1>3, <2>1, <2>2, <2>3
<1>7. CASE ~ (start <= i) /\ start <= j
  <2>1. Tested(start, i) = 0 .. i \cup start .. NCells - 1 /\ Tested(start, j) = start .. j
    BY <1>7 DEF Tested
  <2>2. start .. j \subseteq start .. NCells - 1
    BY <1>1, <1>2 DEF Index
  <2>3. i \notin start .. j
    BY <1>2, <1>7
  <2> QED BY <1>3, <2>1, <2>2, <2>3
<1> QED BY <1>3, <1>4, <1>5, <1>6, <1>7

LEMMA Ranks ==
  ASSUME NEW start \in 0 .. NCells, NEW free \in SUBSET Index
  PROVE  LET rank == [i \in free |-> Cardinality(Tested(start, i) \cap free)]
         IN  /\ rank \in Injection(free, 1 .. Cardinality(free))
             /\ rank \in Surjection(free, 1 .. Cardinality(free))
<1> DEFINE on(i) == Tested(start, i) \cap free
           rank == [i \in free |-> Cardinality(on(i))]
           m == Cardinality(free)
<1>1. IsFiniteSet(free) /\ m \in Nat
  BY IndexFinite
<1>2. ASSUME NEW i \in free
      PROVE  Cardinality(on(i)) \in 1 .. m /\ IsFiniteSet(on(i))
  <2>1. i \in on(i) /\ on(i) \subseteq free
    BY DEF Tested, Index
  <2> HIDE DEF on
  <2>2. IsFiniteSet(on(i)) /\ Cardinality(on(i)) <= m /\ Cardinality(on(i)) \in Nat
    BY <1>1, <2>1, FS_Subset, FS_CardinalityType
  <2>3. Cardinality(on(i)) # 0
    BY <2>1, <2>2, FS_EmptySet
  <2> QED BY <1>1, <2>2, <2>3
<1>3. ASSUME NEW i \in free, NEW j \in free, i # j
      PROVE  Cardinality(on(i)) # Cardinality(on(j))
  <2>1. \/ on(i) \subseteq on(j) /\ j \notin on(i)
        \/ on(j) \subseteq on(i) /\ i \notin on(j)
    BY <1>3, SearchOrder
  <2>2. i \in on(i) /\ j \in on(j)
    BY <1>3, SearchOrder
  <2> HIDE DEF on
  <2>3. on(i) # on(j)
    BY <2>1, <2>2
  <2>4. CASE on(i) \subseteq on(j)
    BY <1>2, <2>3, <2>4, FS_Subset
  <2>5. CASE on(j) \subseteq on(i)
    BY <1>2, <2>3, <2>5, FS_Subset
  <2> QED BY <2>1, <2>4, <2>5
<1>4. rank \in Injection(free, 1 .. m)
  <2>1. rank \in [free -> 1 .. m]
    BY <1>2
  <2>2. \A i, j \in free : rank[i] = rank[j] => i = j
    BY <1>3
  <2> HIDE DEF rank
  <2> QED BY <2>1, <2>2 DEF Injection, IsInjective
<1>5. IsFiniteSet(1 .. m) /\ Cardinality(1 .. m) = m
  BY <1>1, FS_Interval
<1> HIDE DEF rank
<1>6. rank \in Surjection(free, 1 .. m)
  BY <1>4, <1>5, FS_Injection
<1> QED BY <1>4, <1>6 DEF rank

LEMMA FreeAndUsed ==
  ASSUME NEW c, Sound(c)
  PROVE  /\ Cardinality(FreeCells(c)) + Cardinality(c.used) = NCells
         /\ Cardinality(FreeCells(c)) \in Nat /\ Cardinality(c.used) \in Nat
<1>1. c.used \in SUBSET Index /\ FreeCells(c) \in SUBSET Index
  BY CellsFields DEF Sound, FreeCells
<1>2. FreeCells(c) \cup c.used = Index /\ FreeCells(c) \cap c.used = {}
  BY DEF Sound, FreeCells
<1> QED BY <1>1, <1>2, Apart, IndexFinite

\* find_slot finds as many cells as there are tokens, unless too few are empty.
LEMMA SlotFound ==
  ASSUME NEW c, Sound(c), NEW n \in Nat \ {0}
  PROVE  IF Cardinality(c.used) + n <= NCells THEN IsSlot(c, FindSlot(c, n), n)
         ELSE FindSlot(c, n) = <<>>
<1> DEFINE start == IF c.head > Cardinality(c.used) + 2 * n THEN 0 ELSE c.head
           free == FreeCells(c)
           rank == [i \in free |-> Cardinality(Tested(start, i) \cap free)]
           m == Cardinality(free)
           pick(k) == CHOOSE i \in free : Cardinality(Tested(start, i) \cap free) = k
           at == [k \in 1 .. n |-> pick(k)]
<1>1. m + Cardinality(c.used) = NCells /\ m \in Nat /\ Cardinality(c.used) \in Nat
      /\ NCells \in Nat \ {0}
  BY FreeAndUsed, SizesAssumption
<1>2. FindSlot(c, n) = IF m < n THEN <<>> ELSE at
  BY DEF FindSlot, FreeCells
<1>3. start \in 0 .. NCells /\ free \in SUBSET Index
  <2>1. c.head \in 0 .. NCells
    BY CellsFields DEF Sound
  <2> QED BY <1>1, <2>1 DEF FreeCells
<1> HIDE DEF start, free, m
<1>4. CASE m < n
  BY <1>1, <1>2, <1>4
<1>5. CASE ~ (m < n)
  <2>1. /\ rank \in Injection(free, 1 .. Cardinality(free))
        /\ rank \in Surjection(free, 1 .. Cardinality(free))
    BY <1>3, Ranks
  <2>2. \A k \in 1 .. n : \E i \in free : Cardinality(Tested(start, i) \cap free) = k
    <3> SUFFICES ASSUME NEW k \in 1 .. n
                 PROVE  \E i \in free : Cardinality(Tested(start, i) \cap free) = k
      OBVIOUS
    <3>1. k \in 1 .. m
      BY <1>1, <1>5
    <3>2. \E i \in free : rank[i] = k
      <4> HIDE DEF rank
      <4> QED BY <2>1, <3>1 DEF Surjection, m
    <3> QED BY <3>2
  <2>3. \A k \in 1 .. n : at[k] \in free /\ Cardinality(Tested(start, at[k]) \cap free) = k
    BY <2>2
  <2>4. at \in Seq(Index) /\ Len(at) = n /\ DOMAIN at = 1 .. n
    <3>1. \A k \in 1 .. n : at[k] \in Index
      BY <1>3, <2>3
    <3>2a. at = [k \in 1 .. n |-> at[k]]
      <4> HIDE DEF pick
      <4> QED OBVIOUS
    <3>2b. DOMAIN at = 1 .. n
      OBVIOUS
    <3>2. at = [k \in 1 .. n |-> at[k]] /\ DOMAIN at = 1 .. n
      <4> HIDE DEF at
      <4> QED BY <3>2a, <3>2b
    <3> HIDE DEF at
    <3> QED BY <3>1, <3>2, SeqDef, LenProperties
  <2> HIDE DEF at
  <2>5. \A j, k \in 1 .. n : at[j] = at[k] => j = k
    <3> SUFFICES ASSUME NEW j \in 1 .. n, NEW k \in 1 .. n, at[j] = at[k] PROVE j = k
      OBVIOUS
    <3> QED BY <2>3
  <2>6. IsSlot(c, at, n)
    BY <2>3, <2>4, <2>5 DEF IsSlot, free
  <2> QED BY <1>1, <1>2, <1>5, <2>6
<1> QED BY <1>4, <1>5

(***************************************************************************)
(* Placing and taking back                                                 *)
(***************************************************************************)

LEMMA AtSlot ==
  ASSUME NEW c, NEW n, NEW slot, IsSlot(c, slot, n)
  PROVE  /\ Range(slot) = {slot[k] : k \in 1 .. n} /\ Range(slot) \subseteq FreeCells(c)
         /\ \A k \in 1 .. n : At(slot, slot[k]) = k
         /\ \A i \in Range(slot) : At(slot, i) \in 1 .. n /\ slot[At(slot, i)] = i
<1>1. Range(slot) = {slot[k] : k \in 1 .. n}
  BY DEF IsSlot, Range
<1>2. Range(slot) \subseteq FreeCells(c)
  BY <1>1 DEF IsSlot
<1>3. \A i \in Range(slot) : At(slot, i) \in 1 .. n /\ slot[At(slot, i)] = i
  <2> SUFFICES ASSUME NEW i \in Range(slot)
               PROVE  At(slot, i) \in 1 .. n /\ slot[At(slot, i)] = i
    OBVIOUS
  <2>1. \E k \in 1 .. n : slot[k] = i
    BY <1>1
  <2>2. DOMAIN slot = 1 .. n
    BY DEF IsSlot
  <2> QED BY <2>1, <2>2 DEF At
<1>4. \A k \in 1 .. n : At(slot, slot[k]) = k
  BY <1>1, <1>3 DEF IsSlot
<1> QED BY <1>1, <1>2, <1>3, <1>4

\* What placing a part does: its tokens are in the cells of the slot.
IsPlaced(c, slot, part, d) ==
  /\ Sound(d) /\ d.data = c.data
  /\ \A i \in Index \ Range(slot) : d.pos[i] = c.pos[i] /\ d.seq[i] = c.seq[i]
  /\ \A k \in DOMAIN part : d.pos[slot[k]] = part[k].pos /\ d.seq[slot[k]] = part[k].seqs

LEMMA PlaceSound ==
  ASSUME NEW c, Sound(c), NEW part \in Seq(Tokens), part # <<>>,
         NEW slot, IsSlot(c, slot, Len(part))
  PROVE  IsPlaced(c, slot, part, Place(c, slot, part))
<1> DEFINE n == Len(part)
           new == [i \in Range(slot) |-> part[At(slot, i)]]
           e == SetCells(c, new)
           d == [e EXCEPT !.head = Last(slot) + 1]
<1>1. n \in Nat \ {0} /\ DOMAIN part = 1 .. n /\ \A k \in 1 .. n : part[k] \in Tokens
  BY EmptySeq, LenProperties, ElementOfSeq
<1>2. /\ Range(slot) = {slot[k] : k \in 1 .. n} /\ Range(slot) \subseteq FreeCells(c)
      /\ \A k \in 1 .. n : At(slot, slot[k]) = k
      /\ \A i \in Range(slot) : At(slot, i) \in 1 .. n /\ slot[At(slot, i)] = i
  <2>1. DOMAIN slot = 1 .. n /\ n \in Nat /\ IsSlot(c, slot, n)
    BY <1>1 DEF IsSlot
  <2> HIDE DEF n
  <2>2. Range(slot) = {slot[k] : k \in 1 .. n} /\ Range(slot) \subseteq FreeCells(c)
    BY <2>1, AtSlot
  <2>3. ASSUME NEW k \in 1 .. n PROVE At(slot, slot[k]) = k
    BY <2>1, AtSlot
  <2>4. ASSUME NEW i \in Range(slot) PROVE At(slot, i) \in 1 .. n /\ slot[At(slot, i)] = i
    BY <2>1, AtSlot
  <2> QED BY <2>2, <2>3, <2>4
<1>3. Changes(new)
  <2>1. DOMAIN new = Range(slot) /\ Range(slot) \subseteq Index
    BY <1>2 DEF FreeCells
  <2>2. ASSUME NEW i \in Range(slot)
        PROVE  /\ new[i].pos \in 0 .. NPos - 1 \cup {Empty} /\ new[i].seqs \in SUBSET Heads
               /\ new[i].pos = Empty <=> new[i].seqs = {}
    <3>1. new[i] \in Tokens
      BY <1>1, <1>2
    <3>2. \A t \in Tokens : t.pos \in 0 .. NPos - 1 /\ t.pos # Empty /\ t.seqs \in SUBSET Heads /\ t.seqs # {}
      BY SizesAssumption DEF Tokens, Empty
    <3> HIDE DEF new
    <3> QED BY <3>1, <3>2
  <2> HIDE DEF new
  <2> QED BY <2>1, <2>2 DEF Changes
<1>4. /\ Sound(e)
      /\ e.pos = [i \in Index |-> IF i \in Range(slot) THEN new[i].pos ELSE c.pos[i]]
      /\ e.seq = [i \in Index |-> IF i \in Range(slot) THEN new[i].seqs ELSE c.seq[i]]
      /\ e.data = c.data /\ e.head = c.head
  <2> DEFINE D == DOMAIN new
  <2>1. D = Range(slot)
    OBVIOUS
  <2> HIDE DEF new
  <2> QED BY <1>3, <2>1, SetCellsSound
<1>5. Last(slot) + 1 \in 0 .. NCells
  <2>1. Last(slot) \in Index
    BY <1>1 DEF Last, IsSlot, FreeCells
  <2> QED BY <2>1, SizesAssumption DEF Index
<1>6. /\ Sound(d) /\ d.pos = e.pos /\ d.seq = e.seq /\ d.data = e.data
  <2> HIDE DEF e
  <2> QED BY <1>4, <1>5, HeadMoved
<1>7. Place(c, slot, part) = d
  BY DEF Place
<1>8. \A k \in 1 .. n : slot[k] \in Range(slot) /\ new[slot[k]] = part[k] /\ slot[k] \in Index
  BY <1>2 DEF FreeCells
<1> HIDE DEF d, e, new
<1>9. \A i \in Index \ Range(slot) : d.pos[i] = c.pos[i] /\ d.seq[i] = c.seq[i]
  BY <1>4, <1>6
<1>10. \A k \in 1 .. n : d.pos[slot[k]] = part[k].pos /\ d.seq[slot[k]] = part[k].seqs
  BY <1>4, <1>6, <1>8
<1> QED BY <1>1, <1>4, <1>6, <1>7, <1>9, <1>10 DEF IsPlaced

\* What is saved of the cells of a slot brings the cache back.
Saved(c, slot) ==
  [slot |-> slot, head |-> c.head,
   cells |-> [i \in Range(slot) |-> [pos |-> c.pos[i], seqs |-> c.seq[i]]]]

LEMMA TakeBackRestores ==
  ASSUME NEW c, Sound(c), NEW part, NEW n, NEW slot, IsSlot(c, slot, n),
         NEW d, IsPlaced(c, slot, part, d)
  PROVE  TakeBack(Saved(c, slot), d) = c
<1> DEFINE state == Saved(c, slot)
           new == state.cells
           e == SetCells(d, new)
           b == [e EXCEPT !.head = state.head]
<1>1. /\ DOMAIN new = Range(slot) /\ state.head = c.head
      /\ \A i \in Range(slot) : new[i].pos = c.pos[i] /\ new[i].seqs = c.seq[i]
  BY DEF Saved
<1>2. Range(slot) \subseteq Index
  BY AtSlot DEF FreeCells
<1>3. c.pos \in [Index -> 0 .. NPos - 1 \cup {Empty}] /\ c.seq \in [Index -> SUBSET Heads]
      /\ c.head \in 0 .. NCells
  BY CellsFields DEF Sound
<1>4. Changes(new)
  <2> HIDE DEF new
  <2> QED BY <1>1, <1>2, <1>3 DEF Changes, Sound
<1>5. Sound(d) /\ d.data = c.data
  BY DEF IsPlaced
<1> HIDE DEF state
<1>6. /\ Sound(e) /\ e.data = d.data
      /\ e.pos = [i \in Index |-> IF i \in DOMAIN new THEN new[i].pos ELSE d.pos[i]]
      /\ e.seq = [i \in Index |-> IF i \in DOMAIN new THEN new[i].seqs ELSE d.seq[i]]
  BY <1>4, <1>5, SetCellsSound
<1>7. e.pos = c.pos
  <2>1. \A i \in Index : e.pos[i] = c.pos[i]
    BY <1>1, <1>6 DEF IsPlaced
  <2>2. e.pos = [i \in Index |-> e.pos[i]] /\ c.pos = [i \in Index |-> c.pos[i]]
    BY <1>3, <1>6
  <2> HIDE DEF e
  <2> QED BY <2>1, <2>2
<1>8. e.seq = c.seq
  <2>1. \A i \in Index : e.seq[i] = c.seq[i]
    BY <1>1, <1>6 DEF IsPlaced
  <2>2. e.seq = [i \in Index |-> e.seq[i]] /\ c.seq = [i \in Index |-> c.seq[i]]
    BY <1>3, <1>6
  <2> HIDE DEF e
  <2> QED BY <2>1, <2>2
<1>9. Sound(b) /\ b.pos = e.pos /\ b.seq = e.seq /\ b.data = e.data /\ b.head = c.head
  <2> HIDE DEF e
  <2> QED BY <1>1, <1>3, <1>6, HeadMoved
<1>10. TakeBack(state, d) = b
  BY DEF TakeBack
<1> HIDE DEF b, e
<1>11. b = c
  BY <1>5, <1>6, <1>7, <1>8, <1>9, Determined
<1> QED BY <1>10, <1>11 DEF state

(***************************************************************************)
(* Preparing a batch                                                       *)
(***************************************************************************)

Parts == Seq(Seq(Tokens) \ {<<>>})

Saves ==
  [slot : Seq(Index), head : 0 .. NCells,
   cells : UNION {[I -> [pos : 0 .. NPos - 1 \cup {Empty}, seqs : SUBSET Heads]] :
                    I \in SUBSET Index}]

LEMMA SavedIn ==
  ASSUME NEW c, Sound(c), NEW n, NEW slot, IsSlot(c, slot, n)
  PROVE  Saved(c, slot) \in Saves
<1> DEFINE I == Range(slot)
           new == [i \in I |-> [pos |-> c.pos[i], seqs |-> c.seq[i]]]
<1>1. I \in SUBSET Index
  BY AtSlot DEF FreeCells
<1>2. /\ c.pos \in [Index -> 0 .. NPos - 1 \cup {Empty}] /\ c.seq \in [Index -> SUBSET Heads]
      /\ c.head \in 0 .. NCells
  BY CellsFields DEF Sound
<1>3. new \in [I -> [pos : 0 .. NPos - 1 \cup {Empty}, seqs : SUBSET Heads]]
  <2> HIDE DEF I
  <2> QED BY <1>1, <1>2
<1>4. slot \in Seq(Index)
  BY DEF IsSlot
<1>5. Saved(c, slot) = [slot |-> slot, head |-> c.head, cells |-> new]
  BY DEF Saved
<1>6. new \in UNION {[J -> [pos : 0 .. NPos - 1 \cup {Empty}, seqs : SUBSET Heads]] :
                       J \in SUBSET Index}
  <2> HIDE DEF I, new
  <2> QED BY <1>1, <1>3
<1> HIDE DEF new
<1> QED BY <1>2, <1>4, <1>5, <1>6 DEF Saves

\* The caches a batch runs through, part k placed in slots[k].
Follow(c, parts, slots, q, m) ==
  /\ q[0] = c /\ \A k \in 0 .. m : Sound(q[k])
  /\ \A k \in 1 .. m :
       /\ IsSlot(q[k - 1], slots[k], Len(parts[k]))
       /\ q[k] = Place(q[k - 1], slots[k], parts[k])

\* A round of prepare is one of the caches, with what was saved before each.
Round(c, parts, all, q, k, m) ==
  /\ all = [fits |-> all.fits, cells |-> all.cells, states |-> all.states]
  /\ all.fits \in BOOLEAN
  /\ all.states \in Seq(Saves) /\ Len(all.states) = m /\ all.cells = q[m]
  /\ \A j \in 1 .. m : all.states[j] = Saved(q[j - 1], all.states[j].slot)
  /\ Follow(c, parts, [j \in 1 .. m |-> all.states[j].slot], q, m)
  /\ all.fits => m = k
  /\ ~all.fits => m < k /\ Cardinality(q[m].used) + Len(parts[m + 1]) > NCells

LEMMA NextRound ==
  ASSUME NEW c, NEW parts \in Parts, NEW all, NEW q, NEW k \in 0 .. Len(parts) - 1,
         NEW m \in Nat, Round(c, parts, all, q, k, m)
  PROVE  \E p : \E l \in Nat : Round(c, parts, PlaceNext(all, parts[k + 1]), p, k + 1, l)
<1> DEFINE part == parts[k + 1]
           slot == FindSlot(all.cells, Len(part))
           save == Saved(all.cells, slot)
           next == PlaceNext(all, part)
           d == Place(all.cells, slot, part)
<1>0. /\ Len(parts) \in Nat /\ k \in Nat /\ k + 1 \in 1 .. Len(parts)
      /\ part \in Seq(Tokens) /\ part # <<>> /\ Len(part) \in Nat \ {0}
  <2>1. Len(parts) \in Nat /\ k \in Nat /\ k + 1 \in 1 .. Len(parts)
    BY LenProperties DEF Parts
  <2>2. part \in Seq(Tokens) \ {<<>>}
    BY <2>1, ElementOfSeq DEF Parts
  <2> HIDE DEF part
  <2> QED BY <2>1, <2>2, LenProperties, EmptySeq
<1>1. next = IF ~all.fits THEN all
             ELSE IF slot = <<>> THEN [all EXCEPT !.fits = FALSE]
             ELSE [fits |-> TRUE, cells |-> d, states |-> Append(all.states, save)]
  BY DEF PlaceNext, Saved
<1> HIDE DEF next
<1>2. CASE ~all.fits
  <2>1. next = all
    BY <1>1, <1>2
  <2>2. Round(c, parts, all, q, k + 1, m)
    <3>1. m < k + 1
      BY <1>0, <1>2 DEF Round
    <3> QED BY <1>2, <3>1 DEF Round
  <2> QED BY <2>1, <2>2 DEF next
<1>3. CASE all.fits
  <2>0. m = k /\ all.cells = q[k] /\ Sound(all.cells)
    BY <1>3 DEF Round, Follow
  <2>1. IF Cardinality(all.cells.used) + Len(part) <= NCells THEN IsSlot(all.cells, slot, Len(part))
        ELSE slot = <<>>
    <3> DEFINE n == Len(part)
    <3> HIDE DEF part, n
    <3>1. n \in Nat \ {0}
      BY <1>0 DEF n
    <3> QED BY <2>0, <3>1, SlotFound DEF n
  <2> HIDE DEF slot
  <2>2. CASE ~ (Cardinality(all.cells.used) + Len(part) <= NCells)
    <3>1. next = [all EXCEPT !.fits = FALSE]
      BY <1>1, <1>3, <2>1, <2>2
    <3>2. next = [fits |-> FALSE, cells |-> all.cells, states |-> all.states]
      BY <3>1 DEF Round
    <3>3. Cardinality(q[m].used) + Len(parts[m + 1]) > NCells
      <4>1. Cardinality(all.cells.used) \in Nat /\ NCells \in Nat
        BY <2>0, FreeAndUsed, SizesAssumption
      <4> QED BY <1>0, <2>0, <2>2, <4>1
    <3>4. Round(c, parts, next, q, k + 1, m)
      <4>1. next.fits = FALSE /\ next.cells = all.cells /\ next.states = all.states
        BY <3>2
      <4>2. m < k + 1
        BY <2>0
      <4> QED BY <3>2, <3>3, <4>1, <4>2 DEF Round
    <3> QED BY <3>4 DEF next
  <2>3. CASE Cardinality(all.cells.used) + Len(part) <= NCells
    <3>1. IsSlot(all.cells, slot, Len(part))
      BY <2>1, <2>3
    <3>2. slot # <<>>
      BY <1>0, <3>1, EmptySeq DEF IsSlot
    <3>3. next = [fits |-> TRUE, cells |-> d, states |-> Append(all.states, save)]
      BY <1>1, <1>3, <3>2
    <3>4. save \in Saves /\ save.slot = slot
      BY <2>0, <3>1, SavedIn DEF Saved
    <3>5. Sound(d)
      BY <1>0, <2>0, <3>1, PlaceSound DEF IsPlaced
    <3> DEFINE p == [j \in 0 .. k + 1 |-> IF j = k + 1 THEN d ELSE q[j]]
               st == Append(all.states, save)
    <3>6. /\ st \in Seq(Saves) /\ Len(st) = k + 1 /\ st[k + 1] = save
          /\ \A j \in 1 .. k : st[j] = all.states[j]
      <4>1. all.states \in Seq(Saves) /\ Len(all.states) = k
        BY <2>0 DEF Round
      <4> HIDE DEF save
      <4> QED BY <1>0, <3>4, <4>1, AppendProperties
    <3>7. p[0] = c /\ p[k + 1] = d /\ p[k] = all.cells /\ \A j \in 0 .. k : p[j] = q[j]
      <4>1. 0 \in 0 .. k + 1 /\ k + 1 # 0 /\ k \in 0 .. k + 1 /\ k # k + 1 /\ k + 1 \in 0 .. k + 1
        BY <1>0
      <4>2. q[0] = c
        BY DEF Round, Follow
      <4>3. \A j \in 0 .. k : j \in 0 .. k + 1 /\ j # k + 1
        BY <1>0
      <4> QED BY <2>0, <4>1, <4>2, <4>3
    <3>8. \A j \in 0 .. k + 1 : Sound(p[j])
      <4>1. \A j \in 0 .. k : Sound(q[j])
        BY <2>0 DEF Round, Follow
      <4>2. \A j \in 0 .. k + 1 : j = k + 1 \/ j \in 0 .. k
        BY <1>0
      <4> HIDE DEF p, d
      <4> QED BY <3>5, <3>7, <4>1, <4>2
    <3>9. ASSUME NEW j \in 1 .. k + 1
          PROVE  /\ st[j] = Saved(p[j - 1], st[j].slot)
                 /\ IsSlot(p[j - 1], st[j].slot, Len(parts[j]))
                 /\ p[j] = Place(p[j - 1], st[j].slot, parts[j])
      <4>1. CASE j = k + 1
        <5>1. p[j - 1] = all.cells /\ st[j] = save /\ p[j] = d /\ st[j].slot = slot
          <6>1. j - 1 = k
            BY <1>0, <4>1
          <6> HIDE DEF p, st, save, d
          <6> QED BY <3>4, <3>6, <3>7, <4>1, <6>1
        <5> HIDE DEF p, st
        <5> QED BY <3>1, <4>1, <5>1
      <4>2. CASE j # k + 1
        <5>1. j \in 1 .. k /\ j - 1 \in 0 .. k /\ j \in 0 .. k
          BY <1>0, <4>2
        <5>2. p[j - 1] = q[j - 1] /\ p[j] = q[j] /\ st[j] = all.states[j]
          <6> HIDE DEF p, st
          <6> QED BY <3>6, <3>7, <5>1
        <5>3. j \in 1 .. m
          BY <2>0, <5>1
        <5>4. all.states[j] = Saved(q[j - 1], all.states[j].slot)
          BY <5>3 DEF Round
        <5>5. /\ IsSlot(q[j - 1], all.states[j].slot, Len(parts[j]))
              /\ q[j] = Place(q[j - 1], all.states[j].slot, parts[j])
          BY <5>3 DEF Round, Follow
        <5> HIDE DEF p, st
        <5> QED BY <5>2, <5>4, <5>5
      <4> QED BY <4>1, <4>2
    <3>10. Round(c, parts, next, p, k + 1, k + 1)
      <4>1. next.fits = TRUE /\ next.cells = p[k + 1] /\ next.states = st
        BY <3>3, <3>7
      <4>2. next = [fits |-> next.fits, cells |-> next.cells, states |-> next.states]
        BY <3>3
      <4> HIDE DEF p, st, d, save
      <4>3. Follow(c, parts, [j \in 1 .. k + 1 |-> st[j].slot], p, k + 1)
        BY <3>7, <3>8, <3>9 DEF Follow
      <4> QED BY <3>6, <3>9, <4>1, <4>2, <4>3 DEF Round
    <3>11. k + 1 \in Nat
      BY <1>0
    <3> HIDE DEF p
    <3> QED BY <3>10, <3>11 DEF next
  <2> QED BY <2>2, <2>3
<1> QED BY <1>2, <1>3 DEF Round

\* After the last round.
LEMMA PlacedRounds ==
  ASSUME NEW c, Sound(c), NEW parts \in Parts
  PROVE  \E q : \E m \in Nat : Round(c, parts, Placed(c, parts), q, Len(parts), m)
<1> DEFINE n == Len(parts)
           base == [fits |-> TRUE, cells |-> c, states |-> <<>>]
<1>1. n \in Nat /\ DOMAIN parts = 1 .. n
  BY LenProperties DEF Parts
<1>2. PICK r : /\ r[0] = base /\ r[n] = Placed(c, parts)
               /\ \A k \in 1 .. n : r[k] = PlaceNext(r[k - 1], parts[k])
  <2>1. \E r : /\ r[0] = base /\ r[Len(parts)] = Placed(c, parts)
               /\ \A k \in 1 .. Len(parts) : r[k] = PlaceNext(r[k - 1], parts[k])
    BY <1>1, PlacedRun
  <2> QED BY <2>1
<1> DEFINE Good(k) == \E q : \E m \in Nat : Round(c, parts, r[k], q, k, m)
           S == {k \in 0 .. n : Good(k)}
<1>3. Good(0)
  <2> DEFINE q == [k \in {0} |-> c]
  <2>1. q[0] = c /\ \A k \in 0 .. 0 : k = 0
    OBVIOUS
  <2> HIDE DEF q
  <2>2. Follow(c, parts, [j \in 1 .. 0 |-> base.states[j].slot], q, 0)
    BY <2>1 DEF Follow
  <2>3. /\ base.fits = TRUE /\ base.cells = c /\ base.states = <<>>
        /\ base = [fits |-> base.fits, cells |-> base.cells, states |-> base.states]
    OBVIOUS
  <2>4. <<>> \in Seq(Saves) /\ Len(<<>>) = 0
    BY EmptySeq
  <2> HIDE DEF base
  <2>5. Round(c, parts, base, q, 0, 0)
    <3>1. \A j \in 1 .. 0 : FALSE
      OBVIOUS
    <3>2. base.states \in Seq(Saves) /\ Len(base.states) = 0 /\ base.cells = q[0]
      BY <2>1, <2>3, <2>4
    <3> QED BY <2>2, <2>3, <3>1, <3>2 DEF Round
  <2>6. r[0] = base /\ 0 \in Nat
    BY <1>2
  <2> QED BY <2>5, <2>6
<1>4. ASSUME NEW k \in 0 .. n - 1, Good(k) PROVE Good(k + 1)
  <2>1. PICK q : \E m \in Nat : Round(c, parts, r[k], q, k, m)
    BY <1>4
  <2>2. PICK m \in Nat : Round(c, parts, r[k], q, k, m)
    BY <2>1
  <2>3. \E p : \E l \in Nat : Round(c, parts, PlaceNext(r[k], parts[k + 1]), p, k + 1, l)
    BY <2>2, NextRound
  <2>4. r[k + 1] = PlaceNext(r[k], parts[k + 1])
    <3>1. k + 1 \in 1 .. n /\ (k + 1) - 1 = k
      BY <1>1
    <3> HIDE DEF n
    <3> QED BY <1>2, <3>1
  <2> QED BY <2>3, <2>4
<1>5. Good(n)
  <2> HIDE DEF Good
  <2>1. 0 \in S /\ \A k \in 0 .. n - 1 : k \in S => k + 1 \in S
    BY <1>1, <1>3, <1>4
  <2>2. n \in 0 .. n
    BY <1>1
  <2>3. \A k \in 0 .. n : k \in S
    <3> HIDE DEF S, n
    <3> QED BY <1>1, <2>1, UpTo
  <2> QED BY <2>2, <2>3
<1>6. r[n] = Placed(c, parts)
  BY <1>2
<1> QED BY <1>5, <1>6

\* Everything that was placed is taken back.
LEMMA TakenBackAll ==
  ASSUME NEW c, NEW parts \in Parts, NEW all, NEW q, NEW k, NEW m \in Nat,
         Round(c, parts, all, q, k, m), m <= Len(parts)
  PROVE  TakeAllBack(all.states, all.cells) = c
<1> DEFINE states == all.states
<1>1. states \in Seq(Saves) /\ Len(states) = m /\ all.cells = q[m]
      /\ DOMAIN states = 1 .. m
  BY LenProperties DEF Round
<1>2. PICK w : /\ w[m] = all.cells /\ w[0] = TakeAllBack(states, all.cells)
               /\ \A j \in 1 .. m : w[j - 1] = TakeBack(states[j], w[j])
  <2>1. \E w : /\ w[Len(states)] = all.cells /\ w[0] = TakeAllBack(states, all.cells)
               /\ \A j \in 1 .. Len(states) : w[j - 1] = TakeBack(states[j], w[j])
    <3>1. Len(states) \in Nat /\ DOMAIN states = 1 .. Len(states)
      BY <1>1
    <3> HIDE DEF states
    <3> QED BY <3>1, TakenBackRun
  <2> QED BY <1>1, <2>1
<1>3. ASSUME NEW j \in 1 .. m, w[j] = q[j] PROVE w[j - 1] = q[j - 1]
  <2>1. /\ states[j] = Saved(q[j - 1], states[j].slot)
        /\ IsSlot(q[j - 1], states[j].slot, Len(parts[j]))
        /\ q[j] = Place(q[j - 1], states[j].slot, parts[j])
    BY DEF Round, Follow
  <2>2. Sound(q[j - 1])
    <3>1. j - 1 \in 0 .. m
      OBVIOUS
    <3> QED BY <3>1 DEF Round, Follow
  <2>3. parts[j] \in Seq(Tokens) /\ parts[j] # <<>>
    <3>1. Len(parts) \in Nat /\ j \in 1 .. Len(parts)
      BY LenProperties DEF Parts
    <3> QED BY <3>1, ElementOfSeq DEF Parts
  <2>4. IsPlaced(q[j - 1], states[j].slot, parts[j], q[j])
    <3> HIDE DEF states
    <3> QED BY <2>1, <2>2, <2>3, PlaceSound
  <2>5. TakeBack(states[j], q[j]) = q[j - 1]
    <3>1. TakeBack(Saved(q[j - 1], states[j].slot), q[j]) = q[j - 1]
      <4> HIDE DEF states
      <4> QED BY <2>1, <2>2, <2>4, TakeBackRestores
    <3> HIDE DEF states
    <3> QED BY <2>1, <3>1
  <2> HIDE DEF states
  <2> QED BY <1>2, <1>3, <2>5
<1> HIDE DEF states
<1> DEFINE S == {j \in 0 .. m : w[m - j] = q[m - j]}
<1>4. \A j \in 0 .. m : j \in S
  <2>1. 0 \in S
    <3>1. m - 0 = m /\ 0 \in 0 .. m
      OBVIOUS
    <3> QED BY <1>1, <1>2, <3>1
  <2>2. \A j \in 0 .. m - 1 : j \in S => j + 1 \in S
    <3> SUFFICES ASSUME NEW j \in 0 .. m - 1, w[m - j] = q[m - j]
                 PROVE  w[m - (j + 1)] = q[m - (j + 1)]
      OBVIOUS
    <3> DEFINE i == m - j
    <3>1. i \in 1 .. m /\ m - (j + 1) = i - 1
      OBVIOUS
    <3>2. w[i - 1] = q[i - 1]
      <4>1. w[i] = q[i]
        OBVIOUS
      <4> HIDE DEF i
      <4> QED BY <1>3, <3>1, <4>1
    <3> HIDE DEF i
    <3> QED BY <3>1, <3>2
  <2> HIDE DEF S
  <2> QED BY <2>1, <2>2, UpTo
<1>5. w[0] = q[0]
  <2>1. m \in S /\ m - m = 0
    BY <1>4
  <2> QED BY <2>1
<1>6. q[0] = c
  BY DEF Round, Follow
<1> QED BY <1>2, <1>5, <1>6 DEF states

\* prepare leaves the cache as it was, and finds slots for all parts or for
\* those before the one that does not fit.
LEMMA Prepared ==
  ASSUME NEW c, Sound(c), NEW parts \in Parts
  PROVE  /\ Prepare(c, parts).cells = c /\ Prepare(c, parts).fits \in BOOLEAN
         /\ \E q : \E m \in 0 .. Len(parts) :
              /\ Follow(c, parts, Prepare(c, parts).slots, q, m)
              /\ Prepare(c, parts).fits => m = Len(parts)
              /\ ~Prepare(c, parts).fits =>
                   m < Len(parts) /\ Cardinality(q[m].used) + Len(parts[m + 1]) > NCells
<1> DEFINE all == Placed(c, parts)
           n == Len(parts)
<1>1. PICK q : \E m \in Nat : Round(c, parts, all, q, n, m)
  BY PlacedRounds
<1>2. PICK m \in Nat : Round(c, parts, all, q, n, m)
  BY <1>1
<1>3. n \in Nat
  BY LenProperties DEF Parts
<1> HIDE DEF all, n
<1>4. m \in 0 .. n
  BY <1>2, <1>3 DEF Round
<1>5. TakeAllBack(all.states, all.cells) = c
  <2>1. m <= Len(parts)
    BY <1>3, <1>4 DEF n
  <2> QED BY <1>2, <2>1, TakenBackAll
<1>6. Prepare(c, parts) = [cells |-> TakeAllBack(all.states, all.cells),
                           fits |-> all.fits,
                           slots |-> [k \in DOMAIN all.states |-> all.states[k].slot]]
  BY DEF Prepare, all
<1>7. DOMAIN all.states = 1 .. m
  BY <1>2, LenProperties DEF Round
<1>8. /\ Prepare(c, parts).cells = c /\ Prepare(c, parts).fits = all.fits
      /\ Prepare(c, parts).slots = [k \in 1 .. m |-> all.states[k].slot]
  BY <1>5, <1>6, <1>7
<1>9. /\ Follow(c, parts, Prepare(c, parts).slots, q, m) /\ all.fits \in BOOLEAN
      /\ all.fits => m = n
      /\ ~all.fits => m < n /\ Cardinality(q[m].used) + Len(parts[m + 1]) > NCells
  BY <1>2, <1>8 DEF Round
<1> QED BY <1>4, <1>8, <1>9 DEF n

(***************************************************************************)
(* A batch in parts                                                        *)
(***************************************************************************)

LEMMA Product ==
  ASSUME NEW a \in Int, NEW b \in Int, NEW u \in Nat
  PROVE  a * u \in Int /\ (a <= b => a * u <= b * u) /\ (a + 1) * u = (a * u) + u
<1>1. a * u \in Int /\ (a + 1) * u = (a * u) + u
  OBVIOUS
<1>2. ASSUME a <= b PROVE a * u <= b * u
  <2> DEFINE d == b - a
  <2>1. d \in Nat /\ d * u \in Nat
    BY <1>2
  <2>2. b * u = (a * u) + (d * u)
    OBVIOUS
  <2>3. b * u \in Int
    OBVIOUS
  <2> HIDE DEF d
  <2> QED BY <1>1, <2>1, <2>2, <2>3
<1> QED BY <1>1, <1>2

\* As many parts as it takes.
LEMMA RoundedUp ==
  ASSUME NEW l \in Nat \ {0}, NEW u \in Nat \ {0}
  PROVE  LET n == (l + u - 1) \div u
         IN  n \in Nat \ {0} /\ (n - 1) * u < l /\ l <= n * u
<1> DEFINE a == l + u - 1
           n == a \div u
           r == a % u
<1>1. a \in Nat
  OBVIOUS
<1>2. n \in Nat /\ r \in 0 .. u - 1 /\ a = (n * u) + r
  <2> HIDE DEF a
  <2> QED BY <1>1
<1>3. n * u \in Int /\ (n - 1) * u = (n * u) - u
  <2> HIDE DEF n
  <2>1. n \in Int
    BY <1>2
  <2> QED BY <2>1
<1> DEFINE x == n * u
           y == (n - 1) * u
<1>4. x \in Int /\ y = x - u /\ a = x + r /\ r \in 0 .. u - 1 /\ a = l + u - 1
  BY <1>2, <1>3
<1> HIDE DEF x, y, a, r
<1>5. y < l /\ l <= x
  BY <1>4
<1>6. n # 0
  <2>1. n = 0 => x = 0
    BY <1>2 DEF x
  <2> HIDE DEF n
  <2> QED BY <1>4, <1>5, <2>1
<1> QED BY <1>2, <1>5, <1>6 DEF x, y, a

\* The tokens of the first k parts.
Taken(batch, k) == IF k * NUbatch <= Len(batch) THEN k * NUbatch ELSE Len(batch)

LEMMA SplitParts ==
  ASSUME NEW batch \in Seq(Tokens), Len(batch) \in Nat \ {0}
  PROVE  /\ Split(batch) \in Parts /\ Len(Split(batch)) \in Nat \ {0}
         /\ Taken(batch, 0) = 0 /\ Taken(batch, Len(Split(batch))) = Len(batch)
         /\ \A k \in 0 .. Len(Split(batch)) : Taken(batch, k) \in 0 .. Len(batch)
         /\ \A k \in 1 .. Len(Split(batch)) :
              /\ Taken(batch, k - 1) < Taken(batch, k)
              /\ Split(batch)[k] = SubSeq(batch, Taken(batch, k - 1) + 1, Taken(batch, k))
<1> DEFINE l == Len(batch)
           u == NUbatch
           n == (l + u - 1) \div u
           part(k) == SubSeq(batch, Taken(batch, k - 1) + 1, Taken(batch, k))
           f == [k \in 1 .. n |-> part(k)]
<1>1. l \in Nat \ {0} /\ u \in Nat \ {0}
  BY SizesAssumption
<1>2. n \in Nat \ {0} /\ (n - 1) * u < l /\ l <= n * u
  <2> HIDE DEF l, u
  <2> QED BY <1>1, RoundedUp
<1> HIDE DEF n
<1>3. ASSUME NEW k \in 0 .. n PROVE k * u \in Nat /\ Taken(batch, k) \in 0 .. l
  <2>1. k * u \in Nat
    BY <1>1
  <2> QED BY <1>1, <2>1 DEF Taken
<1>4. ASSUME NEW k \in 1 .. n
      PROVE  /\ (k - 1) * u < l /\ Taken(batch, k - 1) = (k - 1) * u
             /\ Taken(batch, k - 1) < Taken(batch, k)
             /\ Min({k * u, l}) = Taken(batch, k)
  <2> DEFINE x == (k - 1) * u
             z == (n - 1) * u
             y == k * u
  <2>1. x <= z
    <3>1. k - 1 \in Int /\ n - 1 \in Int /\ k - 1 <= n - 1
      BY <1>2
    <3> HIDE DEF u
    <3> QED BY <1>1, <3>1, Product
  <2>2. x \in Nat /\ z \in Int /\ y = x + u
    <3>1. k - 1 \in Nat /\ n - 1 \in Int /\ (k - 1) + 1 = k
      BY <1>2
    <3> HIDE DEF u
    <3>2. x \in Int /\ ((k - 1) + 1) * u = x + u /\ z \in Int
      BY <1>1, <3>1, Product
    <3>3. x \in Nat
      BY <1>1, <3>1
    <3> QED BY <3>1, <3>2, <3>3
  <2>3. x < l
    <3>1. z < l
      BY <1>2
    <3> HIDE DEF x, z
    <3> QED BY <1>1, <2>1, <2>2, <3>1
  <2>4. Taken(batch, k - 1) = x /\ Taken(batch, k) = IF y <= l THEN y ELSE l
    <3>1. x <= l
      <4> HIDE DEF x
      <4> QED BY <1>1, <2>2, <2>3
    <3> QED BY <3>1 DEF Taken
  <2>5. Min({y, l}) = IF y <= l THEN y ELSE l
    <3> HIDE DEF x, y, l
    <3>1. y \in Nat /\ l \in Nat
      BY <1>1, <2>2
    <3>2. Min({y, l}) \in {y, l} /\ \A i \in {y, l} : Min({y, l}) <= i
      BY <3>1, MinOf
    <3> QED BY <3>1, <3>2
  <2>6. Taken(batch, k - 1) < Taken(batch, k)
    <3> HIDE DEF x, y
    <3> QED BY <1>1, <2>2, <2>3, <2>4
  <2> QED BY <2>3, <2>4, <2>5, <2>6
<1>5. Split(batch) = f
  <2>1. Split(batch) = [k \in 1 .. n |-> SubSeq(batch, (k - 1) * u + 1, Min({k * u, l}))]
    BY DEF Split, n
  <2>2. \A k \in 1 .. n : SubSeq(batch, (k - 1) * u + 1, Min({k * u, l})) = part(k)
    <3> SUFFICES ASSUME NEW k \in 1 .. n
                 PROVE  SubSeq(batch, (k - 1) * u + 1, Min({k * u, l})) = part(k)
      OBVIOUS
    <3>1. (k - 1) * u = Taken(batch, k - 1) /\ Min({k * u, l}) = Taken(batch, k)
      BY <1>4
    <3> QED BY <3>1
  <2> HIDE DEF part, l, u
  <2> QED BY <2>1, <2>2
<1>6. ASSUME NEW k \in 1 .. n PROVE part(k) \in Seq(Tokens) \ {<<>>}
  <2>1. k - 1 \in 0 .. n /\ k \in 0 .. n
    BY <1>2
  <2>2. /\ Taken(batch, k - 1) \in 0 .. l /\ Taken(batch, k) \in 0 .. l
        /\ Taken(batch, k - 1) < Taken(batch, k)
    BY <1>3, <1>4, <2>1
  <2> DEFINE a == Taken(batch, k - 1)
             b == Taken(batch, k)
  <2> HIDE DEF a, b
  <2>3. a + 1 \in 1 .. l + 1 /\ b \in a + 1 - 1 .. l /\ a + 1 \in 1 .. l /\ b \in a .. l
    BY <1>1, <2>2 DEF a, b
  <2>4. /\ SubSeq(batch, a + 1, b) \in Seq(Tokens) /\ Len(SubSeq(batch, a + 1, b)) = b - a
    <3>1. \A i \in a + 1 .. b : batch[i] \in Tokens
      BY <1>1, <2>3, ElementOfSeq
    <3>2. SubSeq(batch, a + 1, b) \in Seq(Tokens)
      BY <2>3, SubSeqProperties
    <3>3. Len(SubSeq(batch, a + 1, b)) = IF a + 1 <= b THEN b - (a + 1) + 1 ELSE 0
      BY <2>3, SubSeqProperties
    <3>4. a \in Int /\ b \in Int /\ a < b
      BY <2>2, <2>3 DEF a, b
    <3> QED BY <3>2, <3>3, <3>4
  <2>5. b - a # 0
    BY <2>2, <2>3 DEF a, b
  <2>6. SubSeq(batch, a + 1, b) # <<>>
    BY <2>4, <2>5, EmptySeq
  <2> QED BY <2>4, <2>6 DEF a, b
<1>7. f \in Parts /\ Len(f) = n
  <2> HIDE DEF part
  <2>1. f \in [1 .. n -> Seq(Tokens) \ {<<>>}] /\ DOMAIN f = 1 .. n
    BY <1>6
  <2> HIDE DEF f
  <2>2. f \in Seq(Seq(Tokens) \ {<<>>})
    BY <1>2, <2>1, SeqDef
  <2>3. Len(f) = n
    BY <1>2, <2>1, <2>2, LenProperties
  <2> QED BY <2>2, <2>3 DEF Parts
<1>8. Taken(batch, 0) = 0 /\ Taken(batch, n) = l
  <2>1. 0 * u = 0
    BY <1>1
  <2>2. Taken(batch, 0) = 0
    BY <1>1, <2>1 DEF Taken
  <2>3. Taken(batch, n) = l
    <3> DEFINE x == n * u
    <3>1. x \in Nat /\ l <= x /\ Taken(batch, n) = IF x <= l THEN x ELSE l
      BY <1>1, <1>2 DEF Taken
    <3> HIDE DEF x
    <3> QED BY <1>1, <3>1
  <2> QED BY <2>2, <2>3
<1>9. \A k \in 1 .. n : f[k] = part(k)
  OBVIOUS
<1> HIDE DEF f, l
<1> QED BY <1>2, <1>3, <1>4, <1>5, <1>7, <1>8, <1>9 DEF l

(***************************************************************************)
(* Computing a batch, part after part                                      *)
(***************************************************************************)

\* Part k is placed and computed.
Onto(c, parts, slots, k) ==
  Computed(Place(c, slots[k], parts[k]), slots[k], parts[k], TRUE)

LEMMA RanRun ==
  ASSUME NEW parts, NEW slots
  PROVE  /\ Ran(parts, slots, 0) = cells
         /\ \A k \in Nat : Ran(parts, slots, k + 1) = Onto(Ran(parts, slots, k), parts, slots, k + 1)
<1> DEFINE Is(f, n) == f = [k \in 0 .. n |-> IF k = 0 THEN cells ELSE Onto(f[k - 1], parts, slots, k)]
           run(n) == CHOOSE f : Is(f, n)
           S == {n \in Nat : \E f : Is(f, n)}
<1>1. \A n \in Nat : Ran(parts, slots, n) = run(n)[n]
  BY DEF Ran, Onto
<1>2. \A n \in Nat : n \in S
  <2>1. 0 \in S
    <3>1. Is([k \in 0 .. 0 |-> cells], 0)
      OBVIOUS
    <3> QED BY <3>1
  <2>2. ASSUME NEW n \in Nat, n \in S PROVE n + 1 \in S
    <3>1. PICK f : Is(f, n)
      BY <2>2
    <3> DEFINE g == [k \in 0 .. n + 1 |-> IF k = n + 1 THEN Onto(f[n], parts, slots, n + 1) ELSE f[k]]
    <3>2. ASSUME NEW k \in 0 .. n + 1
          PROVE  g[k] = IF k = 0 THEN cells ELSE Onto(g[k - 1], parts, slots, k)
      <4>1. CASE k = n + 1
        <5>1. k - 1 = n /\ k # 0 /\ n # n + 1 /\ n \in 0 .. n + 1
          BY <4>1
        <5>2. g[k] = Onto(f[n], parts, slots, n + 1) /\ g[k - 1] = f[n]
          BY <4>1, <5>1
        <5> HIDE DEF g
        <5> QED BY <4>1, <5>1, <5>2
      <4>2. CASE k # n + 1
        <5>1. k \in 0 .. n /\ g[k] = f[k]
          BY <4>2
        <5>2. CASE k = 0
          BY <3>1, <5>1, <5>2
        <5>3. CASE k # 0
          <6>1. k - 1 \in 0 .. n /\ g[k - 1] = f[k - 1]
            BY <5>1, <5>3
          <6>2. f[k] = Onto(f[k - 1], parts, slots, k)
            BY <3>1, <5>1, <5>3
          <6> HIDE DEF g
          <6> QED BY <5>1, <5>3, <6>1, <6>2
        <5> QED BY <5>2, <5>3
      <4> QED BY <4>1, <4>2
    <3>3. g = [k \in 0 .. n + 1 |-> g[k]]
      OBVIOUS
    <3>4. Is(g, n + 1)
      <4> HIDE DEF g
      <4> QED BY <3>2, <3>3
    <3>5. \E h : Is(h, n + 1)
      <4> HIDE DEF g, Is
      <4> QED BY <3>4
    <3> HIDE DEF Is
    <3> QED BY <3>5
  <2> HIDE DEF S
  <2> QED BY <2>1, <2>2, Reached
<1>3. \A n \in Nat : Is(run(n), n)
  <2> SUFFICES ASSUME NEW n \in Nat PROVE Is(run(n), n)
    OBVIOUS
  <2>1. \E f : Is(f, n)
    <3> HIDE DEF Is
    <3> QED BY <1>2
  <2> HIDE DEF Is
  <2> QED BY <2>1
<1> HIDE DEF run, S
<1>4. ASSUME NEW n \in Nat PROVE run(n + 1)[n] = run(n)[n]
  <2> DEFINE f == run(n)
             g == run(n + 1)
             T == {k \in 0 .. n : f[k] = g[k]}
  <2>1. Is(f, n) /\ Is(g, n + 1)
    <3>1. n + 1 \in Nat
      OBVIOUS
    <3> HIDE DEF Is
    <3> QED BY <1>3, <3>1
  <2> HIDE DEF f, g
  <2>2. 0 \in T
    BY <2>1
  <2>3. ASSUME NEW k \in 0 .. n - 1, k \in T PROVE k + 1 \in T
    <3>1. k + 1 \in 0 .. n /\ k + 1 \in 0 .. n + 1 /\ k + 1 # 0 /\ (k + 1) - 1 = k
      OBVIOUS
    <3>2. f[k + 1] = Onto(f[k], parts, slots, k + 1)
      BY <2>1, <3>1
    <3>3. g[k + 1] = Onto(g[k], parts, slots, k + 1)
      BY <2>1, <3>1
    <3>4. f[k] = g[k]
      BY <2>3
    <3> QED BY <3>1, <3>2, <3>3, <3>4
  <2>4. \A k \in 0 .. n : k \in T
    <3> HIDE DEF T
    <3> QED BY <2>2, <2>3, UpTo
  <2> QED BY <2>4 DEF f, g
<1>5. Ran(parts, slots, 0) = cells
  <2>1. Is(run(0), 0)
    <3> HIDE DEF Is
    <3> QED BY <1>3
  <2>2. run(0)[0] = cells
    BY <2>1
  <2> QED BY <1>1, <2>2
<1>6. ASSUME NEW k \in Nat
      PROVE  Ran(parts, slots, k + 1) = Onto(Ran(parts, slots, k), parts, slots, k + 1)
  <2>1. k + 1 \in Nat /\ k + 1 \in 0 .. k + 1 /\ k + 1 # 0 /\ (k + 1) - 1 = k
    OBVIOUS
  <2>2. Is(run(k + 1), k + 1)
    <3> HIDE DEF Is
    <3> QED BY <1>3, <2>1
  <2>3. run(k + 1)[k + 1] = Onto(run(k + 1)[k], parts, slots, k + 1)
    BY <2>1, <2>2
  <2> QED BY <1>1, <1>4, <2>1, <2>3
<1> QED BY <1>5, <1>6

\* A placed part d whose graph ran, giving the cells of the slot their tensors.
IsComputed(c, slot, part, d, ran) ==
  /\ Sound(ran) /\ ran.pos = d.pos /\ ran.seq = d.seq
  /\ \A i \in Index \ Range(slot) : ran.data[i] = c.data[i]

Computes(slot, part, ran) == \A k \in DOMAIN part : ran.data[slot[k]] = part[k].tok
Spoils(slot, part, ran) == \A k \in DOMAIN part : ran.data[slot[k]] = Spoilt

LEMMA ComputedSound ==
  ASSUME NEW c, Sound(c), NEW part \in Seq(Tokens), part # <<>>,
         NEW slot, IsSlot(c, slot, Len(part))
  PROVE  LET d == Place(c, slot, part)
         IN  /\ IsComputed(c, slot, part, d, Computed(d, slot, part, TRUE))
             /\ Computes(slot, part, Computed(d, slot, part, TRUE))
             /\ IsComputed(c, slot, part, d, Computed(d, slot, part, FALSE))
             /\ Spoils(slot, part, Computed(d, slot, part, FALSE))
<1> DEFINE e == Place(c, slot, part)
           good == [i \in Index |-> IF i \notin Range(slot) THEN e.data[i] ELSE part[At(slot, i)].tok]
           bad == [i \in Index |-> IF i \notin Range(slot) THEN e.data[i] ELSE Spoilt]
           ran == [e EXCEPT !.data = good]
           lost == [e EXCEPT !.data = bad]
           n == Len(part)
<1>1. n \in Nat \ {0} /\ DOMAIN part = 1 .. n /\ \A k \in 1 .. n : part[k] \in Tokens
  BY EmptySeq, LenProperties, ElementOfSeq
<1>2. Sound(e) /\ e.data = c.data
  BY PlaceSound DEF IsPlaced
<1> HIDE DEF e
<1>3. /\ \A i \in Range(slot) : At(slot, i) \in 1 .. n
      /\ \A k \in 1 .. n : At(slot, slot[k]) = k /\ slot[k] \in Range(slot) /\ slot[k] \in Index
  <2>1. IsSlot(c, slot, n)
    OBVIOUS
  <2> HIDE DEF n
  <2>2. \A i \in Range(slot) : At(slot, i) \in 1 .. n
    BY <2>1, AtSlot
  <2>3. \A k \in 1 .. n : At(slot, slot[k]) = k
    BY <2>1, AtSlot
  <2>4. Range(slot) = {slot[k] : k \in 1 .. n} /\ Range(slot) \subseteq Index
    BY <2>1, AtSlot DEF FreeCells
  <2> QED BY <2>2, <2>3, <2>4
<1>4. good \in [Index -> Token \cup {Spoilt}] /\ bad \in [Index -> Token \cup {Spoilt}]
  <2>1. e.data \in [Index -> Token \cup {Spoilt}]
    BY <1>2, CellsFields DEF Sound
  <2>2. \A k \in 1 .. n : part[k].tok \in Token
    BY <1>1 DEF Tokens
  <2>3. ASSUME NEW i \in Index
        PROVE  (IF i \notin Range(slot) THEN e.data[i]
                ELSE part[At(slot, i)].tok) \in Token \cup {Spoilt}
    <3> HIDE DEF n
    <3> QED BY <1>3, <2>1, <2>2
  <2> QED BY <2>1, <2>3
<1>5. Computed(e, slot, part, TRUE) = ran /\ Computed(e, slot, part, FALSE) = lost
  BY DEF Computed
<1>6. /\ \A i \in Index \ Range(slot) : good[i] = c.data[i] /\ bad[i] = c.data[i]
      /\ \A k \in 1 .. n : good[slot[k]] = part[k].tok /\ bad[slot[k]] = Spoilt
  <2> HIDE DEF n
  <2> QED BY <1>2, <1>3
<1>7. /\ Sound(ran) /\ ran.pos = e.pos /\ ran.seq = e.seq /\ ran.data = good
      /\ Sound(lost) /\ lost.pos = e.pos /\ lost.seq = e.seq /\ lost.data = bad
  <2> HIDE DEF good, bad
  <2> QED BY <1>2, <1>4, DataChanged
<1> HIDE DEF good, bad, ran, lost
<1>8. IsComputed(c, slot, part, e, ran) /\ IsComputed(c, slot, part, e, lost)
  BY <1>6, <1>7 DEF IsComputed
<1>9. Computes(slot, part, ran) /\ Spoils(slot, part, lost)
  BY <1>1, <1>6, <1>7 DEF Computes, Spoils
<1> QED BY <1>5, <1>8, <1>9 DEF e

\* What was computed is in the cells that prepare found.
LEMMA RanSound ==
  ASSUME Sound(cells), NEW parts \in Parts, NEW slots, NEW q, NEW m \in 0 .. Len(parts),
         Follow(cells, parts, slots, q, m)
  PROVE  \A k \in 0 .. m : /\ Sound(Ran(parts, slots, k))
                           /\ Ran(parts, slots, k).pos = q[k].pos
                           /\ Ran(parts, slots, k).seq = q[k].seq
<1> DEFINE r(k) == Ran(parts, slots, k)
           Good(k) == Sound(r(k)) /\ r(k).pos = q[k].pos /\ r(k).seq = q[k].seq
           S == {k \in 0 .. m : Good(k)}
<1>1. m \in Nat /\ Len(parts) \in Nat
  BY LenProperties DEF Parts
<1>2. r(0) = cells /\ \A k \in Nat : r(k + 1) = Onto(r(k), parts, slots, k + 1)
  BY RanRun
<1> HIDE DEF r
<1>3. 0 \in S
  <2>1. q[0] = cells /\ 0 \in 0 .. m
    BY <1>1 DEF Follow
  <2>2. Good(0)
    BY <1>2, <2>1
  <2> HIDE DEF Good
  <2> QED BY <2>1, <2>2
<1>4. ASSUME NEW k \in 0 .. m - 1, k \in S PROVE k + 1 \in S
  <2>1. k \in Nat /\ k + 1 \in 1 .. m /\ k \in 0 .. m /\ (k + 1) - 1 = k /\ k + 1 \in 1 .. Len(parts)
    BY <1>1
  <2> DEFINE c == r(k)
             slot == slots[k + 1]
             part == parts[k + 1]
  <2>2. Sound(c) /\ c.pos = q[k].pos /\ c.seq = q[k].seq
    BY <1>4
  <2>3. part \in Seq(Tokens) /\ part # <<>>
    BY <2>1, ElementOfSeq DEF Parts
  <2>4. Sound(q[k]) /\ IsSlot(q[k], slot, Len(part)) /\ q[k + 1] = Place(q[k], slot, part)
    BY <2>1 DEF Follow
  <2>5. r(k + 1) = Computed(Place(c, slot, part), slot, part, TRUE)
    BY <1>2, <2>1 DEF Onto
  <2> HIDE DEF c, slot, part
  <2>6. IsSlot(c, slot, Len(part))
    BY <2>2, <2>4 DEF IsSlot, FreeCells
  <2>7. Sound(r(k + 1)) /\ r(k + 1).pos = Place(c, slot, part).pos
        /\ r(k + 1).seq = Place(c, slot, part).seq
    <3> DEFINE e == Place(c, slot, part)
               d == Computed(e, slot, part, TRUE)
    <3>1. IsComputed(c, slot, part, e, d)
      BY <2>2, <2>3, <2>6, ComputedSound
    <3> HIDE DEF d, e
    <3> QED BY <2>5, <3>1 DEF d, e, IsComputed
  <2>8. Place(c, slot, part).pos = q[k + 1].pos /\ Place(c, slot, part).seq = q[k + 1].seq
    <3> DEFINE d == Place(c, slot, part)
               p == q[k + 1]
    <3>1. IsPlaced(c, slot, part, d) /\ IsPlaced(q[k], slot, part, p)
      BY <2>2, <2>3, <2>4, <2>6, PlaceSound
    <3>2. IsSlot(c, slot, Len(part)) /\ DOMAIN part = 1 .. Len(part)
      BY <2>3, <2>6, LenProperties
    <3>3. \A i \in Range(slot) : \E j \in DOMAIN part : slot[j] = i
      BY <3>2, AtSlot
    <3> HIDE DEF d, p
    <3>4. \A i \in Index : d.pos[i] = p.pos[i] /\ d.seq[i] = p.seq[i]
      <4> SUFFICES ASSUME NEW i \in Index PROVE d.pos[i] = p.pos[i] /\ d.seq[i] = p.seq[i]
        OBVIOUS
      <4>1. CASE i \in Range(slot)
        BY <3>1, <3>3, <4>1 DEF IsPlaced
      <4>2. CASE i \notin Range(slot)
        BY <2>2, <3>1, <4>2 DEF IsPlaced
      <4> QED BY <4>1, <4>2
    <3>5. /\ d.pos \in [Index -> 0 .. NPos - 1 \cup {Empty}] /\ d.seq \in [Index -> SUBSET Heads]
          /\ p.pos \in [Index -> 0 .. NPos - 1 \cup {Empty}] /\ p.seq \in [Index -> SUBSET Heads]
      BY <3>1, CellsFields DEF IsPlaced, Sound
    <3>6. d.pos = p.pos
      <4>1. \A i \in Index : d.pos[i] = p.pos[i]
        BY <3>4
      <4> QED BY <3>5, <4>1
    <3>7. d.seq = p.seq
      <4>1. \A i \in Index : d.seq[i] = p.seq[i]
        BY <3>4
      <4> QED BY <3>5, <4>1
    <3> QED BY <3>6, <3>7 DEF d, p
  <2> QED BY <2>1, <2>7, <2>8
<1>5. \A k \in 0 .. m : k \in S
  <2> HIDE DEF S
  <2> QED BY <1>1, <1>3, <1>4, UpTo
<1> QED BY <1>5 DEF r

LEMMA LeastSeq ==
  ASSUME NEW t \in Tokens
  PROVE  FirstSeq(t) \in t.seqs /\ FirstSeq(t) \in Heads /\ \A s \in t.seqs : FirstSeq(t) <= s
<1>1. t.seqs \in SUBSET Heads /\ t.seqs # {}
  BY DEF Tokens
<1>2. Heads \subseteq Nat
  BY SizesAssumption DEF Heads
<1> DEFINE S == t.seqs
<1>3. S \in SUBSET Nat /\ S # {}
  BY <1>1, <1>2
<1> HIDE DEF S
<1>4. Min(S) \in S /\ \A s \in S : Min(S) <= s
  BY <1>3, MinOf
<1> QED BY <1>1, <1>4 DEF S, FirstSeq

\* From where a failed graph gives the positions of each sequence back.
From(part) ==
  LET given(s) == {part[k].pos : k \in {j \in DOMAIN part : FirstSeq(part[j]) = s}}
  IN  [s \in Heads |-> IF given(s) = {} THEN NPos ELSE Min(given(s))]

LEMMA GivenBackFrom ==
  ASSUME NEW part \in Seq(Tokens)
  PROVE  /\ \A c : GivenBack(c, part) = SeqRm(c, From(part))
         /\ From(part) \in [Heads -> 0 .. NPos]
         /\ \A k \in DOMAIN part : From(part)[FirstSeq(part[k])] <= part[k].pos
         /\ \A s \in Heads : \/ From(part)[s] = NPos
                             \/ \E k \in DOMAIN part : /\ FirstSeq(part[k]) = s
                                                      /\ part[k].pos = From(part)[s]
<1> DEFINE given(s) == {part[k].pos : k \in {j \in DOMAIN part : FirstSeq(part[j]) = s}}
           from == [s \in Heads |-> IF given(s) = {} THEN NPos ELSE Min(given(s))]
<1>0. \A k \in DOMAIN part : part[k] \in Tokens
  BY LenProperties, ElementOfSeq
<1>1. ASSUME NEW s \in Heads
      PROVE  /\ from[s] \in 0 .. NPos
             /\ \A p \in given(s) : from[s] <= p
             /\ from[s] = NPos \/ from[s] \in given(s)
  <2> DEFINE S == given(s)
             low == Min(S)
  <2>1. S \subseteq 0 .. NPos - 1
    BY <1>0 DEF Tokens
  <2>2. from[s] = IF S = {} THEN NPos ELSE low
    OBVIOUS
  <2>3. NPos \in 0 .. NPos /\ 0 .. NPos - 1 \subseteq 0 .. NPos /\ 0 .. NPos - 1 \subseteq Nat
    BY SizesAssumption
  <2> HIDE DEF S, from
  <2>4. S # {} => low \in S /\ \A p \in S : low <= p
    <3>1. S \in SUBSET Nat
      BY <2>1, <2>3
    <3> QED BY <3>1, MinOf
  <2> HIDE DEF low
  <2>5. from[s] \in 0 .. NPos
    BY <2>1, <2>2, <2>3, <2>4
  <2>6. (\A p \in S : from[s] <= p) /\ (from[s] = NPos \/ from[s] \in S)
    BY <2>2, <2>4
  <2> QED BY <2>5, <2>6 DEF S
<1>2. from \in [Heads -> 0 .. NPos]
  <2>1. from = [s \in Heads |-> from[s]]
    OBVIOUS
  <2> HIDE DEF from
  <2> QED BY <1>1, <2>1
<1>3. From(part) = from
  BY DEF From
<1>4. \A c : GivenBack(c, part) = SeqRm(c, from)
  BY DEF GivenBack
<1> HIDE DEF from
<1>5. ASSUME NEW k \in DOMAIN part PROVE from[FirstSeq(part[k])] <= part[k].pos
  <2>1. FirstSeq(part[k]) \in Heads /\ part[k].pos \in given(FirstSeq(part[k]))
    BY <1>0, LeastSeq
  <2> HIDE DEF given
  <2> QED BY <1>1, <2>1
<1>6. ASSUME NEW s \in Heads
      PROVE  \/ from[s] = NPos
             \/ \E k \in DOMAIN part : FirstSeq(part[k]) = s /\ part[k].pos = from[s]
  BY <1>1
<1> QED BY <1>2, <1>3, <1>4, <1>5, <1>6

\* What a failed graph gives back.
LEMMA GivenBackSound ==
  ASSUME NEW c, Sound(c), NEW part \in Seq(Tokens)
  PROVE  Sound(GivenBack(c, part))
<1> DEFINE from == From(part)
<1>1. from \in [Heads -> 0 .. NPos] /\ GivenBack(c, part) = SeqRm(c, from)
  BY GivenBackFrom
<1> HIDE DEF from
<1>2. LET d == SeqRm(c, from) IN Sound(d)
  BY <1>1, SeqRmSound
<1> QED BY <1>1, <1>2

LEMMA FailedAtSound ==
  ASSUME Sound(cells), NEW parts \in Parts, NEW slots, NEW q, NEW m \in 0 .. Len(parts),
         Follow(cells, parts, slots, q, m), NEW k \in 1 .. m
  PROVE  Sound(FailedAt(parts, slots, k))
<1> DEFINE c == Ran(parts, slots, k - 1)
           slot == slots[k]
           part == parts[k]
           d == Computed(Place(c, slot, part), slot, part, FALSE)
<1>1. k - 1 \in 0 .. m /\ k \in 1 .. Len(parts)
  BY LenProperties DEF Parts
<1>2. Sound(c) /\ c.pos = q[k - 1].pos
  BY <1>1, RanSound
<1>3. part \in Seq(Tokens) /\ part # <<>>
  BY <1>1, ElementOfSeq DEF Parts
<1>4. IsSlot(q[k - 1], slot, Len(part))
  BY DEF Follow
<1>5. FailedAt(parts, slots, k) = GivenBack(d, part)
  BY DEF FailedAt
<1> HIDE DEF c, slot, part
<1>6. IsSlot(c, slot, Len(part))
  BY <1>2, <1>4 DEF IsSlot, FreeCells
<1>7. IsComputed(c, slot, part, Place(c, slot, part), d)
  BY <1>2, <1>3, <1>6, ComputedSound
<1>8. Sound(d)
  BY <1>7 DEF IsComputed
<1> HIDE DEF d
<1> QED BY <1>3, <1>5, <1>8, GivenBackSound

(***************************************************************************)
(* The rows of the hidden layer                                            *)
(***************************************************************************)

Rows == [1 .. NBatch -> (Heads \X (0 .. NPos - 1)) \cup {<<>>}]

\* The first n parts behind each other are the beginning of the batch.
LEMMA PartsInOrder ==
  ASSUME NEW batch \in Seq(Tokens), Len(batch) \in Nat \ {0}, NEW n \in 0 .. Len(Split(batch))
  PROVE  FlattenSeq(SubSeq(Split(batch), 1, n)) = SubSeq(batch, 1, Taken(batch, n))
<1> DEFINE first == SubSeq(Split(batch), 1, n)
           upto(k) == SubSeq(batch, 1, Taken(batch, k))
           Is(f) == f = [i \in 1 .. n |-> IF i = 1 THEN first[i] ELSE f[i - 1] \o first[i]]
<1>1. /\ Split(batch) \in Parts /\ Len(Split(batch)) \in Nat
      /\ Taken(batch, 0) = 0 /\ \A k \in 0 .. Len(Split(batch)) : Taken(batch, k) \in 0 .. Len(batch)
      /\ \A k \in 1 .. Len(Split(batch)) :
           /\ Taken(batch, k - 1) < Taken(batch, k)
           /\ Split(batch)[k] = SubSeq(batch, Taken(batch, k - 1) + 1, Taken(batch, k))
  BY SplitParts
<1>2. n \in Nat
  BY <1>1
<1>3. Len(first) = n /\ \A k \in 1 .. n : first[k] = Split(batch)[k]
  <2> DEFINE s == Split(batch)
  <2>1. \A k \in 1 .. n : s[k] \in Seq(Tokens) \ {<<>>}
    BY <1>1, ElementOfSeq DEF Parts
  <2> HIDE DEF s
  <2>2. Len(SubSeq(s, 1, n)) = (IF 1 <= n THEN n - 1 + 1 ELSE 0)
        /\ \A i \in 1 .. n - 1 + 1 : SubSeq(s, 1, n)[i] = s[1 + i - 1]
    BY <1>2, <2>1, SubSeqProperties
  <2>3. Len(SubSeq(s, 1, n)) = n
    BY <1>2, <2>2
  <2>4. \A k \in 1 .. n : SubSeq(s, 1, n)[k] = s[k]
    <3> SUFFICES ASSUME NEW k \in 1 .. n PROVE SubSeq(s, 1, n)[k] = s[k]
      OBVIOUS
    <3>1. k \in 1 .. n - 1 + 1 /\ 1 + k - 1 = k
      BY <1>2
    <3> QED BY <2>2, <3>1
  <2> QED BY <2>3, <2>4 DEF s
<1>4. ASSUME NEW k \in 1 .. n PROVE upto(k) = upto(k - 1) \o first[k]
  <2> DEFINE a == Taken(batch, k - 1)
             b == Taken(batch, k)
  <2>1. a \in 0 .. Len(batch) /\ b \in 0 .. Len(batch) /\ a < b /\ first[k] = SubSeq(batch, a + 1, b)
    <3>1. k \in 1 .. Len(Split(batch)) /\ k - 1 \in 0 .. Len(Split(batch))
          /\ k \in 0 .. Len(Split(batch))
      BY <1>1
    <3> QED BY <1>1, <1>3, <3>1
  <2> HIDE DEF a, b
  <2>2. a \in 1 - 1 .. Len(batch) /\ b \in a .. Len(batch) /\ 1 \in 1 .. Len(batch) + 1
    BY <2>1
  <2>3. SubSeq(batch, 1, a) \o SubSeq(batch, a + 1, b) = SubSeq(batch, 1, b)
    BY <2>2, ConcatAdjacentSubSeq
  <2> QED BY <2>1, <2>3 DEF a, b
<1>5. upto(0) = <<>>
  BY <1>1, SubSeqEmpty
<1>6. CASE n = 0
  <2>1. FlattenSeq(first) = first /\ first = <<>>
    <3>1. first = <<>>
      BY <1>6, SubSeqEmpty
    <3> HIDE DEF first
    <3> QED BY <1>3, <1>6, <3>1 DEF FlattenSeq
  <2> QED BY <1>5, <1>6, <2>1
<1>7. CASE n # 0
  <2> DEFINE flat == CHOOSE f : Is(f)
  <2>1. FlattenSeq(first) = flat[n]
    <3> HIDE DEF first
    <3> QED BY <1>2, <1>3, <1>7 DEF FlattenSeq
  <2> HIDE DEF first
  <2>2. Is(flat)
    <3> DEFINE g == [i \in 1 .. n |-> upto(i)]
    <3>1. ASSUME NEW i \in 1 .. n
          PROVE  g[i] = IF i = 1 THEN first[i] ELSE g[i - 1] \o first[i]
      <4>1. g[i] = upto(i - 1) \o first[i]
        BY <1>4
      <4>2. CASE i = 1
        <5>1. <<>> \o first[1] = first[1]
          <6>1. first[1] \in Seq(Tokens)
            <7>1. 1 \in 1 .. n /\ 1 \in 1 .. Len(Split(batch))
              BY <1>1, <1>2, <4>2
            <7>2. Split(batch)[1] \in Seq(Tokens) \ {<<>>}
              BY <1>1, <7>1, ElementOfSeq DEF Parts
            <7> QED BY <1>3, <7>1, <7>2
          <6> QED BY <6>1, ConcatEmptySeq
        <5>2. upto(i - 1) = <<>>
          BY <1>5, <4>2
        <5> HIDE DEF g, upto
        <5> QED BY <4>1, <4>2, <5>1, <5>2
      <4>3. CASE i # 1
        <5>1. i - 1 \in 1 .. n
          BY <1>2, <4>3
        <5>2. g[i - 1] = upto(i - 1)
          BY <5>1
        <5> HIDE DEF g, upto
        <5> QED BY <4>1, <4>3, <5>2
      <4> QED BY <4>2, <4>3
    <3>2. g = [i \in 1 .. n |-> g[i]]
      OBVIOUS
    <3>3. Is(g)
      <4> HIDE DEF g
      <4> QED BY <3>1, <3>2
    <3>4. \E f : Is(f)
      <4> HIDE DEF g, Is
      <4> QED BY <3>3
    <3> HIDE DEF Is
    <3> QED BY <3>4
  <2> HIDE DEF flat
  <2> DEFINE Good(k) == k # 0 => flat[k] = upto(k)
             T == {k \in 0 .. n : Good(k)}
  <2>3. 0 \in T
    BY <1>2
  <2>4. ASSUME NEW k \in 0 .. n - 1, k \in T PROVE k + 1 \in T
    <3>1. k + 1 \in 1 .. n /\ (k + 1) - 1 = k
      BY <1>2
    <3>2. upto(k + 1) = upto(k) \o first[k + 1]
      <4> HIDE DEF upto
      <4> QED BY <1>4, <3>1
    <3>3. flat[k + 1] = IF k + 1 = 1 THEN first[k + 1] ELSE flat[k] \o first[k + 1]
      BY <2>2, <3>1
    <3>4. flat[k + 1] = upto(k + 1)
      <4>1. CASE k = 0
        <5>1. first[1] \in Seq(Tokens)
          <6>1. 1 \in 1 .. n /\ 1 \in 1 .. Len(Split(batch))
            BY <1>1, <1>2, <1>7
          <6>2. Split(batch)[1] \in Seq(Tokens) \ {<<>>}
            BY <1>1, <6>1, ElementOfSeq DEF Parts
          <6> QED BY <1>3, <6>1, <6>2
        <5>2. <<>> \o first[1] = first[1]
          BY <5>1, ConcatEmptySeq
        <5>3. k + 1 = 1
          BY <4>1
        <5> HIDE DEF upto
        <5>4. upto(1) = upto(0) \o first[1] /\ flat[1] = first[1]
          BY <3>2, <3>3, <4>1, <5>3
        <5> QED BY <1>5, <5>2, <5>3, <5>4
      <4>2. CASE k # 0
        <5>1. flat[k] = upto(k)
          BY <2>4, <4>2
        <5>2. k + 1 # 1
          BY <3>1, <4>2
        <5> HIDE DEF upto
        <5> QED BY <3>2, <3>3, <5>1, <5>2
      <4> QED BY <4>1, <4>2
    <3>5. Good(k + 1) /\ k + 1 \in 0 .. n
      <4> HIDE DEF upto
      <4> QED BY <1>2, <3>1, <3>4
    <3> HIDE DEF Good
    <3> QED BY <3>5
  <2>5. \A k \in 0 .. n : k \in T
    <3> HIDE DEF T
    <3> QED BY <1>2, <2>3, <2>4, UpTo
  <2>6. flat[n] = upto(n)
    <3>1. n \in 0 .. n
      BY <1>2
    <3> QED BY <1>7, <2>5, <3>1
  <2> HIDE DEF upto
  <2> QED BY <2>1, <2>6 DEF upto, first
<1> QED BY <1>6, <1>7

\* What is copied out is the beginning of the batch, row by row.
LEMMA CopiedRows ==
  ASSUME hidden \in Rows, NEW batch \in Seq(Tokens), Len(batch) \in 1 .. NBatch,
         NEW n \in 0 .. Len(Split(batch))
  PROVE  /\ Copied(Split(batch), n) \in Rows
         /\ \A j \in 1 .. Taken(batch, n) : Copied(Split(batch), n)[j] = Row(batch[j])
<1> DEFINE t == Taken(batch, n)
           rows == SubSeq(batch, 1, t)
<1>1. NBatch \in Nat /\ Len(batch) \in Nat \ {0}
  BY BatchesAssumption
<1>2. t \in 0 .. Len(batch)
  BY <1>1, SplitParts
<1>3. FlattenSeq(SubSeq(Split(batch), 1, n)) = rows
  BY <1>1, PartsInOrder
<1> HIDE DEF t
<1>4. Len(rows) = t /\ \A j \in 1 .. t : rows[j] = batch[j] /\ batch[j] \in Tokens
  <2>1. \A j \in 1 .. t : batch[j] \in Tokens
    BY <1>1, <1>2, ElementOfSeq
  <2>2. Len(rows) = (IF 1 <= t THEN t - 1 + 1 ELSE 0)
        /\ \A i \in 1 .. t - 1 + 1 : rows[i] = batch[1 + i - 1]
    BY <1>2, <2>1, SubSeqProperties
  <2> HIDE DEF rows
  <2>3. Len(rows) = t
    BY <1>1, <1>2, <2>2
  <2>4. \A j \in 1 .. t : rows[j] = batch[j]
    <3> SUFFICES ASSUME NEW j \in 1 .. t PROVE rows[j] = batch[j]
      OBVIOUS
    <3>1. j \in 1 .. t - 1 + 1 /\ 1 + j - 1 = j
      BY <1>1, <1>2
    <3> QED BY <2>2, <3>1
  <2> QED BY <2>1, <2>3, <2>4
<1> HIDE DEF rows
<1>5. Copied(Split(batch), n) = [j \in 1 .. NBatch |-> IF j <= Len(rows) THEN Row(rows[j]) ELSE hidden[j]]
  BY <1>3 DEF Copied
<1>6. \A j \in 1 .. t : Row(rows[j]) = Row(batch[j]) /\ Row(batch[j]) \in Heads \X (0 .. NPos - 1)
  <2> SUFFICES ASSUME NEW j \in 1 .. t
               PROVE  Row(rows[j]) = Row(batch[j]) /\ Row(batch[j]) \in Heads \X (0 .. NPos - 1)
    OBVIOUS
  <2>1. batch[j] \in Tokens /\ rows[j] = batch[j]
    BY <1>4
  <2>2. FirstSeq(batch[j]) \in Heads /\ batch[j].pos \in 0 .. NPos - 1
    BY <2>1, LeastSeq DEF Tokens
  <2> QED BY <2>1, <2>2 DEF Row
<1>7. ASSUME NEW j \in 1 .. NBatch
      PROVE  (IF j <= Len(rows) THEN Row(rows[j]) ELSE hidden[j]) \in (Heads \X (0 .. NPos - 1)) \cup {<<>>}
  <2>1. CASE j <= Len(rows)
    <3>1. j \in 1 .. t
      BY <1>1, <1>2, <1>4, <2>1
    <3>2. Row(rows[j]) \in Heads \X (0 .. NPos - 1)
      BY <1>6, <3>1
    <3> QED BY <2>1, <3>2
  <2>2. CASE ~ (j <= Len(rows))
    BY <2>2 DEF Rows
  <2> QED BY <2>1, <2>2
<1>8. Copied(Split(batch), n) \in Rows
  BY <1>5, <1>7 DEF Rows
<1>9. \A j \in 1 .. t : Copied(Split(batch), n)[j] = Row(batch[j])
  <2> SUFFICES ASSUME NEW j \in 1 .. t PROVE Copied(Split(batch), n)[j] = Row(batch[j])
    OBVIOUS
  <2>1. j \in 1 .. NBatch /\ j <= Len(rows)
    BY <1>1, <1>2, <1>4
  <2> QED BY <1>5, <1>6, <2>1
<1> QED BY <1>8, <1>9 DEF t

(***************************************************************************)
(* The context                                                             *)
(***************************************************************************)

\* The cells are sound, and the rows are those of the last batch decoded.
IInv ==
  /\ Sound(cells) /\ hidden \in Rows
  /\ nHidden \in 0 .. NBatch /\ done \in Batches \cup {<<>>}
  /\ rc \in {"none", "ok", "inconsistent", "full", "failed"}
  /\ HiddenOfBatch

LEMMA NewCellsSound == Sound(NewCells)
<1>1. NHeads \in Nat \ {0} /\ NCells \in Nat \ {0} /\ NPos \in Nat
  BY SizesAssumption
<1>2. NewCells \in Cells
  BY <1>1 DEF NewCells, Cells, Index, Empty
<1>3. \A s \in Heads, p \in 0 .. NPos - 1 : Where(NewCells, Index, s, p) = {}
  BY DEF NewCells, Where
<1>4. \A s \in Heads, p \in 0 .. NPos - 1 :
        NewCells.count[s][p] = Cardinality(Where(NewCells, Index, s, p))
  BY <1>3, FS_EmptySet DEF NewCells
<1>5. /\ NewCells.used = {i \in Index : NewCells.pos[i] # Empty}
      /\ \A i \in Index : NewCells.pos[i] = Empty <=> NewCells.seq[i] = {}
  BY DEF NewCells
<1> QED BY <1>2, <1>4, <1>5 DEF Sound

LEMMA InitIInv ==
  ASSUME Init
  PROVE  IInv
<1>1. NHeads \in Nat \ {0} /\ NCells \in Nat \ {0} /\ NPos \in Nat /\ NBatch \in Nat \ {0}
  BY SizesAssumption, BatchesAssumption
<1>2. cells = NewCells /\ hidden = [j \in 1 .. NBatch |-> <<>>] /\ nHidden = 0
      /\ done = <<>> /\ rc = "none"
  BY DEF Init
<1>3. Sound(NewCells)
  BY NewCellsSound
<1>4. hidden \in Rows
  BY <1>2 DEF Rows
<1>5. HiddenOfBatch
  BY <1>2 DEF HiddenOfBatch
<1> QED BY <1>1, <1>2, <1>3, <1>4, <1>5 DEF IInv

\* A call that decodes nothing.
LEMMA ReturnsIInv ==
  ASSUME IInv, NEW code \in {"none", "inconsistent", "full", "failed"},
         NEW c, Sound(c), NEW rows \in Rows, Returns(code, c, rows)
  PROVE  IInv'
<1>1. rc' = code /\ cells' = c /\ hidden' = rows /\ done' = <<>> /\ nHidden' = nHidden
  BY DEF Returns
<1>2. rc' # "ok" /\ rc' \in {"none", "ok", "inconsistent", "full", "failed"}
  BY <1>1
<1>3. Sound(cells')
  BY <1>1
<1>4. nHidden \in 0 .. NBatch
  BY DEF IInv
<1>5. HiddenOfBatch'
  BY <1>2 DEF HiddenOfBatch
<1>6. Sound(cells)'
  BY <1>3 DEF Sound, Where, Cells
<1>7. Rows' = Rows
  BY DEF Rows
<1> QED BY <1>1, <1>2, <1>4, <1>5, <1>6, <1>7 DEF IInv

\* What a batch of this model looks like once it is split and prepared.
LEMMA DecodeFacts ==
  ASSUME Sound(cells), NEW batch \in Batches
  PROVE  /\ batch \in Seq(Tokens) /\ Len(batch) \in 1 .. NBatch /\ Len(batch) \in Nat \ {0}
         /\ Split(batch) \in Parts /\ Len(Split(batch)) \in Nat \ {0}
         /\ Taken(batch, Len(Split(batch))) = Len(batch)
         /\ Prepare(cells, Split(batch)).cells = cells
         /\ \E q : \E m \in 0 .. Len(Split(batch)) :
              /\ Follow(cells, Split(batch), Prepare(cells, Split(batch)).slots, q, m)
              /\ Prepare(cells, Split(batch)).fits => m = Len(Split(batch))
<1>1. batch \in Seq(Tokens) /\ Len(batch) \in 1 .. NBatch /\ Len(batch) \in Nat \ {0}
  BY BatchesAssumption
<1>2. Split(batch) \in Parts /\ Len(Split(batch)) \in Nat \ {0}
      /\ Taken(batch, Len(Split(batch))) = Len(batch)
  BY <1>1, SplitParts
<1>3. /\ Prepare(cells, Split(batch)).cells = cells
      /\ \E q : \E m \in 0 .. Len(Split(batch)) :
           /\ Follow(cells, Split(batch), Prepare(cells, Split(batch)).slots, q, m)
           /\ Prepare(cells, Split(batch)).fits => m = Len(Split(batch))
  <2> DEFINE parts == Split(batch)
  <2>1. parts \in Parts
    BY <1>2
  <2> HIDE DEF parts
  <2>2. /\ Prepare(cells, parts).cells = cells
        /\ \E q : \E m \in 0 .. Len(parts) :
             /\ Follow(cells, parts, Prepare(cells, parts).slots, q, m)
             /\ Prepare(cells, parts).fits => m = Len(parts)
    BY <2>1, Prepared
  <2> QED BY <2>2 DEF parts
<1> QED BY <1>1, <1>2, <1>3

LEMMA DecodeIInv ==
  ASSUME IInv, NEW batch \in Batches, Decode(batch)
  PROVE  IInv'
<1> DEFINE parts == Split(batch)
           n == Len(parts)
           slots == Prepare(cells, parts).slots
<1>1. Sound(cells) /\ hidden \in Rows
  BY DEF IInv
<1>2. /\ batch \in Seq(Tokens) /\ Len(batch) \in 1 .. NBatch /\ Len(batch) \in Nat \ {0}
      /\ parts \in Parts /\ n \in Nat \ {0} /\ Taken(batch, n) = Len(batch)
      /\ Prepare(cells, parts).cells = cells
  BY <1>1, DecodeFacts
<1>3. \/ Returns("inconsistent", cells, hidden)
      \/ Returns("full", cells, hidden)
      \/ Returns("failed", cells, hidden)
      \/ Prepare(cells, parts).fits
         /\ \/ \E k \in 1 .. n :
                 Returns("failed", FailedAt(parts, slots, k), Copied(parts, k - 1))
            \/ /\ rc' = "ok" /\ done' = batch
               /\ cells' = Ran(parts, slots, n)
               /\ hidden' = Copied(parts, n) /\ nHidden' = Len(batch)
  BY <1>2 DEF Decode
<1>4. CASE \/ Returns("inconsistent", cells, hidden)
           \/ Returns("full", cells, hidden)
           \/ Returns("failed", cells, hidden)
  BY <1>1, <1>4, ReturnsIInv
<1>5. ASSUME Prepare(cells, parts).fits
      PROVE  \E q : Follow(cells, parts, slots, q, n)
  BY <1>1, <1>5, DecodeFacts
<1>6. ASSUME Prepare(cells, parts).fits, NEW k \in 1 .. n,
             Returns("failed", FailedAt(parts, slots, k), Copied(parts, k - 1))
      PROVE  IInv'
  <2>1. PICK q : Follow(cells, parts, slots, q, n)
    BY <1>5, <1>6
  <2>2. n \in 0 .. Len(parts) /\ k - 1 \in 0 .. Len(parts)
    BY <1>2
  <2>3. Sound(FailedAt(parts, slots, k))
    <3> HIDE DEF slots, parts
    <3> QED BY <1>1, <1>2, <2>1, <2>2, FailedAtSound
  <2>4. Copied(parts, k - 1) \in Rows
    BY <1>1, <1>2, <2>2, CopiedRows
  <2> HIDE DEF parts, slots
  <2> QED BY <1>6, <2>3, <2>4, ReturnsIInv
<1>7. ASSUME Prepare(cells, parts).fits,
             rc' = "ok", done' = batch, cells' = Ran(parts, slots, n),
             hidden' = Copied(parts, n), nHidden' = Len(batch)
      PROVE  IInv'
  <2>1. PICK q : Follow(cells, parts, slots, q, n)
    BY <1>5, <1>7
  <2>2. n \in 0 .. Len(parts) /\ n \in 0 .. n
    BY <1>2
  <2>3. Sound(Ran(parts, slots, n))
    <3> HIDE DEF slots, parts
    <3> QED BY <1>1, <1>2, <2>1, <2>2, RanSound
  <2>4. /\ Copied(parts, n) \in Rows
        /\ \A j \in 1 .. Len(batch) : Copied(parts, n)[j] = Row(batch[j])
    <3>1. /\ Copied(parts, n) \in Rows
          /\ \A j \in 1 .. Taken(batch, n) : Copied(parts, n)[j] = Row(batch[j])
      BY <1>1, <1>2, <2>2, CopiedRows
    <3> QED BY <1>2, <3>1
  <2>5. HiddenOfBatch'
    <3> HIDE DEF parts, n
    <3>1. \A j \in 1 .. Len(batch) : hidden'[j] = Row(batch[j])
      BY <1>7, <2>4
    <3>2. \A j \in 1 .. nHidden' : hidden'[j] = Row(done'[j])
      BY <1>7, <3>1
    <3> QED BY <1>7, <3>2 DEF HiddenOfBatch, Row, FirstSeq
  <2>6. Sound(cells')
    BY <1>7, <2>3
  <2>7. Sound(cells)'
    BY <2>6 DEF Sound, Where, Cells
  <2>8. nHidden' \in 0 .. NBatch
    BY <1>2, <1>7, BatchesAssumption
  <2>9. (hidden \in Rows)'
    <3>1. hidden' \in Rows
      BY <1>7, <2>4
    <3> QED BY <3>1 DEF Rows
  <2> QED BY <1>7, <2>5, <2>7, <2>8, <2>9 DEF IInv
<1> HIDE DEF parts, n, slots
<1> QED BY <1>3, <1>4, <1>6, <1>7

LEMMA NextIInv ==
  ASSUME IInv, [Next]_vars
  PROVE  IInv'
<1>1. ASSUME NEW batch \in Batches, Decode(batch) PROVE IInv'
  BY <1>1, DecodeIInv
<1>2. ASSUME NEW p \in 0 .. NPos, DropFrom(p) PROVE IInv'
  <2> DEFINE from == [s \in Heads |-> p]
             c == SeqRm(cells, from)
  <2>1. from \in [Heads -> 0 .. NPos] /\ Sound(cells) /\ hidden \in Rows
    BY DEF IInv
  <2>2. Returns("none", c, hidden)
    BY <1>2 DEF DropFrom
  <2> HIDE DEF from
  <2>3. Sound(c)
    BY <2>1, SeqRmSound
  <2> HIDE DEF c
  <2> QED BY <2>1, <2>2, <2>3, ReturnsIInv
<1>3. CASE Clear
  <2>1. Sound(NewCells)
    BY NewCellsSound
  <2>2. Returns("none", NewCells, hidden) /\ hidden \in Rows
    BY <1>3 DEF Clear, IInv
  <2> QED BY <2>1, <2>2, ReturnsIInv
<1>4. CASE UNCHANGED vars
  <2>1. cells' = cells /\ hidden' = hidden /\ nHidden' = nHidden /\ rc' = rc /\ done' = done
    BY <1>4 DEF vars
  <2> QED BY <2>1 DEF IInv, Sound, Where, Cells, Rows, HiddenOfBatch, Row, FirstSeq
<1> QED BY <1>1, <1>2, <1>3, <1>4 DEF Next

LEMMA Invariant == Spec => []IInv
<1>1. Init => IInv
  BY InitIInv
<1>2. IInv /\ [Next]_vars => IInv'
  BY NextIInv
<1> QED BY <1>1, <1>2, PTL DEF Spec

\* Everything has its type: no counter of the cache goes below zero, however
\* batches, failures and removals follow each other.
THEOREM ContextTypeCorrect == Spec => []TypeOK
<1>1. IInv => TypeOK
  BY DEF IInv, Sound, Rows, TypeOK
<1> QED BY <1>1, Invariant, PTL

\* The used set, the empty cells and the counts of every sequence at every
\* position are those of the cells, after every call.
THEOREM BookkeepingIsExact == Spec => []Bookkeeping
<1>1. IInv => Bookkeeping
  BY DEF IInv, Sound, Where, Bookkeeping
<1> QED BY <1>1, Invariant, PTL

\* The rows of the hidden layer after a successful llama_decode are those of
\* its batch, in whatever parts it was computed.
THEOREM HiddenRowsAreTheBatch == Spec => []HiddenOfBatch
<1>1. IInv => HiddenOfBatch
  BY DEF IInv
<1> QED BY <1>1, Invariant, PTL

\* A batch that does not fit leaves the cache, its bookkeeping and the search
\* position as they were.
THEOREM FullBatchLeavesNoTrace == Spec => FullLeavesNoTrace
<1>1. ASSUME IInv, [Next]_vars
      PROVE  [rc' = "full" => cells' = cells /\ hidden' = hidden]_vars
  <2> SUFFICES ASSUME rc' = "full", ~ UNCHANGED vars
               PROVE  cells' = cells /\ hidden' = hidden
    BY DEF vars
  <2>1. PICK batch \in Batches : Decode(batch)
    <3>1. \A p : ~ DropFrom(p)
      BY DEF DropFrom, Returns
    <3>2. ~ Clear
      BY DEF Clear, Returns
    <3> QED BY <1>1, <3>1, <3>2 DEF Next
  <2>2. Prepare(cells, Split(batch)).cells = cells
    BY <1>1, DecodeFacts DEF IInv
  <2>3. Returns("full", Prepare(cells, Split(batch)).cells, hidden)
    BY <2>1 DEF Decode, Returns
  <2> QED BY <2>2, <2>3 DEF Returns
<1> QED BY <1>1, Invariant, PTL DEF Spec, FullLeavesNoTrace

(***************************************************************************)
(* Which tokens the cells hold                                             *)
(***************************************************************************)

\* Tokens 1 .. n of a batch are in the cells w[1] .. w[n] of d, which were empty
\* in c, those up to a with their tensors; all other cells are as in c.
Written(c, batch, a, n, d, w) ==
  /\ \A j \in 1 .. n : w[j] \in FreeCells(c)
  /\ \A j, k \in 1 .. n : w[j] = w[k] => j = k
  /\ \A j \in 1 .. n :
       /\ d.pos[w[j]] = batch[j].pos /\ d.seq[w[j]] = batch[j].seqs
       /\ d.data[w[j]] = IF j <= a THEN batch[j].tok ELSE Spoilt
  /\ \A i \in Index : (\A j \in 1 .. n : w[j] # i) =>
       d.pos[i] = c.pos[i] /\ d.seq[i] = c.seq[i] /\ d.data[i] = c.data[i]

\* Tokens a + 1 .. b of a batch are in the cells of a slot, those up to e with
\* their tensors.
Filled(c, batch, a, b, e, slot, d) ==
  /\ \A i \in Index \ Range(slot) :
       d.pos[i] = c.pos[i] /\ d.seq[i] = c.seq[i] /\ d.data[i] = c.data[i]
  /\ \A j \in a + 1 .. b :
       /\ d.pos[slot[j - a]] = batch[j].pos /\ d.seq[slot[j - a]] = batch[j].seqs
       /\ d.data[slot[j - a]] = IF j <= e THEN batch[j].tok ELSE Spoilt

LEMMA PartOf ==
  ASSUME NEW batch \in Seq(Tokens), NEW a \in 0 .. Len(batch), NEW b \in 0 .. Len(batch), a < b
  PROVE  /\ SubSeq(batch, a + 1, b) \in Seq(Tokens) /\ SubSeq(batch, a + 1, b) # <<>>
         /\ Len(SubSeq(batch, a + 1, b)) = b - a
         /\ \A j \in a + 1 .. b : SubSeq(batch, a + 1, b)[j - a] = batch[j]
<1> DEFINE s == SubSeq(batch, a + 1, b)
<1>1. Len(batch) \in Nat /\ a \in Nat /\ b \in Nat
  BY LenProperties
<1>2. \A i \in a + 1 .. b : batch[i] \in Tokens
  BY <1>1, ElementOfSeq
<1>3. /\ s \in Seq(Tokens) /\ Len(s) = (IF a + 1 <= b THEN b - (a + 1) + 1 ELSE 0)
      /\ \A i \in 1 .. b - (a + 1) + 1 : s[i] = batch[(a + 1) + i - 1]
  BY <1>1, <1>2, SubSeqProperties
<1> HIDE DEF s
<1>4. Len(s) = b - a /\ b - a # 0
  BY <1>1, <1>3
<1>5. s # <<>>
  BY <1>4, EmptySeq
<1>6. \A j \in a + 1 .. b : s[j - a] = batch[j]
  <2> SUFFICES ASSUME NEW j \in a + 1 .. b PROVE s[j - a] = batch[j]
    OBVIOUS
  <2>1. j - a \in 1 .. b - (a + 1) + 1 /\ (a + 1) + (j - a) - 1 = j
    BY <1>1
  <2> QED BY <1>3, <2>1
<1> QED BY <1>3, <1>4, <1>5, <1>6 DEF s

LEMMA FilledPart ==
  ASSUME NEW c, Sound(c), NEW batch \in Seq(Tokens),
         NEW a \in 0 .. Len(batch), NEW b \in 0 .. Len(batch), a < b,
         NEW part, part = SubSeq(batch, a + 1, b), NEW slot, IsSlot(c, slot, Len(part))
  PROVE  LET d == Place(c, slot, part)
         IN  /\ Sound(Computed(d, slot, part, TRUE))
             /\ Filled(c, batch, a, b, b, slot, Computed(d, slot, part, TRUE))
             /\ Sound(Computed(d, slot, part, FALSE))
             /\ Filled(c, batch, a, b, a, slot, Computed(d, slot, part, FALSE))
<1> DEFINE d == Place(c, slot, part)
           ran == Computed(d, slot, part, TRUE)
           lost == Computed(d, slot, part, FALSE)
<1>1. /\ part \in Seq(Tokens) /\ part # <<>> /\ Len(part) = b - a
      /\ \A j \in a + 1 .. b : part[j - a] = batch[j]
  BY PartOf
<1>2. a \in Int /\ b \in Int /\ DOMAIN part = 1 .. b - a
  BY <1>1, LenProperties
<1>3. IsPlaced(c, slot, part, d)
  BY <1>1, PlaceSound
<1>4. /\ IsComputed(c, slot, part, d, ran) /\ Computes(slot, part, ran)
      /\ IsComputed(c, slot, part, d, lost) /\ Spoils(slot, part, lost)
  <2>1. IsComputed(c, slot, part, d, ran)
    BY <1>1, ComputedSound
  <2>2. IsComputed(c, slot, part, d, lost)
    BY <1>1, ComputedSound
  <2>3. Computes(slot, part, ran)
    BY <1>1, ComputedSound
  <2>4. Spoils(slot, part, lost)
    BY <1>1, ComputedSound
  <2> QED BY <2>1, <2>2, <2>3, <2>4
<1> HIDE DEF d, ran, lost
<1>5. \A j \in a + 1 .. b : j - a \in DOMAIN part /\ part[j - a] = batch[j] /\ j <= b /\ ~ (j <= a)
  BY <1>1, <1>2
<1>6. Filled(c, batch, a, b, b, slot, ran)
  <2>1. \A i \in Index \ Range(slot) :
          ran.pos[i] = c.pos[i] /\ ran.seq[i] = c.seq[i] /\ ran.data[i] = c.data[i]
    BY <1>3, <1>4 DEF IsPlaced, IsComputed
  <2>2. \A k \in DOMAIN part : /\ ran.pos[slot[k]] = part[k].pos /\ ran.seq[slot[k]] = part[k].seqs
                               /\ ran.data[slot[k]] = part[k].tok
    BY <1>3, <1>4 DEF IsPlaced, IsComputed, Computes
  <2>3. ASSUME NEW j \in a + 1 .. b
        PROVE  /\ ran.pos[slot[j - a]] = batch[j].pos /\ ran.seq[slot[j - a]] = batch[j].seqs
               /\ ran.data[slot[j - a]] = IF j <= b THEN batch[j].tok ELSE Spoilt
    <3> DEFINE k == j - a
    <3>1. k \in DOMAIN part /\ part[k] = batch[j] /\ j <= b /\ ~ (j <= a)
      BY <1>5
    <3> HIDE DEF k
    <3> QED BY <2>2, <3>1 DEF k
  <2> QED BY <2>1, <2>3 DEF Filled
<1>7. Filled(c, batch, a, b, a, slot, lost)
  <2>1. \A i \in Index \ Range(slot) :
          lost.pos[i] = c.pos[i] /\ lost.seq[i] = c.seq[i] /\ lost.data[i] = c.data[i]
    BY <1>3, <1>4 DEF IsPlaced, IsComputed
  <2>2. \A k \in DOMAIN part : /\ lost.pos[slot[k]] = part[k].pos /\ lost.seq[slot[k]] = part[k].seqs
                               /\ lost.data[slot[k]] = Spoilt
    BY <1>3, <1>4 DEF IsPlaced, IsComputed, Spoils
  <2>3. ASSUME NEW j \in a + 1 .. b
        PROVE  /\ lost.pos[slot[j - a]] = batch[j].pos /\ lost.seq[slot[j - a]] = batch[j].seqs
               /\ lost.data[slot[j - a]] = IF j <= a THEN batch[j].tok ELSE Spoilt
    <3> DEFINE k == j - a
    <3>1. k \in DOMAIN part /\ part[k] = batch[j] /\ j <= b /\ ~ (j <= a)
      BY <1>5
    <3> HIDE DEF k
    <3> QED BY <2>2, <3>1 DEF k
  <2> QED BY <2>1, <2>3 DEF Filled
<1>8. Sound(ran) /\ Sound(lost)
  BY <1>4 DEF IsComputed
<1> QED BY <1>6, <1>7, <1>8 DEF d, ran, lost

LEMMA WrittenNext ==
  ASSUME NEW c, Sound(c), NEW batch \in Seq(Tokens),
         NEW a \in 0 .. Len(batch), NEW b \in 0 .. Len(batch), a < b,
         NEW d, NEW w, Written(c, batch, a, a, d, w),
         NEW slot, IsSlot(d, slot, b - a), NEW e \in {a, b},
         NEW f, Filled(d, batch, a, b, e, slot, f)
  PROVE  \E v : Written(c, batch, e, b, f, v)
<1> DEFINE v == [j \in 1 .. b |-> IF j <= a THEN w[j] ELSE slot[j - a]]
<1>1. a \in Nat /\ b \in Nat /\ \A j \in 1 .. Len(batch) : batch[j].pos # Empty
  <2>1. Len(batch) \in Nat
    BY LenProperties
  <2>2. \A j \in 1 .. Len(batch) : batch[j] \in Tokens
    BY ElementOfSeq
  <2>3. \A t \in Tokens : t.pos # Empty
    BY SizesAssumption DEF Tokens, Empty
  <2> QED BY <2>1, <2>2, <2>3
<1>2. /\ \A j \in 1 .. a : v[j] = w[j] /\ j \in 1 .. b
      /\ \A j \in a + 1 .. b : v[j] = slot[j - a] /\ j - a \in 1 .. b - a
      /\ \A j \in 1 .. b : j \in 1 .. a \/ j \in a + 1 .. b
  BY <1>1
<1> HIDE DEF v
<1>3. Range(slot) = {slot[k] : k \in 1 .. b - a} /\ Range(slot) \subseteq FreeCells(d)
  <2> DEFINE n == b - a
  <2> HIDE DEF n
  <2> QED BY AtSlot DEF n
<1>4. ASSUME NEW i \in Range(slot)
      PROVE  i \in FreeCells(c) /\ \A j \in 1 .. a : w[j] # i
  <2>1. i \in Index /\ d.pos[i] = Empty
    BY <1>3 DEF FreeCells
  <2>2. \A j \in 1 .. a : w[j] # i
    <3> SUFFICES ASSUME NEW j \in 1 .. a, w[j] = i PROVE FALSE
      OBVIOUS
    <3>1. d.pos[i] = batch[j].pos /\ j \in 1 .. Len(batch)
      BY <1>1, LenProperties DEF Written
    <3> QED BY <1>1, <2>1, <3>1
  <2>3. c.pos[i] = Empty
    BY <2>1, <2>2 DEF Written
  <2> QED BY <2>1, <2>2, <2>3 DEF FreeCells
<1>5. \A j \in a + 1 .. b : slot[j - a] \in Range(slot)
  BY <1>2, <1>3
<1>6. \A j \in 1 .. b : v[j] \in FreeCells(c)
  BY <1>2, <1>4, <1>5 DEF Written
<1>7. ASSUME NEW j \in 1 .. b, NEW k \in 1 .. b, v[j] = v[k] PROVE j = k
  <2>1. CASE j \in 1 .. a /\ k \in 1 .. a
    BY <1>2, <1>7, <2>1 DEF Written
  <2>2. CASE j \in a + 1 .. b /\ k \in a + 1 .. b
    <3>1. slot[j - a] = slot[k - a] /\ j - a \in 1 .. b - a /\ k - a \in 1 .. b - a
      BY <1>2, <1>7, <2>2
    <3>2. j - a = k - a
      BY <3>1 DEF IsSlot
    <3> QED BY <1>1, <3>2
  <2>3. CASE j \in 1 .. a /\ k \in a + 1 .. b
    BY <1>2, <1>4, <1>5, <1>7, <2>3
  <2>4. CASE j \in a + 1 .. b /\ k \in 1 .. a
    BY <1>2, <1>4, <1>5, <1>7, <2>4
  <2> QED BY <1>2, <2>1, <2>2, <2>3, <2>4
<1>8. ASSUME NEW j \in 1 .. b
      PROVE  /\ f.pos[v[j]] = batch[j].pos /\ f.seq[v[j]] = batch[j].seqs
             /\ f.data[v[j]] = IF j <= e THEN batch[j].tok ELSE Spoilt
  <2>1. CASE j \in 1 .. a
    <3>1. v[j] = w[j] /\ w[j] \in Index /\ w[j] \notin Range(slot)
      BY <1>2, <1>4, <2>1 DEF Written, FreeCells
    <3>2. f.pos[w[j]] = d.pos[w[j]] /\ f.seq[w[j]] = d.seq[w[j]] /\ f.data[w[j]] = d.data[w[j]]
      BY <3>1 DEF Filled
    <3>3. /\ d.pos[w[j]] = batch[j].pos /\ d.seq[w[j]] = batch[j].seqs
          /\ d.data[w[j]] = IF j <= a THEN batch[j].tok ELSE Spoilt
      BY <2>1 DEF Written
    <3>4. j <= a /\ j <= e
      BY <1>1, <2>1
    <3> QED BY <3>1, <3>2, <3>3, <3>4
  <2>2. CASE j \in a + 1 .. b
    <3>1. v[j] = slot[j - a]
      BY <1>2, <2>2
    <3> QED BY <2>2, <3>1 DEF Filled
  <2> QED BY <1>2, <2>1, <2>2
<1>9. ASSUME NEW i \in Index, \A j \in 1 .. b : v[j] # i
      PROVE  f.pos[i] = c.pos[i] /\ f.seq[i] = c.seq[i] /\ f.data[i] = c.data[i]
  <2>1. \A j \in 1 .. a : w[j] # i
    BY <1>2, <1>9
  <2>2. i \notin Range(slot)
    <3> SUFFICES ASSUME NEW k \in 1 .. b - a, slot[k] = i PROVE FALSE
      BY <1>3
    <3>1. a + k \in a + 1 .. b /\ (a + k) - a = k /\ a + k \in 1 .. b
      BY <1>1
    <3>2. v[a + k] = i
      BY <1>2, <3>1
    <3> QED BY <1>9, <3>1, <3>2
  <2>3. f.pos[i] = d.pos[i] /\ f.seq[i] = d.seq[i] /\ f.data[i] = d.data[i]
    BY <2>2 DEF Filled
  <2>4. d.pos[i] = c.pos[i] /\ d.seq[i] = c.seq[i] /\ d.data[i] = c.data[i]
    BY <2>1 DEF Written
  <2> QED BY <2>3, <2>4
<1>10. Written(c, batch, e, b, f, v)
  BY <1>6, <1>7, <1>8, <1>9 DEF Written
<1> QED BY <1>10

LEMMA WrittenRun ==
  ASSUME Sound(cells), NEW batch \in Seq(Tokens), Len(batch) \in Nat \ {0},
         NEW slots, NEW q, NEW m \in 0 .. Len(Split(batch)),
         Follow(cells, Split(batch), slots, q, m)
  PROVE  /\ \A k \in 0 .. m :
              \E w : Written(cells, batch, Taken(batch, k), Taken(batch, k), Ran(Split(batch), slots, k), w)
         /\ \A k \in 1 .. m :
              LET slot == slots[k]
                  part == Split(batch)[k]
                  d == Computed(Place(Ran(Split(batch), slots, k - 1), slot, part), slot, part, FALSE)
              IN  Sound(d) /\ \E w : Written(cells, batch, Taken(batch, k - 1), Taken(batch, k), d, w)
<1> DEFINE parts == Split(batch)
           r(k) == Ran(parts, slots, k)
           t(k) == Taken(batch, k)
           Done(k) == \E w : Written(cells, batch, t(k), t(k), r(k), w)
           S == {k \in 0 .. m : Done(k)}
<1>1. /\ parts \in Parts /\ t(0) = 0 /\ \A k \in 0 .. Len(parts) : t(k) \in 0 .. Len(batch)
      /\ \A k \in 1 .. Len(parts) : t(k - 1) < t(k) /\ parts[k] = SubSeq(batch, t(k - 1) + 1, t(k))
  BY SplitParts
<1>2. m \in Nat /\ Len(parts) \in Nat
  BY <1>1, LenProperties DEF Parts
<1>3. \A k \in 0 .. m : Sound(r(k)) /\ r(k).pos = q[k].pos /\ r(k).seq = q[k].seq
  <2> HIDE DEF parts
  <2> QED BY <1>1, RanSound DEF parts
<1>4. r(0) = cells /\ \A k \in Nat : r(k + 1) = Onto(r(k), parts, slots, k + 1)
  <2> HIDE DEF parts
  <2> QED BY RanRun
<1>5. \A k \in 1 .. m : IsSlot(q[k - 1], slots[k], Len(parts[k]))
  BY DEF Follow
<1> HIDE DEF parts, r, t
\* One part further, whether its graph ran or not.
<1>6. ASSUME NEW k \in 0 .. m - 1, Done(k)
      PROVE  LET d(ok) == Computed(Place(r(k), slots[k + 1], parts[k + 1]), slots[k + 1], parts[k + 1], ok)
             IN  /\ \E w : Written(cells, batch, t(k + 1), t(k + 1), d(TRUE), w)
                 /\ Sound(d(FALSE)) /\ \E w : Written(cells, batch, t(k), t(k + 1), d(FALSE), w)
  <2> DEFINE a == t(k)
             b == t(k + 1)
             part == parts[k + 1]
             slot == slots[k + 1]
             c == r(k)
             ran == Computed(Place(c, slot, part), slot, part, TRUE)
             lost == Computed(Place(c, slot, part), slot, part, FALSE)
  <2>1. k \in 0 .. m /\ k + 1 \in 1 .. m /\ k + 1 \in 1 .. Len(parts) /\ (k + 1) - 1 = k
        /\ k \in 0 .. Len(parts) /\ k + 1 \in 0 .. Len(parts)
    BY <1>2 DEF parts
  <2>2. a \in 0 .. Len(batch) /\ b \in 0 .. Len(batch) /\ a < b /\ part = SubSeq(batch, a + 1, b)
    BY <1>1, <2>1
  <2>3. Sound(c) /\ IsSlot(c, slot, Len(part))
    <3>1. Sound(c) /\ c.pos = q[k].pos /\ IsSlot(q[k], slot, Len(part))
      BY <1>3, <1>5, <2>1
    <3> HIDE DEF c, slot, part
    <3> QED BY <3>1 DEF IsSlot, FreeCells
  <2>4. PICK w : Written(cells, batch, a, a, c, w)
    BY <1>6
  <2> HIDE DEF a, b, part, slot, c
  <2>5. Len(part) = b - a
    BY <2>2, PartOf
  <2>6. /\ Sound(ran) /\ Filled(c, batch, a, b, b, slot, ran)
        /\ Sound(lost) /\ Filled(c, batch, a, b, a, slot, lost)
    BY <2>2, <2>3, FilledPart
  <2> HIDE DEF ran, lost
  <2>7. \E v : Written(cells, batch, b, b, ran, v)
    BY <2>2, <2>3, <2>4, <2>5, <2>6, WrittenNext
  <2>8. \E v : Written(cells, batch, a, b, lost, v)
    BY <2>2, <2>3, <2>4, <2>5, <2>6, WrittenNext
  <2> QED BY <2>6, <2>7, <2>8 DEF a, b, part, slot, c, ran, lost
<1>7. Done(0)
  <2>1. Written(cells, batch, 0, 0, cells, <<>>)
    BY DEF Written
  <2> QED BY <1>1, <1>4, <2>1
<1>8. ASSUME NEW k \in 0 .. m - 1, Done(k) PROVE Done(k + 1)
  <2>1. r(k + 1) = Computed(Place(r(k), slots[k + 1], parts[k + 1]), slots[k + 1], parts[k + 1], TRUE)
    <3>1. k \in Nat
      BY <1>2
    <3> QED BY <1>4, <3>1 DEF Onto
  <2> QED BY <1>6, <1>8, <2>1
<1>9. \A k \in 0 .. m : Done(k)
  <2> HIDE DEF Done
  <2>1. 0 \in S /\ \A k \in 0 .. m - 1 : k \in S => k + 1 \in S
    BY <1>2, <1>7, <1>8
  <2>2. \A k \in 0 .. m : k \in S
    <3> HIDE DEF S
    <3> QED BY <1>2, <2>1, UpTo
  <2> QED BY <2>2
<1>10. ASSUME NEW k \in 1 .. m
       PROVE  LET d == Computed(Place(r(k - 1), slots[k], parts[k]), slots[k], parts[k], FALSE)
              IN  Sound(d) /\ \E w : Written(cells, batch, t(k - 1), t(k), d, w)
  <2> DEFINE j == k - 1
  <2>1. j \in 0 .. m - 1 /\ j \in 0 .. m /\ j + 1 = k
    BY <1>2
  <2> HIDE DEF j
  <2>2. Done(j)
    BY <1>9, <2>1
  <2>3. LET d == Computed(Place(r(j), slots[j + 1], parts[j + 1]), slots[j + 1], parts[j + 1], FALSE)
        IN  Sound(d) /\ \E w : Written(cells, batch, t(j), t(j + 1), d, w)
    BY <1>6, <2>1, <2>2
  <2>4. LET d == Computed(Place(r(j), slots[k], parts[k]), slots[k], parts[k], FALSE)
        IN  Sound(d) /\ \E w : Written(cells, batch, t(j), t(k), d, w)
    BY <2>1, <2>3
  <2> QED BY <2>4 DEF j
<1> QED BY <1>9, <1>10 DEF parts, r, t

(***************************************************************************)
(* Positions without a gap                                                 *)
(***************************************************************************)

\* Cells i of a cache that hold sequence s, and tokens of a batch that do.
Holds(c, s) == {i \in Index : s \in c.seq[i]}
Adds(batch, s) == {k \in DOMAIN batch : s \in batch[k].seqs}

LEMMA HoldsPos ==
  ASSUME NEW c, Sound(c), NEW s \in Heads, NEW i \in Holds(c, s)
  PROVE  i \in Index /\ c.pos[i] \in 0 .. NPos - 1 /\ c.pos[i] \in Nat /\ c.pos[i] # Empty
<1>1. i \in Index /\ c.seq[i] # {}
  BY DEF Holds
<1>2. c.pos[i] \in 0 .. NPos - 1 \cup {Empty} /\ c.pos[i] # Empty
  BY <1>1, CellsFields DEF Sound
<1> QED BY <1>1, <1>2, SizesAssumption

LEMMA AddsPos ==
  ASSUME NEW batch \in Seq(Tokens), NEW s, NEW k \in Adds(batch, s)
  PROVE  k \in 1 .. Len(batch) /\ batch[k] \in Tokens
         /\ batch[k].pos \in 0 .. NPos - 1 /\ batch[k].pos \in Nat
<1>1. k \in 1 .. Len(batch)
  BY LenProperties DEF Adds
<1>2. batch[k] \in Tokens
  BY <1>1, ElementOfSeq
<1> QED BY <1>1, <1>2, SizesAssumption DEF Tokens

\* What the counters say of a sequence.
LEMMA HeldIs ==
  ASSUME NEW c, Sound(c), NEW s \in Heads
  PROVE  /\ Held(c, s) = {c.pos[i] : i \in Holds(c, s)}
         /\ Holds(c, s) = {} => PosMin(c, s) = -1 /\ PosMax(c, s) = -1
         /\ Holds(c, s) # {} =>
              /\ PosMin(c, s) \in Held(c, s) /\ PosMax(c, s) \in Held(c, s)
              /\ PosMin(c, s) \in Nat /\ PosMax(c, s) \in Nat
              /\ \A p \in Held(c, s) : PosMin(c, s) <= p /\ p <= PosMax(c, s)
<1>1. ASSUME NEW p \in 0 .. NPos - 1
      PROVE  c.count[s][p] > 0 <=> \E i \in Holds(c, s) : c.pos[i] = p
  <2> DEFINE W == Where(c, Index, s, p)
  <2>1. c.count[s][p] = Cardinality(W)
    BY DEF Sound
  <2>2. W # {} <=> \E i \in Holds(c, s) : c.pos[i] = p
    BY DEF Where, Holds
  <2>3. W \in SUBSET Index
    BY DEF Where
  <2> HIDE DEF W
  <2>4. IsFiniteSet(W) /\ Cardinality(W) \in Nat
    BY <2>3, IndexFinite
  <2>5. Cardinality(W) = 0 <=> W = {}
    BY <2>4, FS_EmptySet
  <2> QED BY <2>1, <2>2, <2>4, <2>5
<1>2. \A i \in Holds(c, s) : c.pos[i] \in 0 .. NPos - 1 /\ c.pos[i] \in Nat
  BY HoldsPos
<1>3. Held(c, s) = {c.pos[i] : i \in Holds(c, s)}
  BY <1>1, <1>2 DEF Held
<1> DEFINE H == Held(c, s)
<1>4. H = {} <=> Holds(c, s) = {}
  BY <1>3
<1>5. H \in SUBSET Nat /\ NPos \in Nat /\ \A p \in H : p <= NPos
  BY SizesAssumption DEF Held
<1>6. PosMin(c, s) = (IF H = {} THEN -1 ELSE Min(H)) /\ PosMax(c, s) = (IF H = {} THEN -1 ELSE Max(H))
  BY DEF PosMin, PosMax
<1> HIDE DEF H
<1>7. ASSUME H # {}
      PROVE  /\ Min(H) \in H /\ Max(H) \in H /\ Min(H) \in Nat /\ Max(H) \in Nat
             /\ \A p \in H : Min(H) <= p /\ p <= Max(H)
  <2>1. Min(H) \in H /\ \A p \in H : Min(H) <= p
    BY <1>5, <1>7, MinOf
  <2>2. Max(H) \in H /\ \A p \in H : p <= Max(H)
    BY <1>5, <1>7, MaxOf
  <2> QED BY <1>5, <2>1, <2>2
<1> QED BY <1>3, <1>4, <1>6, <1>7 DEF H

\* No sequence holds a position twice or leaves one out.
Whole(c) ==
  \A s \in Heads : \A i, j \in Holds(c, s) :
    /\ c.pos[i] = c.pos[j] => i = j
    /\ \A p \in c.pos[i] .. c.pos[j] : \E l \in Holds(c, s) : c.pos[l] = p

\* A batch goes on without a gap where the cache ends.
GoesOn(c, batch) ==
  \A s \in Heads : \A k \in Adds(batch, s) :
    /\ \A j \in Adds(batch, s) : \A p \in batch[j].pos .. batch[k].pos :
         \E l \in Adds(batch, s) : batch[l].pos = p
    /\ \A i \in Holds(c, s) :
         /\ c.pos[i] < batch[k].pos
         /\ \E h \in Holds(c, s), j \in Adds(batch, s) :
              /\ batch[j].pos = c.pos[h] + 1
              /\ c.pos[i] <= c.pos[h] /\ batch[j].pos <= batch[k].pos

LEMMA Contiguous ==
  ASSUME NEW S \in SUBSET Nat, S # {}, NEW b \in Nat, \A n \in S : n <= b,
         Max(S) - Min(S) + 1 <= Cardinality(S)
  PROVE  S = Min(S) .. Max(S)
<1> DEFINE lo == Min(S)
           hi == Max(S)
<1>1. lo \in S /\ hi \in S /\ \A n \in S : lo <= n /\ n <= hi
  BY MinOf, MaxOf
<1>2. lo \in Nat /\ hi \in Nat /\ lo <= hi
  BY <1>1
<1> HIDE DEF lo, hi
<1>3. S \subseteq lo .. hi
  <2> SUFFICES ASSUME NEW n \in S PROVE n \in lo .. hi
    OBVIOUS
  <2> QED BY <1>1, <1>2
<1>4. IsFiniteSet(lo .. hi) /\ Cardinality(lo .. hi) = hi - lo + 1
  BY <1>2, FS_Interval
<1>5. Cardinality(S) \in Nat /\ Cardinality(S) <= hi - lo + 1
      /\ (Cardinality(S) = hi - lo + 1 => S = lo .. hi)
  BY <1>3, <1>4, FS_Subset, FS_CardinalityType
<1> QED BY <1>2, <1>5 DEF lo, hi

LEMMA AcceptsGoesOn ==
  ASSUME Sound(cells), NEW batch \in Seq(Tokens), Accepts(batch)
  PROVE  GoesOn(cells, batch)
<1> SUFFICES ASSUME NEW s \in Heads, NEW k \in Adds(batch, s)
             PROVE  /\ \A j \in Adds(batch, s) : \A p \in batch[j].pos .. batch[k].pos :
                         \E l \in Adds(batch, s) : batch[l].pos = p
                    /\ \A i \in Holds(cells, s) :
                         /\ cells.pos[i] < batch[k].pos
                         /\ \E h \in Holds(cells, s), j \in Adds(batch, s) :
                              /\ batch[j].pos = cells.pos[h] + 1
                              /\ cells.pos[i] <= cells.pos[h] /\ batch[j].pos <= batch[k].pos
  BY DEF GoesOn
<1> DEFINE N == {batch[j].pos : j \in Adds(batch, s)}
<1>1. \A j \in Adds(batch, s) : batch[j].pos \in N /\ batch[j].pos \in Nat /\ batch[j].pos \in 0 .. NPos - 1
  BY AddsPos
<1>2. N \in SUBSET Nat /\ NPos \in Nat /\ \A n \in N : n <= NPos
  BY <1>1, SizesAssumption
<1>3. /\ PosMax(cells, s) >= 0 => Min(N) = PosMax(cells, s) + 1
      /\ Max(N) - Min(N) + 1 <= Cardinality(N)
  <2>1. N # {}
    OBVIOUS
  <2>2. {batch[j].pos : j \in {l \in DOMAIN batch : s \in batch[l].seqs}} = N
    BY DEF Adds
  <2> HIDE DEF N
  <2> QED BY <2>1, <2>2 DEF Accepts
<1>4. N = Min(N) .. Max(N) /\ Min(N) \in N /\ Max(N) \in N /\ \A n \in N : Min(N) <= n
  <2>1. N # {}
    OBVIOUS
  <2> HIDE DEF N
  <2>2. Max(N) \in N
    BY <1>2, <2>1, MaxOf
  <2> QED BY <1>2, <1>3, <2>1, <2>2, Contiguous, MinOf
<1>5. \A n \in N : \E j \in Adds(batch, s) : batch[j].pos = n
  OBVIOUS
<1> HIDE DEF N
<1>6. ASSUME NEW j \in Adds(batch, s), NEW p \in batch[j].pos .. batch[k].pos
      PROVE  \E l \in Adds(batch, s) : batch[l].pos = p
  <2>1. batch[j].pos \in Min(N) .. Max(N) /\ batch[k].pos \in Min(N) .. Max(N)
    BY <1>1, <1>4
  <2>2. Min(N) \in Nat /\ Max(N) \in Nat /\ batch[j].pos \in Nat /\ batch[k].pos \in Nat
    BY <1>1, <1>2, <1>4
  <2>3. p \in Min(N) .. Max(N)
    BY <2>1, <2>2
  <2> QED BY <1>4, <1>5, <2>3
<1>7. ASSUME NEW i \in Holds(cells, s)
      PROVE  /\ cells.pos[i] < batch[k].pos
             /\ \E h \in Holds(cells, s), j \in Adds(batch, s) :
                  /\ batch[j].pos = cells.pos[h] + 1
                  /\ cells.pos[i] <= cells.pos[h] /\ batch[j].pos <= batch[k].pos
  <2> DEFINE top == PosMax(cells, s)
  <2>1. /\ top \in Held(cells, s) /\ top \in Nat /\ \A p \in Held(cells, s) : p <= top
        /\ Held(cells, s) = {cells.pos[h] : h \in Holds(cells, s)}
    BY HeldIs
  <2> HIDE DEF top
  <2>2. cells.pos[i] <= top /\ cells.pos[i] \in Nat
    BY <2>1, HoldsPos
  <2>3. PICK h \in Holds(cells, s) : cells.pos[h] = top
    BY <2>1
  <2>4. Min(N) = top + 1
    BY <1>3, <2>1 DEF top
  <2>5. PICK j \in Adds(batch, s) : batch[j].pos = top + 1
    BY <1>4, <1>5, <2>4
  <2>6. top + 1 <= batch[k].pos /\ batch[k].pos \in Nat
    BY <1>1, <1>4, <2>4
  <2> QED BY <2>1, <2>2, <2>3, <2>5, <2>6
<1> QED BY <1>6, <1>7

\* The tokens of a sequence are in the order of their positions.
Ascending(batch) ==
  \A j, k \in DOMAIN batch :
    j < k /\ batch[j].seqs \cap batch[k].seqs # {} => batch[j].pos < batch[k].pos

\* The cells of d that hold a sequence are those of c and those in which the
\* first n tokens of a batch were written.
Extended(c, batch, n, d, w, s) ==
  /\ \A i \in Holds(c, s) : i \in Holds(d, s) /\ d.pos[i] = c.pos[i]
  /\ \A j \in Adds(batch, s) : j <= n => w[j] \in Holds(d, s) /\ d.pos[w[j]] = batch[j].pos
  /\ \A i \in Holds(d, s) : \/ i \in Holds(c, s) /\ d.pos[i] = c.pos[i]
                            \/ \E j \in Adds(batch, s) : j <= n /\ i = w[j] /\ d.pos[i] = batch[j].pos

LEMMA HoldsWritten ==
  ASSUME NEW c, Sound(c), NEW batch \in Seq(Tokens), NEW a, NEW n \in 0 .. Len(batch),
         NEW d, NEW w, Written(c, batch, a, n, d, w), NEW s \in Heads
  PROVE  Extended(c, batch, n, d, w, s)
<1>1. n \in Nat /\ Len(batch) \in Nat /\ DOMAIN batch = 1 .. Len(batch)
  BY LenProperties
<1>2. \A j \in 1 .. n : w[j] \in Index /\ c.pos[w[j]] = Empty
  BY DEF Written, FreeCells
<1>3. ASSUME NEW i \in Holds(c, s)
      PROVE  i \in Holds(d, s) /\ d.pos[i] = c.pos[i]
  <2>1. i \in Index /\ c.pos[i] # Empty /\ s \in c.seq[i]
    BY HoldsPos DEF Holds
  <2>2. \A j \in 1 .. n : w[j] # i
    BY <1>2, <2>1
  <2> QED BY <2>1, <2>2 DEF Written, Holds
<1>4. ASSUME NEW j \in Adds(batch, s), j <= n
      PROVE  w[j] \in Holds(d, s) /\ d.pos[w[j]] = batch[j].pos
  <2>1. j \in 1 .. n /\ s \in batch[j].seqs
    BY <1>1, <1>4 DEF Adds
  <2> QED BY <1>2, <2>1 DEF Written, Holds
<1>5. ASSUME NEW i \in Holds(d, s)
      PROVE  \/ i \in Holds(c, s) /\ d.pos[i] = c.pos[i]
             \/ \E j \in Adds(batch, s) : j <= n /\ i = w[j] /\ d.pos[i] = batch[j].pos
  <2>1. i \in Index /\ s \in d.seq[i]
    BY DEF Holds
  <2>2. CASE \A j \in 1 .. n : w[j] # i
    BY <2>1, <2>2 DEF Written, Holds
  <2>3. CASE \E j \in 1 .. n : w[j] = i
    <3>1. PICK j \in 1 .. n : w[j] = i
      BY <2>3
    <3>2. d.pos[i] = batch[j].pos /\ d.seq[i] = batch[j].seqs
      BY <3>1 DEF Written
    <3>3. j \in Adds(batch, s) /\ j <= n
      BY <1>1, <2>1, <3>2 DEF Adds
    <3> QED BY <3>1, <3>2, <3>3
  <2> QED BY <2>2, <2>3
<1> QED BY <1>3, <1>4, <1>5 DEF Extended

LEMMA WholeWritten ==
  ASSUME NEW c, Sound(c), Whole(c), NEW batch \in Seq(Tokens), GoesOn(c, batch), Ascending(batch),
         NEW a, NEW n \in 0 .. Len(batch), NEW d, NEW w, Written(c, batch, a, n, d, w)
  PROVE  Whole(d)
<1>1. n \in Nat /\ Len(batch) \in Nat /\ DOMAIN batch = 1 .. Len(batch)
  BY LenProperties
<1> SUFFICES ASSUME NEW s \in Heads, NEW x \in Holds(d, s), NEW y \in Holds(d, s)
             PROVE  /\ d.pos[x] = d.pos[y] => x = y
                    /\ \A p \in d.pos[x] .. d.pos[y] : \E l \in Holds(d, s) : d.pos[l] = p
  BY DEF Whole
<1> DEFINE Old(i) == i \in Holds(c, s) /\ d.pos[i] = c.pos[i]
           New(i, j) == j \in Adds(batch, s) /\ j <= n /\ i = w[j] /\ d.pos[i] = batch[j].pos
<1>2. /\ \A i \in Holds(c, s) : i \in Holds(d, s) /\ d.pos[i] = c.pos[i]
      /\ \A j \in Adds(batch, s) : j <= n => w[j] \in Holds(d, s) /\ d.pos[w[j]] = batch[j].pos
      /\ \A i \in Holds(d, s) : Old(i) \/ \E j : New(i, j)
  <2>a. Extended(c, batch, n, d, w, s)
    BY HoldsWritten
  <2>1. /\ \A i \in Holds(c, s) : i \in Holds(d, s) /\ d.pos[i] = c.pos[i]
        /\ \A j \in Adds(batch, s) : j <= n => w[j] \in Holds(d, s) /\ d.pos[w[j]] = batch[j].pos
        /\ \A i \in Holds(d, s) : \/ i \in Holds(c, s) /\ d.pos[i] = c.pos[i]
                                  \/ \E j \in Adds(batch, s) : /\ j <= n /\ i = w[j]
                                                               /\ d.pos[i] = batch[j].pos
    BY <2>a DEF Extended
  <2>2. ASSUME NEW i \in Holds(d, s) PROVE Old(i) \/ \E j : New(i, j)
    <3>1. CASE i \in Holds(c, s) /\ d.pos[i] = c.pos[i]
      BY <3>1
    <3>2. CASE \E j \in Adds(batch, s) : j <= n /\ i = w[j] /\ d.pos[i] = batch[j].pos
      BY <3>2
    <3> QED BY <2>1, <3>1, <3>2
  <2> QED BY <2>1, <2>2
<1>3. \A j \in Adds(batch, s) : batch[j].pos \in Nat /\ j \in Nat
  BY AddsPos
<1>4. \A i \in Holds(c, s) : c.pos[i] \in Nat
  BY HoldsPos
\* Of the tokens of a sequence, those with smaller positions come first.
<1>5. ASSUME NEW j \in Adds(batch, s), NEW k \in Adds(batch, s), batch[j].pos <= batch[k].pos, k <= n
      PROVE  j <= n /\ (batch[j].pos = batch[k].pos => j = k)
  <2>1. ASSUME k < j PROVE FALSE
    <3>1. batch[k].pos < batch[j].pos
      BY <2>1 DEF Ascending, Adds
    <3> QED BY <1>3, <1>5, <3>1
  <2>2. ASSUME j < k, batch[j].pos = batch[k].pos PROVE FALSE
    <3>1. batch[j].pos < batch[k].pos
      BY <2>2 DEF Ascending, Adds
    <3> QED BY <1>3, <2>2, <3>1
  <2> QED BY <1>1, <1>3, <1>5, <2>1, <2>2
<1>6. ASSUME NEW p, NEW j \in Adds(batch, s), NEW k \in Adds(batch, s), k <= n,
             p \in batch[j].pos .. batch[k].pos
      PROVE  \E l \in Holds(d, s) : d.pos[l] = p
  <2>1. PICK l \in Adds(batch, s) : batch[l].pos = p
    BY <1>6 DEF GoesOn
  <2>2. l <= n
    BY <1>3, <1>5, <1>6, <2>1
  <2> QED BY <1>2, <2>1, <2>2
<1>7. CASE Old(x) /\ Old(y)
  <2>1. /\ c.pos[x] = c.pos[y] => x = y
        /\ \A p \in c.pos[x] .. c.pos[y] : \E l \in Holds(c, s) : c.pos[l] = p
    BY <1>7 DEF Whole
  <2> QED BY <1>2, <1>7, <2>1
<1>8. ASSUME Old(x), NEW k, New(y, k)
      PROVE  /\ d.pos[x] # d.pos[y]
             /\ \A p \in d.pos[x] .. d.pos[y] : \E l \in Holds(d, s) : d.pos[l] = p
  <2>1. c.pos[x] < batch[k].pos
    BY <1>8 DEF GoesOn
  <2>2. PICK h \in Holds(c, s), j \in Adds(batch, s) :
          batch[j].pos = c.pos[h] + 1 /\ c.pos[x] <= c.pos[h] /\ batch[j].pos <= batch[k].pos
    BY <1>8 DEF GoesOn
  <2>3. ASSUME NEW p \in d.pos[x] .. d.pos[y]
        PROVE  \E l \in Holds(d, s) : d.pos[l] = p
    <3>0. /\ c.pos[x] \in Nat /\ c.pos[h] \in Nat /\ batch[k].pos \in Nat /\ p \in Int
          /\ c.pos[x] <= p /\ p <= batch[k].pos
      BY <1>3, <1>4, <1>8
    <3>1. CASE p <= c.pos[h]
      <4>1. p \in c.pos[x] .. c.pos[h]
        BY <3>0, <3>1
      <4>2. PICK l \in Holds(c, s) : c.pos[l] = p
        BY <1>8, <4>1 DEF Whole
      <4> QED BY <1>2, <4>2
    <3>2. CASE ~ (p <= c.pos[h])
      <4>1. p \in batch[j].pos .. batch[k].pos
        BY <2>2, <3>0, <3>2
      <4> QED BY <1>6, <1>8, <4>1
    <3> QED BY <3>1, <3>2
  <2>4. d.pos[x] # d.pos[y]
    BY <1>3, <1>4, <1>8, <2>1
  <2> QED BY <2>3, <2>4
<1>9. ASSUME NEW j, New(x, j), Old(y)
      PROVE  d.pos[x] # d.pos[y] /\ d.pos[x] .. d.pos[y] = {}
  <2>1. c.pos[y] < batch[j].pos
    BY <1>9 DEF GoesOn
  <2> QED BY <1>3, <1>4, <1>9, <2>1
<1>10. ASSUME NEW j, New(x, j), NEW k, New(y, k)
       PROVE  /\ d.pos[x] = d.pos[y] => x = y
              /\ \A p \in d.pos[x] .. d.pos[y] : \E l \in Holds(d, s) : d.pos[l] = p
  <2>1. ASSUME d.pos[x] = d.pos[y] PROVE x = y
    <3>1. batch[j].pos = batch[k].pos /\ batch[j].pos <= batch[k].pos
      BY <1>3, <1>10, <2>1
    <3>2. j = k
      BY <1>5, <1>10, <3>1
    <3> QED BY <1>10, <3>2
  <2>2. \A p \in batch[j].pos .. batch[k].pos : \E l \in Holds(d, s) : d.pos[l] = p
    BY <1>6, <1>10
  <2> QED BY <1>10, <2>1, <2>2
<1> HIDE DEF Old, New
<1> QED BY <1>2, <1>7, <1>8, <1>9, <1>10

\* What removing positions leaves of each sequence is its beginning.
LEMMA WholeRemoved ==
  ASSUME NEW c, Sound(c), Whole(c), NEW from \in [Heads -> 0 .. NPos]
  PROVE  Whole(SeqRm(c, from))
<1> DEFINE d == SeqRm(c, from)
           left(i) == {s \in c.seq[i] : c.pos[i] < from[s]}
<1>1. /\ d.pos = [i \in Index |-> IF left(i) = {} THEN Empty ELSE c.pos[i]]
      /\ d.seq = [i \in Index |-> left(i)]
  BY SeqRmSound
<1> HIDE DEF d
<1>2. ASSUME NEW s \in Heads, NEW i
      PROVE  i \in Holds(d, s) <=> i \in Holds(c, s) /\ c.pos[i] < from[s]
  BY <1>1 DEF Holds
<1>3. ASSUME NEW s \in Heads, NEW i \in Holds(d, s)
      PROVE  d.pos[i] = c.pos[i]
  <2>1. i \in Index /\ s \in left(i)
    BY <1>1 DEF Holds
  <2> QED BY <1>1, <2>1
<1> SUFFICES ASSUME NEW s \in Heads, NEW i \in Holds(d, s), NEW j \in Holds(d, s)
             PROVE  /\ d.pos[i] = d.pos[j] => i = j
                    /\ \A p \in d.pos[i] .. d.pos[j] : \E l \in Holds(d, s) : d.pos[l] = p
  BY DEF Whole, d
<1>4. i \in Holds(c, s) /\ j \in Holds(c, s) /\ d.pos[i] = c.pos[i] /\ d.pos[j] = c.pos[j]
      /\ c.pos[j] < from[s]
  BY <1>2, <1>3
<1>5. c.pos[i] = c.pos[j] => i = j
  BY <1>4 DEF Whole
<1>6. ASSUME NEW p \in c.pos[i] .. c.pos[j]
      PROVE  \E l \in Holds(d, s) : d.pos[l] = p
  <2>1. PICK l \in Holds(c, s) : c.pos[l] = p
    BY <1>4 DEF Whole
  <2>2. p < from[s]
    <3>1. c.pos[i] \in Nat /\ c.pos[j] \in Nat /\ from[s] \in Nat
      BY <1>4, HoldsPos, SizesAssumption
    <3> QED BY <1>4, <3>1
  <2> QED BY <1>2, <1>3, <2>1, <2>2
<1> QED BY <1>4, <1>5, <1>6

LEMMA WholeReturns ==
  ASSUME Whole(cells), NEW code, NEW c, Whole(c), NEW rows, Returns(code, c, rows)
  PROVE  Whole(cells')
BY DEF Returns

LEMMA WholeDecode ==
  ASSUME IInv, Whole(cells), NEW batch \in Batches, Ascending(batch), Decode(batch)
  PROVE  Whole(cells')
<1> DEFINE parts == Split(batch)
           n == Len(parts)
           slots == Prepare(cells, parts).slots
<1>1. Sound(cells)
  BY DEF IInv
<1>2. /\ batch \in Seq(Tokens) /\ Len(batch) \in Nat \ {0} /\ parts \in Parts /\ n \in Nat \ {0}
      /\ Prepare(cells, parts).cells = cells
  BY <1>1, DecodeFacts
<1>3. \/ cells' = cells
      \/ /\ Accepts(batch) /\ Prepare(cells, parts).fits
         /\ \/ \E k \in 1 .. n : cells' = FailedAt(parts, slots, k)
            \/ cells' = Ran(parts, slots, n)
  BY <1>2 DEF Decode, Returns
<1>4. ASSUME Accepts(batch), Prepare(cells, parts).fits
      PROVE  /\ GoesOn(cells, batch)
             /\ \E w : Written(cells, batch, Taken(batch, n), Taken(batch, n), Ran(parts, slots, n), w)
             /\ \A k \in 1 .. n :
                  LET d == Computed(Place(Ran(parts, slots, k - 1), slots[k], parts[k]), slots[k], parts[k], FALSE)
                  IN  Sound(d) /\ \E w : Written(cells, batch, Taken(batch, k - 1), Taken(batch, k), d, w)
  <2>1. PICK q : Follow(cells, parts, slots, q, n)
    BY <1>1, <1>4, DecodeFacts
  <2>2. n \in 0 .. Len(Split(batch)) /\ n \in 0 .. n
    BY <1>2
  <2>3. GoesOn(cells, batch)
    BY <1>1, <1>2, <1>4, AcceptsGoesOn
  <2> HIDE DEF slots
  <2>4. \E w : Written(cells, batch, Taken(batch, n), Taken(batch, n), Ran(parts, slots, n), w)
    <3> HIDE DEF n
    <3> QED BY <1>1, <1>2, <2>1, <2>2, WrittenRun
  <2>5. \A k \in 1 .. n :
           LET d == Computed(Place(Ran(parts, slots, k - 1), slots[k], parts[k]), slots[k], parts[k], FALSE)
           IN  Sound(d) /\ \E w : Written(cells, batch, Taken(batch, k - 1), Taken(batch, k), d, w)
    <3> HIDE DEF n
    <3> QED BY <1>1, <1>2, <2>1, <2>2, WrittenRun
  <2> QED BY <2>3, <2>4, <2>5
<1>5. \A k \in 0 .. n : Taken(batch, k) \in 0 .. Len(batch)
  BY <1>2, SplitParts
<1>6. \A k \in 1 .. n : parts[k] \in Seq(Tokens)
  BY <1>2, ElementOfSeq DEF Parts
<1> HIDE DEF parts, slots, n
<1>7. ASSUME Accepts(batch), Prepare(cells, parts).fits, cells' = Ran(parts, slots, n)
      PROVE  Whole(cells')
  <2>1. GoesOn(cells, batch)
        /\ \E w : Written(cells, batch, Taken(batch, n), Taken(batch, n), Ran(parts, slots, n), w)
    BY <1>4, <1>7
  <2>2. Taken(batch, n) \in 0 .. Len(batch)
    BY <1>2, <1>5
  <2>3. Whole(Ran(parts, slots, n))
    BY <1>1, <1>2, <2>1, <2>2, WholeWritten
  <2> QED BY <1>7, <2>3
<1>8. ASSUME Accepts(batch), Prepare(cells, parts).fits,
             NEW k \in 1 .. n, cells' = FailedAt(parts, slots, k)
      PROVE  Whole(cells')
  <2> DEFINE d == Computed(Place(Ran(parts, slots, k - 1), slots[k], parts[k]), slots[k], parts[k], FALSE)
             from == From(parts[k])
  <2>1. /\ GoesOn(cells, batch) /\ Sound(d)
        /\ \E w : Written(cells, batch, Taken(batch, k - 1), Taken(batch, k), d, w)
    BY <1>4, <1>8
  <2>2. cells' = GivenBack(d, parts[k])
    BY <1>8 DEF FailedAt
  <2> HIDE DEF d
  <2>3. Taken(batch, k) \in 0 .. Len(batch)
    BY <1>2, <1>5
  <2>4. Whole(d)
    BY <1>1, <1>2, <2>1, <2>3, WholeWritten
  <2>5. from \in [Heads -> 0 .. NPos] /\ cells' = SeqRm(d, from)
    BY <1>6, <2>2, GivenBackFrom
  <2> HIDE DEF from
  <2>6. Whole(SeqRm(d, from))
    BY <2>1, <2>4, <2>5, WholeRemoved
  <2> QED BY <2>5, <2>6
<1> QED BY <1>3, <1>7, <1>8

LEMMA WholeNext ==
  ASSUME \A batch \in Batches : Ascending(batch), IInv, Whole(cells), [Next]_vars
  PROVE  Whole(cells')
<1>1. ASSUME NEW batch \in Batches, Decode(batch) PROVE Whole(cells')
  BY <1>1, WholeDecode
<1>2. ASSUME NEW p \in 0 .. NPos, DropFrom(p) PROVE Whole(cells')
  <2> DEFINE from == [s \in Heads |-> p]
  <2>1. from \in [Heads -> 0 .. NPos] /\ Sound(cells) /\ cells' = SeqRm(cells, from)
    BY <1>2 DEF IInv, DropFrom, Returns
  <2> HIDE DEF from
  <2>2. Whole(SeqRm(cells, from))
    BY <2>1, WholeRemoved
  <2> QED BY <2>1, <2>2
<1>3. CASE Clear
  BY <1>3 DEF Clear, Returns, NewCells, Whole, Holds
<1>4. CASE UNCHANGED vars
  BY <1>4 DEF vars
<1> QED BY <1>1, <1>2, <1>3, <1>4 DEF Next

\* Whatever is decoded, removed or fails, the positions of every sequence have
\* no gap and none is held twice, if the tokens of a sequence are ascending in
\* every batch (as fused_server fills them; llama_batch_allocr does not see to it).
THEOREM PositionsStayWhole ==
  ASSUME \A batch \in Batches : Ascending(batch)
  PROVE  Spec => []PositionsWhole
<1>1. Init => Whole(cells)
  BY DEF Init, NewCells, Whole, Holds
<1>2. ASSUME IInv, Whole(cells), [Next]_vars PROVE Whole(cells)'
  <2>1. Whole(cells')
    BY <1>2, WholeNext
  <2> QED BY <2>1 DEF Whole, Holds
<1>3. ASSUME IInv, Whole(cells) PROVE PositionsWhole
  <2> SUFFICES ASSUME NEW s \in Heads, Held(cells, s) # {},
                      NEW p \in PosMin(cells, s) .. PosMax(cells, s)
               PROVE  cells.count[s][p] = 1
    BY DEF PositionsWhole
  <2>0. Sound(cells)
    BY <1>3 DEF IInv
  <2> DEFINE lo == PosMin(cells, s)
             hi == PosMax(cells, s)
  <2>1. /\ Held(cells, s) = {cells.pos[i] : i \in Holds(cells, s)}
        /\ Holds(cells, s) # {} =>
             /\ lo \in Held(cells, s) /\ hi \in Held(cells, s) /\ lo \in Nat /\ hi \in Nat
    BY <2>0, HeldIs
  <2> HIDE DEF lo, hi
  <2>2. PICK x \in Holds(cells, s), y \in Holds(cells, s) : cells.pos[x] = lo /\ cells.pos[y] = hi
    BY <2>1
  <2>3. PICK l \in Holds(cells, s) : cells.pos[l] = p
    BY <1>3, <2>2 DEF Whole, lo, hi
  <2>4. p \in 0 .. NPos - 1
    BY <2>0, <2>3, HoldsPos
  <2>5. Where(cells, Index, s, p) = {l}
    BY <1>3, <2>3 DEF Whole, Where, Holds
  <2>6. cells.count[s][p] = Cardinality(Where(cells, Index, s, p))
    BY <2>0, <2>4 DEF Sound
  <2>7. Cardinality({l}) = 1
    BY FS_Singleton
  <2> QED BY <2>5, <2>6, <2>7
<1> QED BY <1>1, <1>2, <1>3, Invariant, PTL DEF Spec

(***************************************************************************)
(* The pool the cells amount to                                            *)
(***************************************************************************)

\* A cell and all that are in use, as KVCache counts them.
Content(c, i) == [pos |-> c.pos[i], tok |-> c.data[i], seqs |-> c.seq[i]]
Kv(c) == {Content(c, i) : i \in c.used}

LEMMA AsMany ==
  ASSUME NEW S, IsFiniteSet(S), NEW f, \A x, y \in S : f[x] = f[y] => x = y
  PROVE  /\ IsFiniteSet({f[x] : x \in S}) /\ Cardinality({f[x] : x \in S}) = Cardinality(S)
<1> DEFINE T == {f[x] : x \in S}
           g == [x \in S |-> f[x]]
<1>1. g \in [S -> T] /\ \A x \in S : g[x] = f[x]
  OBVIOUS
<1>2. \A t \in T : \E x \in S : g[x] = t
  OBVIOUS
<1>3. \A x, y \in S : g[x] = g[y] => x = y
  BY <1>1
<1> HIDE DEF g, T
<1>4. g \in Injection(S, T) /\ g \in Surjection(S, T)
  BY <1>1, <1>2, <1>3 DEF Injection, IsInjective, Surjection
<1>5. IsFiniteSet(T) /\ Cardinality(T) = Cardinality(S)
  BY <1>4, FS_Surjection
<1> QED BY <1>5 DEF T

LEMMA RegularAscends ==
  ASSUME NEW batch, Regular(batch)
  PROVE  Ascending(batch)
BY DEF Regular, Ascending

\* Different cells in use are different members of the pool.
LEMMA PoolSize ==
  ASSUME NEW c, Sound(c), Whole(c)
  PROVE  IsFiniteSet(Kv(c)) /\ Cardinality(Kv(c)) = Cardinality(c.used)
<1> DEFINE f == [i \in c.used |-> Content(c, i)]
<1>1. c.used \in SUBSET Index /\ IsFiniteSet(c.used)
  BY CellsFields, IndexFinite DEF Sound
<1>2. ASSUME NEW i \in c.used, NEW j \in c.used, f[i] = f[j] PROVE i = j
  <2>1. c.pos[i] = c.pos[j] /\ c.seq[i] = c.seq[j]
    BY <1>2 DEF Content
  <2>2. c.seq[i] # {} /\ c.seq[i] \in SUBSET Heads /\ i \in Index /\ j \in Index
    BY <1>1, CellsFields DEF Sound
  <2>3. PICK s \in Heads : s \in c.seq[i]
    BY <2>2
  <2>4. i \in Holds(c, s) /\ j \in Holds(c, s)
    BY <2>1, <2>2, <2>3 DEF Holds
  <2> QED BY <2>1, <2>4 DEF Whole
<1>3. {f[i] : i \in c.used} = Kv(c)
  BY DEF Kv
<1> HIDE DEF f
<1>4. /\ IsFiniteSet({f[i] : i \in c.used})
      /\ Cardinality({f[i] : i \in c.used}) = Cardinality(c.used)
  BY <1>1, <1>2, AsMany
<1> QED BY <1>3, <1>4

LEMMA BatchSize ==
  ASSUME NEW batch \in Seq(Tokens), Regular(batch)
  PROVE  Cardinality(Pool!Part(batch, 1, Len(batch))) = Len(batch)
<1> DEFINE S == 1 .. Len(batch)
<1>1. Len(batch) \in Nat /\ DOMAIN batch = S /\ \A k \in S : batch[k] \in Tokens
  BY LenProperties, ElementOfSeq
<1>2. IsFiniteSet(S) /\ Cardinality(S) = Len(batch)
  <2> DEFINE n == Len(batch)
  <2>1. n \in Nat
    BY <1>1
  <2> HIDE DEF n
  <2>2. IsFiniteSet(1 .. n) /\ Cardinality(1 .. n) = n
    BY <2>1, FS_Interval
  <2> QED BY <2>2 DEF n
<1>3. ASSUME NEW j \in S, NEW k \in S, batch[j] = batch[k] PROVE j = k
  <2>1. batch[j].seqs \cap batch[k].seqs # {}
    BY <1>1, <1>3 DEF Tokens
  <2>2. batch[j].pos = batch[k].pos /\ batch[j].pos \in Nat
    BY <1>1, <1>3, SizesAssumption DEF Tokens
  <2>3. /\ j < k => batch[j].pos < batch[k].pos
        /\ k < j => batch[k].pos < batch[j].pos
    BY <1>1, <2>1 DEF Regular
  <2>4. j \in Int /\ k \in Int
    BY <1>1
  <2> QED BY <2>2, <2>3, <2>4
<1> HIDE DEF S
<1>4. Cardinality({batch[k] : k \in S}) = Cardinality(S)
  BY <1>2, <1>3, AsMany
<1> QED BY <1>2, <1>4 DEF S, Pool!Part

\* As many cells more are in use as tokens were written.
LEMMA UsedWritten ==
  ASSUME NEW c, Sound(c), NEW d, Sound(d), NEW batch \in Seq(Tokens), NEW a,
         NEW n \in 0 .. Len(batch), NEW w, Written(c, batch, a, n, d, w)
  PROVE  Cardinality(d.used) = Cardinality(c.used) + n
<1> DEFINE S == 1 .. n
           W == {w[j] : j \in S}
<1>1. n \in Nat /\ \A j \in S : j \in 1 .. Len(batch)
  BY LenProperties
<1>2. IsFiniteSet(S) /\ Cardinality(S) = n
  BY <1>1, FS_Interval
<1>3. \A j, k \in S : w[j] = w[k] => j = k
  BY DEF Written
<1>4. Cardinality(W) = n
  <2> HIDE DEF S
  <2> QED BY <1>2, <1>3, AsMany
<1>5. W \in SUBSET Index /\ W \cap c.used = {}
  BY DEF Written, FreeCells, Sound
<1>6. c.used \in SUBSET Index
  BY CellsFields DEF Sound
<1>7. d.used = c.used \cup W
  <2>1. \A i \in Index : d.pos[i] # Empty <=> i \in c.used \/ i \in W
    <3> SUFFICES ASSUME NEW i \in Index
                 PROVE  d.pos[i] # Empty <=> i \in c.used \/ i \in W
      OBVIOUS
    <3>1. CASE i \in W
      <4>1. PICK j \in S : w[j] = i
        BY <3>1
      <4>2. d.pos[i] = batch[j].pos /\ batch[j] \in Tokens
        BY <1>1, <4>1, ElementOfSeq DEF Written
      <4>3. d.pos[i] # Empty
        BY <4>2, SizesAssumption DEF Tokens, Empty
      <4> QED BY <3>1, <4>3
    <3>2. CASE i \notin W
      <4>1. d.pos[i] = c.pos[i]
        BY <3>2 DEF Written
      <4> QED BY <3>2, <4>1 DEF Sound
    <3> QED BY <3>1, <3>2
  <2>2. d.used = {i \in Index : d.pos[i] # Empty}
    BY DEF Sound
  <2> HIDE DEF W
  <2> QED BY <1>5, <1>6, <2>1, <2>2
<1> HIDE DEF W
<1>8. Cardinality(c.used \cup W) = Cardinality(c.used) + Cardinality(W)
  BY <1>5, <1>6, Apart
<1> QED BY <1>4, <1>7, <1>8

\* A batch fits in its parts just if it fits.
LEMMA FitsIfRoom ==
  ASSUME Sound(cells), NEW batch \in Batches
  PROVE  Prepare(cells, Split(batch)).fits <=> Cardinality(cells.used) + Len(batch) <= NCells
<1> DEFINE parts == Split(batch)
           n == Len(parts)
           p == Prepare(cells, parts)
           u == Cardinality(cells.used)
           t(k) == Taken(batch, k)
<1>1. batch \in Seq(Tokens) /\ Len(batch) \in Nat \ {0} /\ parts \in Parts /\ n \in Nat \ {0}
  BY DecodeFacts
<1>2. PICK q : \E m \in 0 .. n :
              /\ Follow(cells, parts, p.slots, q, m)
              /\ p.fits => m = n
              /\ ~p.fits => m < n /\ Cardinality(q[m].used) + Len(parts[m + 1]) > NCells
  <2> HIDE DEF parts
  <2>1. \E q : \E m \in 0 .. n :
          /\ Follow(cells, parts, p.slots, q, m)
          /\ p.fits => m = n
          /\ ~p.fits => m < n /\ Cardinality(q[m].used) + Len(parts[m + 1]) > NCells
    BY <1>1, Prepared
  <2> QED BY <2>1
<1>3. PICK m \in 0 .. n :
         /\ Follow(cells, parts, p.slots, q, m)
         /\ p.fits => m = n
         /\ ~p.fits => m < n /\ Cardinality(q[m].used) + Len(parts[m + 1]) > NCells
  BY <1>2
<1>4. /\ t(0) = 0 /\ t(n) = Len(batch) /\ \A k \in 0 .. n : t(k) \in 0 .. Len(batch)
      /\ \A k \in 1 .. n : t(k - 1) < t(k) /\ parts[k] = SubSeq(batch, t(k - 1) + 1, t(k))
  BY <1>1, SplitParts
<1>5. m \in 0 .. Len(Split(batch)) /\ m \in 0 .. m
  BY <1>1
<1>6. \E w : Written(cells, batch, t(m), t(m), Ran(parts, p.slots, m), w)
  <2> DEFINE slots == p.slots
  <2>1. Follow(cells, parts, slots, q, m)
    BY <1>3
  <2> HIDE DEF slots
  <2> QED BY <1>1, <1>5, <2>1, WrittenRun DEF slots
<1>7. /\ Sound(q[m]) /\ Sound(Ran(parts, p.slots, m)) /\ Ran(parts, p.slots, m).pos = q[m].pos
  <2> DEFINE slots == p.slots
  <2>1. Follow(cells, parts, slots, q, m) /\ Sound(q[m])
    BY <1>3, <1>5 DEF Follow
  <2>2. m \in 0 .. Len(parts)
    OBVIOUS
  <2> HIDE DEF slots, parts
  <2>3. Sound(Ran(parts, slots, m)) /\ Ran(parts, slots, m).pos = q[m].pos
    BY <1>1, <1>5, <2>1, <2>2, RanSound
  <2> QED BY <2>1, <2>3 DEF slots
<1>8. Cardinality(q[m].used) = u + t(m) /\ u \in Nat /\ Cardinality(q[m].used) <= NCells
  <2> DEFINE r == Ran(parts, p.slots, m)
  <2>1. Sound(r) /\ r.pos = q[m].pos /\ \E w : Written(cells, batch, t(m), t(m), r, w)
    BY <1>6, <1>7
  <2>2. t(m) \in 0 .. Len(batch)
    BY <1>4
  <2> HIDE DEF r, t
  <2>3. Cardinality(r.used) = u + t(m)
    BY <1>1, <2>1, <2>2, UsedWritten
  <2>4. r.used = q[m].used
    BY <1>7, <2>1 DEF Sound
  <2>5. u \in Nat /\ Cardinality(q[m].used) <= NCells
    <3>1. u \in Nat
      BY FreeAndUsed
    <3>2. /\ Cardinality(FreeCells(q[m])) + Cardinality(q[m].used) = NCells
          /\ Cardinality(FreeCells(q[m])) \in Nat /\ Cardinality(q[m].used) \in Nat
      BY <1>7, FreeAndUsed
    <3> QED BY <3>1, <3>2
  <2> QED BY <2>3, <2>4, <2>5
<1>9. CASE p.fits
  BY <1>3, <1>4, <1>8, <1>9
<1>10. CASE ~p.fits
  <2>1. m < n /\ Cardinality(q[m].used) + Len(parts[m + 1]) > NCells
    BY <1>3, <1>10
  <2>2. m + 1 \in 1 .. n /\ (m + 1) - 1 = m /\ m \in 0 .. n /\ m + 1 \in 0 .. n
    BY <1>1, <2>1
  <2>3. /\ t(m) \in 0 .. Len(batch) /\ t(m + 1) \in 0 .. Len(batch) /\ t(m) < t(m + 1)
        /\ parts[m + 1] = SubSeq(batch, t(m) + 1, t(m + 1))
    BY <1>4, <2>2
  <2> HIDE DEF t
  <2>4. Len(parts[m + 1]) = t(m + 1) - t(m)
    BY <1>1, <2>3, PartOf
  <2>a. Len(batch) \in Nat /\ t(m) \in Nat /\ t(m + 1) \in Nat
    BY <1>1, <2>3
  <2>b. Cardinality(q[m].used) + (t(m + 1) - t(m)) > NCells
    BY <2>1, <2>4
  <2>5. u + t(m + 1) > NCells
    BY <1>8, <2>a, <2>b, SizesAssumption
  <2>6. ~ (u + Len(batch) <= NCells)
    BY <1>8, <2>a, <2>3, <2>5, SizesAssumption
  <2> QED BY <1>10, <2>6
<1> QED BY <1>9, <1>10

\* What the pool knows of a sequence.
LEMMA PoolHolds ==
  ASSUME NEW c, Sound(c), NEW s \in Heads
  PROVE  /\ Pool!Positions(Kv(c), s) = {c.pos[i] : i \in Holds(c, s)}
         /\ Pool!Positions(Kv(c), s) = Held(c, s)
<1>1. c.used \in SUBSET Index
  BY CellsFields DEF Sound
<1>2. \A i \in Index : i \in Holds(c, s) => i \in c.used
  BY HoldsPos DEF Sound
<1>3. Pool!Positions(Kv(c), s) = {c.pos[i] : i \in Holds(c, s)}
  <2>1. ASSUME NEW p \in Pool!Positions(Kv(c), s) PROVE \E i \in Holds(c, s) : c.pos[i] = p
    <3>1. PICK x \in Kv(c) : s \in x.seqs /\ x.pos = p
      BY <2>1 DEF Pool!Positions
    <3>2. PICK i \in c.used : x = Content(c, i)
      BY <3>1 DEF Kv
    <3> QED BY <1>1, <3>1, <3>2 DEF Content, Holds
  <2>2. ASSUME NEW i \in Holds(c, s) PROVE c.pos[i] \in Pool!Positions(Kv(c), s)
    <3>1. i \in c.used /\ s \in c.seq[i]
      BY <1>2 DEF Holds
    <3>2. Content(c, i) \in Kv(c) /\ s \in Content(c, i).seqs /\ Content(c, i).pos = c.pos[i]
      BY <3>1 DEF Kv, Content
    <3> QED BY <3>2 DEF Pool!Positions
  <2> QED BY <2>1, <2>2
<1> QED BY <1>3, HeldIs

LEMMA PoolAdds ==
  ASSUME NEW batch \in Seq(Tokens), NEW s
  PROVE  Pool!Positions(Pool!Part(batch, 1, Len(batch)), s) = {batch[k].pos : k \in Adds(batch, s)}
<1>1. DOMAIN batch = 1 .. Len(batch)
  BY LenProperties
<1> QED BY <1>1 DEF Pool!Positions, Pool!Part, Adds

LEMMA SpanOfPool ==
  ASSUME Sound(cells), NEW s \in Heads, NEW t \in Heads
  PROVE  Pool!SameSpan(Kv(cells), s, t) <=>
           PosMin(cells, s) = PosMin(cells, t) /\ PosMax(cells, s) = PosMax(cells, t)
<1> DEFINE S == Held(cells, s)
           T == Held(cells, t)
           lo(x) == PosMin(cells, x)
           hi(x) == PosMax(cells, x)
<1>1. Pool!SameSpan(Kv(cells), s, t) <=>
        \/ S = {} /\ T = {}
        \/ \E l \in S \cap T, h \in S \cap T : \A p \in S \cup T : l <= p /\ p <= h
  BY PoolHolds DEF Pool!SameSpan
<1>2. /\ S = {} => lo(s) = -1 /\ hi(s) = -1
      /\ S # {} => /\ lo(s) \in S /\ hi(s) \in S /\ lo(s) \in Nat /\ hi(s) \in Nat
                   /\ \A p \in S : lo(s) <= p /\ p <= hi(s)
      /\ S \subseteq Nat
  <2>1. S = {} <=> Holds(cells, s) = {}
    BY HeldIs
  <2>2. S \subseteq Nat
    BY SizesAssumption DEF Held
  <2> QED BY <2>1, <2>2, HeldIs
<1>3. /\ T = {} => lo(t) = -1 /\ hi(t) = -1
      /\ T # {} => /\ lo(t) \in T /\ hi(t) \in T /\ lo(t) \in Nat /\ hi(t) \in Nat
                   /\ \A p \in T : lo(t) <= p /\ p <= hi(t)
      /\ T \subseteq Nat
  <2>1. T = {} <=> Holds(cells, t) = {}
    BY HeldIs
  <2>2. T \subseteq Nat
    BY SizesAssumption DEF Held
  <2> QED BY <2>1, <2>2, HeldIs
<1> HIDE DEF S, T, lo, hi
<1>4. ASSUME lo(s) = lo(t), hi(s) = hi(t), ~ (S = {} /\ T = {})
      PROVE  \E l \in S \cap T, h \in S \cap T : \A p \in S \cup T : l <= p /\ p <= h
  <2>1. S # {} /\ T # {}
    BY <1>2, <1>3, <1>4
  <2>2. lo(s) \in S \cap T /\ hi(s) \in S \cap T /\ \A p \in S \cup T : lo(s) <= p /\ p <= hi(s)
    BY <1>2, <1>3, <1>4, <2>1
  <2> QED BY <2>2
<1>5. ASSUME NEW l \in S \cap T, NEW h \in S \cap T, \A p \in S \cup T : l <= p /\ p <= h
      PROVE  lo(s) = lo(t) /\ hi(s) = hi(t)
  <2>1. lo(s) = l /\ hi(s) = h
    BY <1>2, <1>5
  <2>2. T # {} /\ lo(t) \in T /\ hi(t) \in T /\ lo(t) \in Nat /\ hi(t) \in Nat
    BY <1>3
  <2>3. l \in T /\ h \in T /\ l \in Nat /\ h \in Nat
    BY <1>3
  <2>4. lo(t) <= l /\ h <= hi(t)
    BY <1>3, <2>3
  <2>5. l <= lo(t) /\ hi(t) <= h
    BY <1>5, <2>2
  <2>6. lo(t) = l /\ hi(t) = h
    BY <2>2, <2>3, <2>4, <2>5
  <2> QED BY <2>1, <2>6
<1>6. S = {} /\ T = {} => lo(s) = lo(t) /\ hi(s) = hi(t)
  BY <1>2, <1>3
<1> QED BY <1>1, <1>4, <1>5, <1>6 DEF lo, hi

\* The positions a regular batch adds to a sequence.
LEMMA AddedSpan ==
  ASSUME NEW batch \in Seq(Tokens), Regular(batch), NEW s, Adds(batch, s) # {}
  PROVE  LET N == {batch[k].pos : k \in Adds(batch, s)}
         IN  /\ N \in SUBSET Nat /\ Min(N) \in N /\ \A n \in N : Min(N) <= n
             /\ Max(N) - Min(N) + 1 <= Cardinality(N)
<1> DEFINE N == {batch[k].pos : k \in Adds(batch, s)}
<1>1. \A k \in Adds(batch, s) : batch[k].pos \in Nat /\ batch[k].pos \in 0 .. NPos - 1
  BY AddsPos
<1>2. N \in SUBSET Nat /\ N # {} /\ NPos \in Nat /\ \A n \in N : n <= NPos
  BY <1>1, SizesAssumption
<1>3. \A j, k \in Adds(batch, s) : \A p \in batch[j].pos .. batch[k].pos : p \in N
  <2> SUFFICES ASSUME NEW j \in Adds(batch, s), NEW k \in Adds(batch, s),
                      NEW p \in batch[j].pos .. batch[k].pos
               PROVE  p \in N
    OBVIOUS
  <2>1. PICK l \in DOMAIN batch : batch[l].seqs = batch[j].seqs /\ batch[l].pos = p
    BY DEF Regular, Adds
  <2>2. l \in Adds(batch, s)
    BY <2>1 DEF Adds
  <2> QED BY <2>1, <2>2
<1>4. \A n \in N : \E k \in Adds(batch, s) : batch[k].pos = n
  OBVIOUS
<1> HIDE DEF N
<1>5. Min(N) \in N /\ Max(N) \in N /\ \A n \in N : Min(N) <= n /\ n <= Max(N)
  BY <1>2, MinOf, MaxOf
<1> DEFINE lo == Min(N)
           hi == Max(N)
<1>6. lo \in Nat /\ hi \in Nat /\ lo <= hi
  BY <1>2, <1>5
<1>7. lo .. hi \subseteq N
  <2>1. PICK j \in Adds(batch, s), k \in Adds(batch, s) : batch[j].pos = lo /\ batch[k].pos = hi
    BY <1>4, <1>5
  <2> HIDE DEF lo, hi
  <2> QED BY <1>3, <2>1
<1> HIDE DEF lo, hi
<1>8. IsFiniteSet(N)
  BY <1>2, FS_BoundedSetOfNaturals
<1>9. Cardinality(lo .. hi) = hi - lo + 1 /\ Cardinality(lo .. hi) <= Cardinality(N)
  <2>1. Cardinality(lo .. hi) = hi - lo + 1
    BY <1>6, FS_Interval
  <2>2. Cardinality(lo .. hi) <= Cardinality(N)
    BY <1>7, <1>8, FS_Subset
  <2> QED BY <2>1, <2>2
<1>10. hi - lo + 1 <= Cardinality(N)
  BY <1>9
<1> QED BY <1>2, <1>5, <1>10 DEF N, lo, hi

\* The checks of llama_batch_allocr are those of the pool.
LEMMA AcceptsIfConsistent ==
  ASSUME Sound(cells), NEW batch \in Seq(Tokens), Regular(batch)
  PROVE  Accepts(batch) <=> Pool!Consistent(Kv(cells), Pool!Part(batch, 1, Len(batch)))
<1> DEFINE all == Pool!Part(batch, 1, Len(batch))
           N(s) == {batch[k].pos : k \in Adds(batch, s)}
           lo(s) == PosMin(cells, s)
           hi(s) == PosMax(cells, s)
           \* The conditions on a sequence that is added to, in both.
           Next1(s) == hi(s) >= 0 => Min(N(s)) = hi(s) + 1
           Dense(s) == Max(N(s)) - Min(N(s)) + 1 <= Cardinality(N(s))
           Same(s, t) == lo(s) = lo(t) /\ hi(s) = hi(t)
<1>1. \A k \in DOMAIN batch : batch[k] \in Tokens /\ batch[k].seqs \in SUBSET Heads
                              /\ FirstSeq(batch[k]) \in batch[k].seqs
  <2> SUFFICES ASSUME NEW k \in DOMAIN batch
               PROVE  batch[k] \in Tokens /\ batch[k].seqs \in SUBSET Heads
                      /\ FirstSeq(batch[k]) \in batch[k].seqs
    OBVIOUS
  <2>1. batch[k] \in Tokens
    BY LenProperties, ElementOfSeq
  <2> QED BY <2>1, LeastSeq DEF Tokens
<1>2. DOMAIN batch = 1 .. Len(batch)
  BY LenProperties
<1>3. \A s : {batch[k].pos : k \in {j \in DOMAIN batch : s \in batch[j].seqs}} = N(s)
  BY DEF Adds
<1>4. Accepts(batch) <=>
        /\ \A s \in Heads : N(s) # {} => Next1(s) /\ Dense(s)
        /\ \A k \in DOMAIN batch : \A s \in batch[k].seqs : Same(s, FirstSeq(batch[k]))
  <2> HIDE DEF N
  <2> QED BY <1>3 DEF Accepts
<1>5. ASSUME NEW s \in Heads, Adds(batch, s) # {}
      PROVE  /\ Dense(s) /\ N(s) # {}
             /\ Pool!Follows(Kv(cells), all, s) <=> Next1(s)
  <2> DEFINE M == N(s)
             H == Held(cells, s)
             top == hi(s)
  <2>1. /\ M \in SUBSET Nat /\ Min(M) \in M /\ \A n \in M : Min(M) <= n
        /\ Max(M) - Min(M) + 1 <= Cardinality(M)
    BY <1>5, AddedSpan
  <2>2. Pool!Positions(Kv(cells), s) = H /\ Pool!Positions(all, s) = M
    BY PoolHolds, PoolAdds
  <2>3. /\ H = {} => top = -1
        /\ H # {} => top \in H /\ top \in Nat /\ \A p \in H : p <= top
        /\ H \subseteq Nat
    <3>1. H = {} <=> Holds(cells, s) = {}
      BY HeldIs
    <3>2. H \subseteq Nat
      BY SizesAssumption DEF Held
    <3> QED BY <3>1, <3>2, HeldIs
  <2>4. Pool!Follows(Kv(cells), all, s) <=>
          \/ H = {}
          \/ \E last \in H : /\ \A p \in H : p <= last
                             /\ last + 1 \in M /\ \A p \in M : last < p
    <3> HIDE DEF H, M, all
    <3> QED BY <2>2 DEF Pool!Follows
  <2> HIDE DEF M, H, top
  <2>5. ASSUME H # {}, top >= 0 => Min(M) = top + 1
        PROVE  \E last \in H : /\ \A p \in H : p <= last
                               /\ last + 1 \in M /\ \A p \in M : last < p
    <3>1. top \in H /\ top \in Nat /\ \A p \in H : p <= top
      BY <2>3, <2>5
    <3>2. Min(M) = top + 1
      BY <2>5, <3>1
    <3>3. \A p \in M : top < p
      BY <2>1, <3>1, <3>2
    <3> QED BY <2>1, <3>1, <3>2, <3>3
  <2>6. ASSUME NEW last \in H, \A p \in H : p <= last, last + 1 \in M, \A p \in M : last < p, top >= 0
        PROVE  Min(M) = top + 1
    <3>1. top \in H /\ top \in Nat /\ last = top
      BY <2>3, <2>6
    <3>2. Min(M) <= top + 1 /\ top < Min(M) /\ Min(M) \in Nat
      BY <2>1, <2>6, <3>1
    <3> QED BY <3>1, <3>2
  <2>7. H = {} => ~ (top >= 0)
    BY <2>3
  <2>8. M # {}
    BY <2>1
  <2> QED BY <2>1, <2>4, <2>5, <2>6, <2>7, <2>8 DEF M, top
<1>6. \A s : N(s) # {} <=> Adds(batch, s) # {}
  OBVIOUS
<1>7. \A s \in Heads, t \in Heads : Pool!SameSpan(Kv(cells), s, t) <=> Same(s, t)
  BY SpanOfPool
<1>8. Pool!Consistent(Kv(cells), all) <=>
        \A k \in DOMAIN batch : \A s \in batch[k].seqs :
          /\ Pool!Follows(Kv(cells), all, s)
          /\ \A t \in batch[k].seqs : Pool!SameSpan(Kv(cells), s, t)
  <2>1. all = {batch[k] : k \in DOMAIN batch}
    BY <1>2 DEF Pool!Part
  <2>2. Pool!Consistent(Kv(cells), all) <=>
          \A b \in all, s \in Heads : s \in b.seqs =>
            /\ Pool!Follows(Kv(cells), all, s)
            /\ \A t \in b.seqs : Pool!SameSpan(Kv(cells), s, t)
    BY DEF Pool!Consistent, Pool!Heads, Heads
  <2> HIDE DEF all
  <2> QED BY <1>1, <2>1, <2>2
<1> HIDE DEF all, N, Next1, Dense, Same
<1>9. ASSUME Accepts(batch) PROVE Pool!Consistent(Kv(cells), all)
  <2> SUFFICES ASSUME NEW k \in DOMAIN batch, NEW s \in batch[k].seqs
               PROVE  /\ Pool!Follows(Kv(cells), all, s)
                      /\ \A t \in batch[k].seqs : Pool!SameSpan(Kv(cells), s, t)
    BY <1>8
  <2>1. s \in Heads /\ Adds(batch, s) # {}
    BY <1>1 DEF Adds
  <2>2. Pool!Follows(Kv(cells), all, s)
    BY <1>4, <1>5, <1>9, <2>1
  <2>3. ASSUME NEW t \in batch[k].seqs PROVE Pool!SameSpan(Kv(cells), s, t)
    <3>1. Same(s, FirstSeq(batch[k])) /\ Same(t, FirstSeq(batch[k]))
      BY <1>4, <1>9
    <3>2. Same(s, t)
      BY <3>1 DEF Same
    <3> QED BY <1>1, <1>7, <3>2
  <2> QED BY <2>2, <2>3
<1>10. ASSUME Pool!Consistent(Kv(cells), all) PROVE Accepts(batch)
  <2>1. ASSUME NEW s \in Heads, N(s) # {} PROVE Next1(s) /\ Dense(s)
    <3>1. PICK k \in DOMAIN batch : s \in batch[k].seqs
      BY <1>6, <2>1 DEF Adds
    <3>2. Pool!Follows(Kv(cells), all, s)
      BY <1>8, <1>10, <3>1
    <3> QED BY <1>5, <1>6, <2>1, <3>2
  <2>2. ASSUME NEW k \in DOMAIN batch, NEW s \in batch[k].seqs PROVE Same(s, FirstSeq(batch[k]))
    <3>1. FirstSeq(batch[k]) \in batch[k].seqs /\ s \in Heads /\ FirstSeq(batch[k]) \in Heads
      BY <1>1
    <3> QED BY <1>7, <1>8, <1>10, <3>1
  <2> QED BY <1>4, <2>1, <2>2
<1> QED BY <1>9, <1>10 DEF all

\* A token whose tensors a failed graph left behind.
Lost(t) == [pos |-> t.pos, tok |-> Spoilt, seqs |-> t.seqs]

\* The cells in use after tokens were written.
LEMMA WrittenCells ==
  ASSUME NEW c, Sound(c), NEW d, Sound(d), NEW batch \in Seq(Tokens), NEW a,
         NEW n \in 0 .. Len(batch), NEW w, Written(c, batch, a, n, d, w)
  PROVE  /\ c.used \in SUBSET Index /\ \A j \in 1 .. n : w[j] \in Index \ c.used
         /\ d.used = c.used \cup {w[j] : j \in 1 .. n}
<1> DEFINE W == {w[j] : j \in 1 .. n}
<1>1. \A j \in 1 .. n : j \in 1 .. Len(batch)
  BY LenProperties
<1>2. \A j \in 1 .. n : w[j] \in Index \ c.used
  BY DEF Written, FreeCells, Sound
<1>3. c.used \in SUBSET Index
  BY CellsFields DEF Sound
<1>4. ASSUME NEW i \in Index
      PROVE  d.pos[i] # Empty <=> i \in c.used \/ i \in W
  <2>1. CASE i \in W
    <3>1. PICK j \in 1 .. n : w[j] = i
      BY <2>1
    <3>2. d.pos[i] = batch[j].pos /\ batch[j] \in Tokens
      BY <1>1, <3>1, ElementOfSeq DEF Written
    <3>3. d.pos[i] # Empty
      BY <3>2, SizesAssumption DEF Tokens, Empty
    <3> QED BY <2>1, <3>3
  <2>2. CASE i \notin W
    <3>1. d.pos[i] = c.pos[i]
      BY <2>2 DEF Written
    <3> QED BY <2>2, <3>1 DEF Sound
  <2> QED BY <2>1, <2>2
<1>5. d.used = {i \in Index : d.pos[i] # Empty} /\ W \subseteq Index
  BY <1>2 DEF Sound
<1> HIDE DEF W
<1>6. d.used = c.used \cup W
  BY <1>3, <1>4, <1>5
<1> QED BY <1>2, <1>3, <1>6 DEF W

\* What a batch, computed up to token a and placed up to token n, adds.
LEMMA KvWritten ==
  ASSUME NEW c, Sound(c), NEW d, Sound(d), NEW batch \in Seq(Tokens),
         NEW n \in 0 .. Len(batch), NEW a \in 0 .. n, NEW w, Written(c, batch, a, n, d, w)
  PROVE  Kv(d) = Kv(c) \cup Pool!Part(batch, 1, a) \cup {Lost(batch[j]) : j \in a + 1 .. n}
<1>1. /\ c.used \in SUBSET Index /\ \A j \in 1 .. n : w[j] \in Index \ c.used
      /\ d.used = c.used \cup {w[j] : j \in 1 .. n}
  BY WrittenCells
<1>2. ASSUME NEW i \in c.used
      PROVE  Content(d, i) = Content(c, i)
  <2>1. i \in Index /\ \A j \in 1 .. n : w[j] # i
    BY <1>1
  <2>2. d.pos[i] = c.pos[i] /\ d.seq[i] = c.seq[i] /\ d.data[i] = c.data[i]
    BY <2>1 DEF Written
  <2> QED BY <2>2 DEF Content
<1>3. ASSUME NEW j \in 1 .. n
      PROVE  Content(d, w[j]) = IF j <= a THEN batch[j] ELSE Lost(batch[j])
  <2>1. j \in 1 .. Len(batch)
    BY LenProperties
  <2>2. batch[j] \in Tokens
    BY <2>1, ElementOfSeq
  <2>3. batch[j] = [pos |-> batch[j].pos, tok |-> batch[j].tok, seqs |-> batch[j].seqs]
    BY <2>2 DEF Tokens
  <2>4. /\ d.pos[w[j]] = batch[j].pos /\ d.seq[w[j]] = batch[j].seqs
        /\ d.data[w[j]] = IF j <= a THEN batch[j].tok ELSE Spoilt
    BY DEF Written
  <2>5. CASE j <= a
    <3>1. Content(d, w[j]) = [pos |-> batch[j].pos, tok |-> batch[j].tok, seqs |-> batch[j].seqs]
      BY <2>4, <2>5 DEF Content
    <3> QED BY <2>3, <2>5, <3>1
  <2>6. CASE ~ (j <= a)
    BY <2>4, <2>6 DEF Content, Lost
  <2> QED BY <2>5, <2>6
<1>4. n \in Nat /\ a \in Nat /\ a <= n
  BY LenProperties
<1>5. Kv(d) = {Content(d, i) : i \in c.used} \cup {Content(d, w[j]) : j \in 1 .. n}
  BY <1>1 DEF Kv
<1>6. {Content(d, i) : i \in c.used} = Kv(c)
  BY <1>2 DEF Kv
<1>7. {Content(d, w[j]) : j \in 1 .. n}
        = Pool!Part(batch, 1, a) \cup {Lost(batch[j]) : j \in a + 1 .. n}
  <2>1. ASSUME NEW j \in 1 .. n
        PROVE  Content(d, w[j]) \in Pool!Part(batch, 1, a) \cup {Lost(batch[k]) : k \in a + 1 .. n}
    <3>1. j \in 1 .. a \/ (j \in a + 1 .. n /\ ~ (j <= a))
      BY <1>4
    <3> QED BY <1>3, <3>1 DEF Pool!Part
  <2>2. ASSUME NEW j \in 1 .. a PROVE j \in 1 .. n /\ Content(d, w[j]) = batch[j]
    BY <1>3, <1>4
  <2>3. ASSUME NEW j \in a + 1 .. n PROVE j \in 1 .. n /\ Content(d, w[j]) = Lost(batch[j])
    BY <1>3, <1>4
  <2> QED BY <2>1, <2>2, <2>3 DEF Pool!Part
<1> QED BY <1>5, <1>6, <1>7

\* What removing positions leaves of a member of the pool.
Left(x, from) == {s \in x.seqs : x.pos < from[s]}
Keeps(x, from) == [pos |-> x.pos, tok |-> x.tok, seqs |-> Left(x, from)]

LEMMA KvRemoved ==
  ASSUME NEW c, Sound(c), NEW from \in [Heads -> 0 .. NPos]
  PROVE  Kv(SeqRm(c, from)) = {Keeps(x, from) : x \in {y \in Kv(c) : Left(y, from) # {}}}
<1> DEFINE d == SeqRm(c, from)
           left(i) == {s \in c.seq[i] : c.pos[i] < from[s]}
<1>1. /\ Sound(d) /\ d.data = c.data
      /\ d.pos = [i \in Index |-> IF left(i) = {} THEN Empty ELSE c.pos[i]]
      /\ d.seq = [i \in Index |-> left(i)]
  BY SeqRmSound
<1> HIDE DEF d
<1>2. c.used \in SUBSET Index /\ d.used \in SUBSET Index
  BY <1>1, CellsFields DEF Sound
<1>3. ASSUME NEW i \in Index
      PROVE  /\ left(i) = Left(Content(c, i), from)
             /\ i \in d.used <=> i \in c.used /\ left(i) # {}
             /\ i \in d.used => Content(d, i) = Keeps(Content(c, i), from)
  <2>1. left(i) = Left(Content(c, i), from)
    BY DEF Left, Content
  <2>2. i \in d.used <=> d.seq[i] # {}
    BY <1>1 DEF Sound
  <2>3. i \in c.used <=> c.seq[i] # {}
    BY DEF Sound
  <2>4. d.seq[i] = left(i) /\ left(i) \subseteq c.seq[i]
    BY <1>1
  <2>5. left(i) # {} => d.pos[i] = c.pos[i]
    BY <1>1
  <2> HIDE DEF left
  <2>6. i \in d.used => Content(d, i) = Keeps(Content(c, i), from)
    BY <1>1, <2>1, <2>2, <2>4, <2>5 DEF Content, Keeps
  <2> QED BY <2>1, <2>2, <2>3, <2>4, <2>6
<1> HIDE DEF left
<1>4. ASSUME NEW i \in d.used
      PROVE  Content(d, i) \in {Keeps(x, from) : x \in {y \in Kv(c) : Left(y, from) # {}}}
  <2>1. i \in c.used /\ Left(Content(c, i), from) # {} /\ Content(d, i) = Keeps(Content(c, i), from)
    BY <1>2, <1>3
  <2>2. Content(c, i) \in Kv(c)
    BY <2>1 DEF Kv
  <2> QED BY <2>1, <2>2
<1>5. ASSUME NEW x \in Kv(c), Left(x, from) # {}
      PROVE  Keeps(x, from) \in Kv(d)
  <2>1. PICK i \in c.used : x = Content(c, i)
    BY DEF Kv
  <2>2. i \in d.used /\ Content(d, i) = Keeps(x, from)
    BY <1>2, <1>3, <1>5, <2>1
  <2> QED BY <2>2 DEF Kv
<1>6. Kv(d) = {Content(d, i) : i \in d.used}
  BY DEF Kv
<1>7. Kv(d) = {Keeps(x, from) : x \in {y \in Kv(c) : Left(y, from) # {}}}
  BY <1>4, <1>5, <1>6
<1> QED BY <1>7 DEF d

\* Members of the pool have sequences and positions.
LEMMA KvMembers ==
  ASSUME NEW c, Sound(c), NEW x \in Kv(c)
  PROVE  /\ x = [pos |-> x.pos, tok |-> x.tok, seqs |-> x.seqs]
         /\ x.pos \in Nat /\ x.pos < NPos /\ x.seqs # {} /\ x.seqs \subseteq Heads
         /\ \A s \in x.seqs : \E i \in Holds(c, s) : c.pos[i] = x.pos
<1>1. PICK i \in c.used : x = Content(c, i)
  BY DEF Kv
<1>2. i \in Index /\ c.pos[i] # Empty /\ c.seq[i] # {}
  BY CellsFields DEF Sound
<1>3. c.pos[i] \in 0 .. NPos - 1 \cup {Empty} /\ c.seq[i] \in SUBSET Heads
  BY <1>2, CellsFields DEF Sound
<1>4. c.pos[i] \in Nat /\ c.pos[i] < NPos
  BY <1>2, <1>3, SizesAssumption
<1> QED BY <1>1, <1>2, <1>3, <1>4 DEF Content, Holds

\* llama_memory_seq_rm for every sequence is SeqRmAll.
LEMMA KvDropped ==
  ASSUME NEW c, Sound(c), NEW p \in 0 .. NPos
  PROVE  Kv(SeqRm(c, [s \in Heads |-> p])) = Pool!SeqRmAll(Kv(c), p)
<1> DEFINE from == [s \in Heads |-> p]
<1>1. from \in [Heads -> 0 .. NPos] /\ \A s \in Heads : from[s] = p
  OBVIOUS
<1> HIDE DEF from
<1>2. Kv(SeqRm(c, from)) = {Keeps(x, from) : x \in {y \in Kv(c) : Left(y, from) # {}}}
  BY <1>1, KvRemoved
<1>3. ASSUME NEW x \in Kv(c)
      PROVE  /\ Left(x, from) # {} <=> x.pos < p
             /\ x.pos < p => Keeps(x, from) = x
  <2>1. /\ x = [pos |-> x.pos, tok |-> x.tok, seqs |-> x.seqs]
        /\ x.seqs # {} /\ x.seqs \subseteq Heads
    BY KvMembers
  <2>2. Left(x, from) = IF x.pos < p THEN x.seqs ELSE {}
    BY <1>1, <2>1 DEF Left
  <2> QED BY <2>1, <2>2 DEF Keeps
<1>4. Kv(SeqRm(c, from)) = {x \in Kv(c) : x.pos < p}
  BY <1>2, <1>3
<1> QED BY <1>4 DEF from, Pool!SeqRmAll

\* What a failed graph leaves: the part it belongs to is given back, but a token
\* with several sequences loses the first of them only.
LEMMA KvGivenBack ==
  ASSUME NEW c, Sound(c), NEW d, Sound(d), NEW batch \in Seq(Tokens), Regular(batch),
         GoesOn(c, batch), NEW a \in 0 .. Len(batch), NEW b \in 0 .. Len(batch), a < b,
         NEW w, Written(c, batch, a, b, d, w)
  PROVE  Kv(GivenBack(d, SubSeq(batch, a + 1, b)))
           = Kv(c) \cup Pool!Part(batch, 1, a) \cup Pool!LeftBehind(Pool!Part(batch, a + 1, b))
<1> DEFINE part == SubSeq(batch, a + 1, b)
           from == From(part)
           old == Kv(c) \cup Pool!Part(batch, 1, a)
           lost == {Lost(batch[j]) : j \in a + 1 .. b}
<1>1. /\ Len(batch) \in Nat /\ a \in Nat /\ b \in Nat /\ a \in 0 .. b /\ DOMAIN batch = 1 .. Len(batch)
      /\ \A j \in 1 .. Len(batch) : batch[j] \in Tokens
  BY LenProperties, ElementOfSeq
<1>2. /\ part \in Seq(Tokens) /\ Len(part) = b - a
      /\ \A j \in a + 1 .. b : part[j - a] = batch[j]
  BY PartOf
<1>3. DOMAIN part = 1 .. b - a
  BY <1>2, LenProperties
<1> HIDE DEF part
<1>4. /\ GivenBack(d, part) = SeqRm(d, from) /\ from \in [Heads -> 0 .. NPos]
      /\ \A k \in DOMAIN part : from[FirstSeq(part[k])] <= part[k].pos
      /\ \A s \in Heads : \/ from[s] = NPos
                          \/ \E k \in DOMAIN part : FirstSeq(part[k]) = s /\ part[k].pos = from[s]
  BY <1>2, GivenBackFrom
<1> HIDE DEF from
<1>5. /\ \A j \in a + 1 .. b : from[FirstSeq(batch[j])] <= batch[j].pos
      /\ \A s \in Heads : \/ from[s] = NPos
                          \/ \E k \in a + 1 .. b : FirstSeq(batch[k]) = s /\ batch[k].pos = from[s]
  <2>1. ASSUME NEW j \in a + 1 .. b PROVE from[FirstSeq(batch[j])] <= batch[j].pos
    <3>1. j - a \in DOMAIN part /\ part[j - a] = batch[j]
      BY <1>1, <1>2, <1>3
    <3> QED BY <1>4, <3>1
  <2>2. ASSUME NEW k \in DOMAIN part
        PROVE  \E j \in a + 1 .. b : part[k] = batch[j]
    <3>1. k + a \in a + 1 .. b /\ (k + a) - a = k
      BY <1>1, <1>3
    <3>2. part[(k + a) - a] = batch[k + a]
      BY <1>2, <3>1
    <3> QED BY <3>1, <3>2
  <2> QED BY <1>4, <2>1, <2>2
<1>6. Kv(d) = old \cup lost
  BY <1>1, KvWritten
<1>7. Kv(GivenBack(d, part)) = {Keeps(x, from) : x \in {y \in Kv(d) : Left(y, from) # {}}}
  BY <1>4, KvRemoved
<1>8. \A j \in 1 .. Len(batch) : /\ FirstSeq(batch[j]) \in batch[j].seqs
                                 /\ batch[j].seqs \subseteq Heads /\ batch[j].seqs # {}
                                 /\ batch[j] = [pos |-> batch[j].pos, tok |-> batch[j].tok, seqs |-> batch[j].seqs]
  BY <1>1, LeastSeq DEF Tokens
<1>9. /\ NPos \in Nat
      /\ \A s \in Heads : from[s] \in Nat /\ from[s] <= NPos
      /\ \A j \in 1 .. Len(batch) : batch[j].pos \in Nat /\ batch[j].pos < NPos
  <2>1. NPos \in Nat
    BY SizesAssumption
  <2>2. ASSUME NEW s \in Heads PROVE from[s] \in Nat /\ from[s] <= NPos
    <3>1. from[s] \in 0 .. NPos
      BY <1>4
    <3> QED BY <2>1, <3>1
  <2>3. ASSUME NEW j \in 1 .. Len(batch) PROVE batch[j].pos \in Nat /\ batch[j].pos < NPos
    <3>1. batch[j].pos \in 0 .. NPos - 1
      BY <1>1 DEF Tokens
    <3> QED BY <2>1, <3>1
  <2> QED BY <2>1, <2>2, <2>3
\* Cells from before the batch are all in front of it.
<1>10. ASSUME NEW x \in Kv(c) PROVE Left(x, from) # {} /\ Keeps(x, from) = x
  <2>1. /\ x = [pos |-> x.pos, tok |-> x.tok, seqs |-> x.seqs]
        /\ x.pos \in Nat /\ x.pos < NPos /\ x.seqs # {} /\ x.seqs \subseteq Heads
        /\ \A s \in x.seqs : \E i \in Holds(c, s) : c.pos[i] = x.pos
    BY KvMembers
  <2>2. ASSUME NEW s \in x.seqs PROVE x.pos < from[s]
    <3>1. CASE from[s] = NPos
      BY <1>9, <2>1, <3>1
    <3>2. CASE from[s] # NPos
      <4>1. PICK k \in a + 1 .. b : FirstSeq(batch[k]) = s /\ batch[k].pos = from[s]
        BY <1>5, <2>1, <3>2
      <4>2. k \in 1 .. Len(batch)
        BY <1>1
      <4>3. k \in Adds(batch, s) /\ s \in Heads
        BY <1>1, <1>8, <2>1, <4>1, <4>2 DEF Adds
      <4>4. PICK i \in Holds(c, s) : c.pos[i] = x.pos
        BY <2>1
      <4>5. c.pos[i] < batch[k].pos
        BY <4>3 DEF GoesOn
      <4> QED BY <4>1, <4>4, <4>5
    <3> QED BY <3>1, <3>2
  <2>3. Left(x, from) = x.seqs
    BY <2>2 DEF Left
  <2> QED BY <2>1, <2>3 DEF Keeps
\* So are the tokens of the parts computed before.
<1>11. ASSUME NEW j \in 1 .. a PROVE Left(batch[j], from) # {} /\ Keeps(batch[j], from) = batch[j]
  <2>1. j \in 1 .. Len(batch)
    BY <1>1
  <2>2. ASSUME NEW s \in batch[j].seqs PROVE batch[j].pos < from[s]
    <3>1. s \in Heads
      BY <1>8, <2>1
    <3>2. CASE from[s] = NPos
      BY <1>8, <1>9, <2>1, <3>2
    <3>3. CASE from[s] # NPos
      <4>1. PICK k \in a + 1 .. b : FirstSeq(batch[k]) = s /\ batch[k].pos = from[s]
        BY <1>5, <3>1, <3>3
      <4>2. k \in 1 .. Len(batch) /\ j < k
        BY <1>1
      <4>3. batch[j].seqs \cap batch[k].seqs # {}
        BY <1>8, <4>1, <4>2
      <4> QED BY <1>1, <2>1, <4>1, <4>2, <4>3 DEF Regular
    <3> QED BY <3>2, <3>3
  <2>3. Left(batch[j], from) = batch[j].seqs
    BY <2>2 DEF Left
  <2> QED BY <1>8, <2>1, <2>3 DEF Keeps
\* A token of the part that failed loses its first sequence.
<1>12. ASSUME NEW j \in a + 1 .. b
       PROVE  /\ Left(Lost(batch[j]), from) = batch[j].seqs \ {FirstSeq(batch[j])}
              /\ Keeps(Lost(batch[j]), from) = [pos |-> batch[j].pos, tok |-> Spoilt,
                                                seqs |-> batch[j].seqs \ {FirstSeq(batch[j])}]
  <2>1. j \in 1 .. Len(batch)
    BY <1>1
  <2>2. ASSUME NEW s \in batch[j].seqs
        PROVE  batch[j].pos < from[s] <=> s # FirstSeq(batch[j])
    <3>1. s \in Heads /\ batch[j].pos \in Nat /\ batch[j].pos < NPos /\ from[s] \in Nat
      BY <1>8, <1>9, <2>1
    <3>2. CASE s = FirstSeq(batch[j])
      <4>1. from[s] <= batch[j].pos
        BY <1>5, <3>2
      <4> QED BY <3>1, <3>2, <4>1
    <3>3. ASSUME s # FirstSeq(batch[j]), from[s] # NPos PROVE FALSE
      <4>1. PICK k \in a + 1 .. b : FirstSeq(batch[k]) = s
        BY <1>5, <3>1, <3>3
      <4>2. k \in 1 .. Len(batch)
        BY <1>1
      <4>3. batch[j].seqs \cap batch[k].seqs # {}
        BY <1>8, <4>1, <4>2
      <4>4. batch[j].seqs = batch[k].seqs
        BY <1>1, <2>1, <4>2, <4>3 DEF Regular
      <4>5. FirstSeq(batch[j]) = FirstSeq(batch[k])
        BY <4>4 DEF FirstSeq
      <4> QED BY <3>3, <4>1, <4>5
    <3> QED BY <3>1, <3>2, <3>3
  <2>3. Left(Lost(batch[j]), from) = batch[j].seqs \ {FirstSeq(batch[j])}
    BY <2>2 DEF Left, Lost
  <2>4. Lost(batch[j]).pos = batch[j].pos /\ Lost(batch[j]).tok = Spoilt
    BY DEF Lost
  <2> QED BY <2>3, <2>4 DEF Keeps
<1>13. \A j \in 1 .. Len(batch) : Pool!FirstSeq(batch[j]) = FirstSeq(batch[j])
  <2> SUFFICES ASSUME NEW j \in 1 .. Len(batch) PROVE Pool!FirstSeq(batch[j]) = FirstSeq(batch[j])
    OBVIOUS
  <2> DEFINE S == batch[j].seqs
             low == FirstSeq(batch[j])
  <2>1. low \in S /\ S \subseteq Nat /\ \A s \in S : low <= s
    BY <1>1, <1>8, LeastSeq, SizesAssumption DEF Heads
  <2>2. Pool!FirstSeq(batch[j]) = CHOOSE h \in S : \A k \in S : h <= k
    BY DEF Pool!FirstSeq
  <2> HIDE DEF S, low
  <2>3. \A h \in S : (\A k \in S : h <= k) <=> h = low
    BY <2>1
  <2>4. (CHOOSE h \in S : \A k \in S : h <= k) = low
    BY <2>1, <2>3
  <2> QED BY <2>2, <2>4 DEF low
<1>14. Pool!LeftBehind(Pool!Part(batch, a + 1, b))
         = {Keeps(x, from) : x \in {y \in lost : Left(y, from) # {}}}
  <2> DEFINE P == Pool!Part(batch, a + 1, b)
  <2>1. P = {batch[j] : j \in a + 1 .. b} /\ \A j \in a + 1 .. b : j \in 1 .. Len(batch)
    BY <1>1 DEF Pool!Part
  <2>2. Pool!LeftBehind(P) = {[pos |-> t.pos, tok |-> Spoilt, seqs |-> t.seqs \ {Pool!FirstSeq(t)}] :
                                t \in {u \in P : u.seqs # {Pool!FirstSeq(u)}}}
    BY DEF Pool!LeftBehind
  <2> HIDE DEF P
  <2>3. ASSUME NEW j \in a + 1 .. b
        PROVE  /\ batch[j] \in P /\ Lost(batch[j]) \in lost
               /\ batch[j].seqs # {Pool!FirstSeq(batch[j])} <=> Left(Lost(batch[j]), from) # {}
               /\ Keeps(Lost(batch[j]), from) = [pos |-> batch[j].pos, tok |-> Spoilt,
                                                 seqs |-> batch[j].seqs \ {Pool!FirstSeq(batch[j])}]
    <3>1. Pool!FirstSeq(batch[j]) = FirstSeq(batch[j]) /\ FirstSeq(batch[j]) \in batch[j].seqs
      BY <1>8, <1>13, <2>1
    <3> QED BY <1>12, <2>1, <3>1
  <2>4. \A t \in P : \E j \in a + 1 .. b : t = batch[j]
    BY <2>1
  <2>5. \A x \in lost : \E j \in a + 1 .. b : x = Lost(batch[j])
    OBVIOUS
  <2> HIDE DEF lost
  <2>6. ASSUME NEW t \in P, t.seqs # {Pool!FirstSeq(t)}
        PROVE  [pos |-> t.pos, tok |-> Spoilt, seqs |-> t.seqs \ {Pool!FirstSeq(t)}]
                 \in {Keeps(x, from) : x \in {y \in lost : Left(y, from) # {}}}
    <3>1. PICK j \in a + 1 .. b : t = batch[j]
      BY <2>4
    <3> QED BY <2>3, <2>6, <3>1
  <2>7. ASSUME NEW x \in lost, Left(x, from) # {}
        PROVE  Keeps(x, from) \in {[pos |-> t.pos, tok |-> Spoilt, seqs |-> t.seqs \ {Pool!FirstSeq(t)}] :
                                     t \in {u \in P : u.seqs # {Pool!FirstSeq(u)}}}
    <3>1. PICK j \in a + 1 .. b : x = Lost(batch[j])
      BY <2>5
    <3> QED BY <2>3, <2>7, <3>1
  <2>8. Pool!LeftBehind(P) = {Keeps(x, from) : x \in {y \in lost : Left(y, from) # {}}}
    BY <2>2, <2>6, <2>7
  <2> QED BY <2>8 DEF P
<1>15. \A x \in old : Left(x, from) # {} /\ Keeps(x, from) = x
  BY <1>10, <1>11 DEF Pool!Part
<1> HIDE DEF old, lost
<1>16. Kv(GivenBack(d, part)) = old \cup {Keeps(x, from) : x \in {y \in lost : Left(y, from) # {}}}
  BY <1>6, <1>7, <1>15
<1>17. Kv(GivenBack(d, part)) = old \cup Pool!LeftBehind(Pool!Part(batch, a + 1, b))
  BY <1>14, <1>16
<1> QED BY <1>17 DEF old, part

\* The pool that LlamaContext says its cells are.
LEMMA PoolIs ==
  ASSUME NEW c, Sound(c)
  PROVE  {[pos |-> c.pos[i], tok |-> c.data[i], seqs |-> c.seq[i]] :
            i \in {j \in Index : c.pos[j] # Empty}} = Kv(c)
<1>1. c.used = {j \in Index : c.pos[j] # Empty}
  BY DEF Sound
<1> QED BY <1>1 DEF Kv, Content

\* What a batch may come to, said of the cells.
Outcome(batch, code, pool) == [rc |-> code, kv |-> pool] \in Pool!Outcomes(batch)

LEMMA OutcomesAre ==
  ASSUME Sound(cells), NEW batch \in Seq(Tokens)
  PROVE  LET n     == Len(batch)
             all   == Pool!Part(batch, 1, n)
             fine  == Pool!Consistent(Kv(cells), all)
             room  == Pool!HasRoom(Kv(cells), all)
         IN  /\ ~fine => Outcome(batch, "inconsistent", Kv(cells))
             /\ fine /\ ~room => Outcome(batch, "full", Kv(cells))
             /\ (fine /\ room) =>
                  /\ Outcome(batch, "ok", Kv(cells) \cup all)
                  /\ Outcome(batch, "failed", Kv(cells))
                  /\ \A i \in 0 .. n - 1 : \A j \in i + 1 .. n :
                       Outcome(batch, "failed", Kv(cells) \cup Pool!Part(batch, 1, i)
                                                  \cup Pool!LeftBehind(Pool!Part(batch, i + 1, j)))
<1> DEFINE kv == {[pos |-> cells.pos[i], tok |-> cells.data[i], seqs |-> cells.seq[i]] :
                    i \in {j \in Index : cells.pos[j] # Empty}}
           n   == Len(batch)
           all == Pool!Part(batch, 1, n)
           part(i, j) == kv \cup Pool!Part(batch, 1, i) \cup Pool!LeftBehind(Pool!Part(batch, i + 1, j))
           fine == Pool!Consistent(kv, all)
           room == Pool!HasRoom(kv, all)
           failed(i) == {[rc |-> "failed", kv |-> part(i, j)] : j \in i + 1 .. n}
           parts == UNION {failed(i) : i \in 0 .. n - 1}
<1>1. Pool!Outcomes(batch)
        = IF ~fine THEN {[rc |-> "inconsistent", kv |-> kv]}
          ELSE IF ~room THEN {[rc |-> "full", kv |-> kv]}
          ELSE {[rc |-> "ok", kv |-> kv \cup all], [rc |-> "failed", kv |-> kv]} \cup parts
  BY DEF Pool!Outcomes
<1>2. kv = Kv(cells)
  BY PoolIs
<1> HIDE DEF kv, all
<1>3. \A i \in 0 .. n - 1 : \A j \in i + 1 .. n : [rc |-> "failed", kv |-> part(i, j)] \in parts
  <2>1. \A i : \A j \in i + 1 .. n : [rc |-> "failed", kv |-> part(i, j)] \in failed(i)
    OBVIOUS
  <2> HIDE DEF failed
  <2>2. \A i \in 0 .. n - 1 : failed(i) \subseteq parts
    OBVIOUS
  <2> QED BY <2>1, <2>2
<1> HIDE DEF parts, fine, room, part, failed
<1>4. /\ ~fine => Outcome(batch, "inconsistent", kv)
      /\ fine /\ ~room => Outcome(batch, "full", kv)
      /\ (fine /\ room) =>
           /\ Outcome(batch, "ok", kv \cup all)
           /\ Outcome(batch, "failed", kv)
           /\ \A i \in 0 .. n - 1 : \A j \in i + 1 .. n : Outcome(batch, "failed", part(i, j))
  BY <1>1, <1>3 DEF Outcome
<1> QED BY <1>2, <1>4 DEF fine, room, all, part

LEMMA OutcomeIsStep ==
  ASSUME Sound(cells), Sound(cells'), NEW batch \in Batches, Outcome(batch, rc', Kv(cells'))
  PROVE  Pool!DecodeBatch
<1>1. PICK d \in Pool!Outcomes(batch) : d.kv = Kv(cells') /\ d.rc = rc'
  BY DEF Outcome
<1>2. {[pos |-> cells'.pos[i], tok |-> cells'.data[i], seqs |-> cells'.seq[i]] :
         i \in {j \in Index : cells'.pos[j] # Empty}} = Kv(cells')
  BY PoolIs
<1> QED BY <1>1, <1>2 DEF Pool!DecodeBatch

\* KVPool counts with a FiniteSets of its own.
LEMMA SameCount == \A S : Pool!Cardinality(S) = Cardinality(S)
BY DEF Pool!Cardinality, Cardinality

\* What a call of llama_decode comes to, said of the pool.
Comes(batch, kv) ==
  LET all  == Pool!Part(batch, 1, Len(batch))
      fine == Pool!Consistent(Kv(cells), all)
      room == Pool!HasRoom(Kv(cells), all)
  IN  \/ ~fine /\ rc' = "inconsistent" /\ kv = Kv(cells)
      \/ fine /\ ~room /\ rc' = "full" /\ kv = Kv(cells)
      \/ fine /\ room /\ rc' = "ok" /\ kv = Kv(cells) \cup all
      \/ fine /\ room /\ rc' = "failed" /\ kv = Kv(cells)
      \/ fine /\ room /\ rc' = "failed" /\ \E k \in 1 .. Len(Split(batch)) :
           kv = Kv(cells) \cup Pool!Part(batch, 1, Taken(batch, k - 1))
                  \cup Pool!LeftBehind(Pool!Part(batch, Taken(batch, k - 1) + 1, Taken(batch, k)))

LEMMA DecodeComes ==
  ASSUME IInv, IInv', Whole(cells), NEW batch \in Batches, Regular(batch), Decode(batch)
  PROVE  Sound(cells) /\ Sound(cells') /\ Comes(batch, Kv(cells'))
<1> DEFINE parts == Split(batch)
           n == Len(parts)
           slots == Prepare(cells, parts).slots
           m == Len(batch)
           all == Pool!Part(batch, 1, m)
           t(k) == Taken(batch, k)
<1>1. Sound(cells) /\ Sound(cells')
  <2>1. Sound(cells)'
    BY DEF IInv
  <2> QED BY <2>1 DEF IInv, Sound, Where, Cells
<1>2. /\ batch \in Seq(Tokens) /\ m \in Nat \ {0} /\ parts \in Parts /\ n \in Nat \ {0}
      /\ t(n) = m /\ Prepare(cells, parts).cells = cells
  BY <1>1, DecodeFacts
<1>3. Accepts(batch) <=> Pool!Consistent(Kv(cells), all)
  BY <1>1, <1>2, AcceptsIfConsistent
<1>4. Prepare(cells, parts).fits <=> Pool!HasRoom(Kv(cells), all)
  <2>1. Cardinality(Kv(cells)) = Cardinality(cells.used)
    BY <1>1, PoolSize
  <2>2. Cardinality(all) = m
    BY <1>2, BatchSize
  <2>3. Prepare(cells, parts).fits <=> Cardinality(cells.used) + m <= NCells
    BY <1>1, FitsIfRoom
  <2> HIDE DEF m, all, parts
  <2>4. Pool!HasRoom(Kv(cells), all) <=> Cardinality(Kv(cells)) + Cardinality(all) <= NCells
    BY SameCount DEF Pool!HasRoom
  <2> QED BY <2>1, <2>2, <2>3, <2>4
<1>6. \A k \in 0 .. n : t(k) \in 0 .. m
  BY <1>2, SplitParts
<1>7. \A k \in 1 .. n : t(k - 1) < t(k) /\ parts[k] = SubSeq(batch, t(k - 1) + 1, t(k))
  BY <1>2, SplitParts
<1>8. ASSUME Accepts(batch), Prepare(cells, parts).fits
      PROVE  /\ GoesOn(cells, batch)
             /\ \E w : Written(cells, batch, t(n), t(n), Ran(parts, slots, n), w)
             /\ \A k \in 1 .. n :
                  LET d == Computed(Place(Ran(parts, slots, k - 1), slots[k], parts[k]), slots[k], parts[k], FALSE)
                  IN  Sound(d) /\ \E w : Written(cells, batch, t(k - 1), t(k), d, w)
  <2>1. PICK q : Follow(cells, parts, slots, q, n)
    BY <1>1, <1>8, DecodeFacts
  <2>2. n \in 0 .. Len(Split(batch)) /\ n \in 0 .. n
    BY <1>2
  <2>3. GoesOn(cells, batch)
    BY <1>1, <1>2, <1>8, AcceptsGoesOn
  <2> HIDE DEF slots
  <2>4. \E w : Written(cells, batch, Taken(batch, n), Taken(batch, n), Ran(parts, slots, n), w)
    <3> HIDE DEF n
    <3> QED BY <1>1, <1>2, <2>1, <2>2, WrittenRun
  <2>5. \A k \in 1 .. n :
           LET d == Computed(Place(Ran(parts, slots, k - 1), slots[k], parts[k]), slots[k], parts[k], FALSE)
           IN  Sound(d) /\ \E w : Written(cells, batch, Taken(batch, k - 1), Taken(batch, k), d, w)
    <3> HIDE DEF n
    <3> QED BY <1>1, <1>2, <2>1, <2>2, WrittenRun
  <2> QED BY <2>3, <2>4, <2>5
<1> DEFINE fine == Pool!Consistent(Kv(cells), all)
           room == Pool!HasRoom(Kv(cells), all)
<1>9. SUFFICES
        \/ ~fine /\ rc' = "inconsistent" /\ Kv(cells') = Kv(cells)
        \/ fine /\ ~room /\ rc' = "full" /\ Kv(cells') = Kv(cells)
        \/ fine /\ room /\ rc' = "ok" /\ Kv(cells') = Kv(cells) \cup all
        \/ fine /\ room /\ rc' = "failed" /\ Kv(cells') = Kv(cells)
        \/ fine /\ room /\ rc' = "failed" /\ \E k \in 1 .. n :
             Kv(cells') = Kv(cells) \cup Pool!Part(batch, 1, t(k - 1))
                            \cup Pool!LeftBehind(Pool!Part(batch, t(k - 1) + 1, t(k)))
  BY <1>1 DEF Comes
<1> HIDE DEF parts, n, slots, m, all, fine, room
<1>10. CASE ~Accepts(batch) /\ Returns("inconsistent", cells, hidden)
  BY <1>3, <1>10 DEF Returns, fine
<1>11. CASE Accepts(batch) /\ ~Prepare(cells, parts).fits /\ Returns("full", cells, hidden)
  BY <1>3, <1>4, <1>11 DEF Returns, fine, room
<1>12. CASE Accepts(batch) /\ Prepare(cells, parts).fits /\ Returns("failed", cells, hidden)
  BY <1>3, <1>4, <1>12 DEF Returns, fine, room
<1>13. ASSUME Accepts(batch), Prepare(cells, parts).fits, rc' = "ok", cells' = Ran(parts, slots, n)
       PROVE  fine /\ room /\ Kv(cells') = Kv(cells) \cup all
  <2>1. PICK w : Written(cells, batch, t(n), t(n), cells', w)
    BY <1>8, <1>13
  <2>2. t(n) \in 0 .. Len(batch) /\ t(n) \in 0 .. t(n) /\ t(n) \in Nat
    BY <1>2, <1>6 DEF m
  <2>3. Kv(cells') = Kv(cells) \cup Pool!Part(batch, 1, t(n)) \cup {Lost(batch[j]) : j \in t(n) + 1 .. t(n)}
    <3> DEFINE a == t(n)
    <3>1. Written(cells, batch, a, a, cells', w) /\ a \in 0 .. Len(batch) /\ a \in 0 .. a
      BY <2>1, <2>2
    <3> HIDE DEF a
    <3>2. Kv(cells') = Kv(cells) \cup Pool!Part(batch, 1, a) \cup {Lost(batch[j]) : j \in a + 1 .. a}
      BY <1>1, <1>2, <3>1, KvWritten
    <3> QED BY <3>2 DEF a
  <2>4. t(n) + 1 .. t(n) = {}
    BY <2>2
  <2>5. Kv(cells') = Kv(cells) \cup all
    BY <1>2, <2>3, <2>4 DEF all
  <2> QED BY <1>3, <1>4, <1>13, <2>5 DEF fine, room
<1>14. ASSUME Accepts(batch), Prepare(cells, parts).fits, NEW k \in 1 .. n,
              rc' = "failed", cells' = FailedAt(parts, slots, k)
       PROVE  fine /\ room
              /\ Kv(cells') = Kv(cells) \cup Pool!Part(batch, 1, t(k - 1))
                                \cup Pool!LeftBehind(Pool!Part(batch, t(k - 1) + 1, t(k)))
  <2> DEFINE d == Computed(Place(Ran(parts, slots, k - 1), slots[k], parts[k]), slots[k], parts[k], FALSE)
             a == t(k - 1)
             b == t(k)
  <2>1. Sound(d) /\ GoesOn(cells, batch) /\ \E w : Written(cells, batch, a, b, d, w)
    BY <1>8, <1>14
  <2>2. cells' = GivenBack(d, parts[k])
    BY <1>14 DEF FailedAt
  <2>3. k - 1 \in 0 .. n /\ k \in 0 .. n
    BY <1>2
  <2>4. /\ a \in 0 .. Len(batch) /\ b \in 0 .. Len(batch) /\ a < b
        /\ parts[k] = SubSeq(batch, a + 1, b)
    BY <1>6, <1>7, <2>3 DEF m
  <2> HIDE DEF d, a, b
  <2>5. Kv(cells') = Kv(cells) \cup Pool!Part(batch, 1, a) \cup Pool!LeftBehind(Pool!Part(batch, a + 1, b))
    BY <1>1, <1>2, <2>1, <2>2, <2>4, KvGivenBack
  <2> QED BY <1>3, <1>4, <1>14, <2>5 DEF a, b, fine, room
<1>15. \/ ~Accepts(batch) /\ Returns("inconsistent", cells, hidden)
       \/ Accepts(batch) /\ ~Prepare(cells, parts).fits /\ Returns("full", cells, hidden)
       \/ Accepts(batch) /\ Prepare(cells, parts).fits /\ Returns("failed", cells, hidden)
       \/ Accepts(batch) /\ Prepare(cells, parts).fits
          /\ \E k \in 1 .. n : Returns("failed", FailedAt(parts, slots, k), Copied(parts, k - 1))
       \/ Accepts(batch) /\ Prepare(cells, parts).fits /\ rc' = "ok" /\ cells' = Ran(parts, slots, n)
  <2> USE DEF parts, n, slots
  <2> QED BY <1>2 DEF Decode
<1> QED BY <1>10, <1>11, <1>12, <1>13, <1>14, <1>15 DEF Returns

\* The step of the pool that a call of llama_decode is.
LEMMA DecodeStep ==
  ASSUME IInv, IInv', Whole(cells), NEW batch \in Batches, Regular(batch), Decode(batch)
  PROVE  Pool!DecodeBatch
<1> DEFINE n == Len(Split(batch))
           m == Len(batch)
           all == Pool!Part(batch, 1, m)
           t(k) == Taken(batch, k)
           fine == Pool!Consistent(Kv(cells), all)
           room == Pool!HasRoom(Kv(cells), all)
           part(i, j) == Kv(cells) \cup Pool!Part(batch, 1, i)
                                   \cup Pool!LeftBehind(Pool!Part(batch, i + 1, j))
<1>1. Sound(cells) /\ Sound(cells') /\ Comes(batch, Kv(cells'))
  BY DecodeComes
<1>2. batch \in Seq(Tokens) /\ m \in Nat \ {0} /\ n \in Nat \ {0}
  BY <1>1, DecodeFacts
<1>3. /\ ~fine => Outcome(batch, "inconsistent", Kv(cells))
      /\ fine /\ ~room => Outcome(batch, "full", Kv(cells))
      /\ (fine /\ room) =>
           /\ Outcome(batch, "ok", Kv(cells) \cup all)
           /\ Outcome(batch, "failed", Kv(cells))
           /\ \A i \in 0 .. m - 1 : \A j \in i + 1 .. m : Outcome(batch, "failed", part(i, j))
  BY <1>1, <1>2, OutcomesAre
<1>4. \/ ~fine /\ rc' = "inconsistent" /\ Kv(cells') = Kv(cells)
      \/ fine /\ ~room /\ rc' = "full" /\ Kv(cells') = Kv(cells)
      \/ fine /\ room /\ rc' = "ok" /\ Kv(cells') = Kv(cells) \cup all
      \/ fine /\ room /\ rc' = "failed" /\ Kv(cells') = Kv(cells)
      \/ fine /\ room /\ rc' = "failed" /\ \E k \in 1 .. n : Kv(cells') = part(t(k - 1), t(k))
  BY <1>1 DEF Comes
<1>5. ASSUME NEW k \in 1 .. n
      PROVE  t(k - 1) \in 0 .. m - 1 /\ t(k) \in t(k - 1) + 1 .. m
  <2>1. k - 1 \in 0 .. n /\ k \in 0 .. n
    BY <1>2
  <2>2. t(k - 1) \in 0 .. m /\ t(k) \in 0 .. m /\ t(k - 1) < t(k)
    BY <1>2, <2>1, SplitParts
  <2> HIDE DEF t, m
  <2> QED BY <1>2, <2>2
<1> HIDE DEF n, m, all, t, fine, room, part
<1>6. Outcome(batch, rc', Kv(cells'))
  BY <1>3, <1>4, <1>5
<1> QED BY <1>1, <1>6, OutcomeIsStep

\* The cells, with the search for free ones, the counters beside them, prepare
\* and what it takes back, and what a failed graph gives back, are the pool of
\* KVCache: every call is a step of KVPool.  In every batch tokens that share a
\* sequence must have all sequences in common, in the order of their positions.
THEOREM CellsAreThePool ==
  ASSUME \A batch \in Batches : Regular(batch)
  PROVE  Spec => ImplementsPool
<1> DEFINE kv == {[pos |-> cells.pos[i], tok |-> cells.data[i], seqs |-> cells.seq[i]] :
                    i \in {j \in Index : cells.pos[j] # Empty}}
<1>1. \A batch \in Batches : Ascending(batch)
  BY RegularAscends
<1>2. Init => Whole(cells)
  BY DEF Init, NewCells, Whole, Holds
<1>3. ASSUME IInv, Whole(cells), [Next]_vars PROVE Whole(cells)'
  <2>1. Whole(cells')
    BY <1>1, <1>3, WholeNext
  <2> QED BY <2>1 DEF Whole, Holds
<1>4. ASSUME Init PROVE Pool!Init
  BY <1>4 DEF Init, NewCells, Pool!Init
<1>5. ASSUME IInv, IInv', Whole(cells), [Next]_vars
      PROVE  [Pool!Next]_<<kv, rc>>
  <2>1. Sound(cells) /\ Sound(cells')
    <3>1. Sound(cells)'
      BY <1>5 DEF IInv
    <3> QED BY <1>5, <3>1 DEF IInv, Sound, Where, Cells
  <2>2. kv = Kv(cells) /\ kv' = Kv(cells')
    BY <2>1, PoolIs
  <2>3. ASSUME NEW batch \in Batches, Decode(batch) PROVE Pool!Next
    <3>1. Regular(batch)
      OBVIOUS
    <3>2. Pool!DecodeBatch
      BY <1>5, <2>3, <3>1, DecodeStep
    <3> QED BY <3>2 DEF Pool!Next
  <2>4. ASSUME NEW p \in 0 .. NPos, DropFrom(p) PROVE Pool!Next
    <3>1. cells' = SeqRm(cells, [s \in Heads |-> p]) /\ rc' = "none"
      BY <2>4 DEF DropFrom, Returns
    <3>2. Kv(cells') = Pool!SeqRmAll(Kv(cells), p)
      BY <2>1, <3>1, KvDropped
    <3>3. kv' = Pool!SeqRmAll(kv, p)
      BY <2>2, <3>2
    <3>4. Pool!Drop
      BY <3>1, <3>3 DEF Pool!Drop
    <3> QED BY <3>4 DEF Pool!Next
  <2>5. ASSUME Clear PROVE Pool!Next
    <3>1. cells' = NewCells /\ rc' = "none"
      BY <2>5 DEF Clear, Returns
    <3>2. kv' = {}
      BY <3>1 DEF NewCells
    <3> QED BY <3>1, <3>2 DEF Pool!Clear, Pool!Next
  <2>6. CASE UNCHANGED vars
    <3>1. cells' = cells /\ rc' = rc
      BY <2>6 DEF vars
    <3> QED BY <3>1
  <2> HIDE DEF kv
  <2> QED BY <1>5, <2>3, <2>4, <2>5, <2>6 DEF Next
<1> QED BY <1>2, <1>3, <1>4, <1>5, Invariant, PTL DEF Spec, ImplementsPool, Pool!Spec

\* If no batch has more than n_ubatch tokens, every llama_decode is one of the
\* outcomes KVCache!Decode has for it: what SimpleToolDecode takes for a call on
\* ctx_simpletool, whose n_ubatch is its n_batch, is what the cells do.
THEOREM DecodesAtOnce ==
  ASSUME \A batch \in Batches : Regular(batch) /\ Len(batch) <= NUbatch
  PROVE  Spec => [][rc' # "none" => \E batch \in Batches :
           [rc |-> rc', kv |-> Kv(cells')]
             \in Pool!Decode(Kv(cells), Pool!Part(batch, 1, Len(batch)))]_vars
<1>1. \A batch \in Batches : Ascending(batch)
  BY RegularAscends
<1>2. Init => Whole(cells)
  BY DEF Init, NewCells, Whole, Holds
<1>3. ASSUME IInv, Whole(cells), [Next]_vars PROVE Whole(cells)'
  <2>1. Whole(cells')
    BY <1>1, <1>3, WholeNext
  <2> QED BY <2>1 DEF Whole, Holds
<1>4. ASSUME IInv, IInv', Whole(cells), [Next]_vars, ~ UNCHANGED vars, rc' # "none"
      PROVE  \E batch \in Batches : [rc |-> rc', kv |-> Kv(cells')]
               \in Pool!Decode(Kv(cells), Pool!Part(batch, 1, Len(batch)))
  <2>1. PICK batch \in Batches : Decode(batch)
    <3>1. \A p : ~ DropFrom(p)
      BY <1>4 DEF DropFrom, Returns
    <3>2. ~ Clear
      BY <1>4 DEF Clear, Returns
    <3> QED BY <1>4, <3>1, <3>2 DEF Next
  <2> DEFINE n == Len(Split(batch))
             m == Len(batch)
             all == Pool!Part(batch, 1, m)
             t(k) == Taken(batch, k)
             fine == Pool!Consistent(Kv(cells), all)
             room == Pool!HasRoom(Kv(cells), all)
  <2>2. Sound(cells) /\ Sound(cells') /\ Comes(batch, Kv(cells')) /\ m <= NUbatch
    <3>1. Regular(batch) /\ m <= NUbatch
      OBVIOUS
    <3> QED BY <1>4, <2>1, <3>1, DecodeComes
  <2>3. /\ batch \in Seq(Tokens) /\ m \in Nat \ {0} /\ n \in Nat \ {0} /\ NUbatch \in Nat \ {0}
        /\ t(0) = 0 /\ t(n) = m
    BY <2>2, DecodeFacts, SplitParts, SizesAssumption
  \* There is one part.
  <2>4. n = 1
    <3>1. t(1) = m
      <4>1. 1 * NUbatch = NUbatch
        BY <2>3
      <4>2. t(1) = IF NUbatch <= m THEN NUbatch ELSE m
        BY <4>1 DEF Taken
      <4> HIDE DEF t, m
      <4> QED BY <2>2, <2>3, <4>2
    <3>2. ASSUME n # 1 PROVE FALSE
      <4>1. 2 \in 1 .. n /\ 2 \in 0 .. n /\ 2 - 1 = 1
        <5>1. n \in Nat \ {0}
          BY <2>3
        <5> HIDE DEF n, t, m
        <5> QED BY <3>2, <5>1
      <4>2. t(2 - 1) < t(2) /\ t(2) \in 0 .. m
        BY <2>3, <4>1, SplitParts
      <4> HIDE DEF t, m
      <4> QED BY <2>3, <3>1, <4>1, <4>2
    <3> QED BY <3>2
  <2>5. \/ ~fine /\ rc' = "inconsistent" /\ Kv(cells') = Kv(cells)
        \/ fine /\ ~room /\ rc' = "full" /\ Kv(cells') = Kv(cells)
        \/ fine /\ room /\ rc' = "ok" /\ Kv(cells') = Kv(cells) \cup all
        \/ fine /\ room /\ rc' = "failed" /\ Kv(cells') = Kv(cells)
        \/ fine /\ room /\ rc' = "failed" /\ \E k \in 1 .. n :
             Kv(cells') = Kv(cells) \cup Pool!Part(batch, 1, t(k - 1))
                            \cup Pool!LeftBehind(Pool!Part(batch, t(k - 1) + 1, t(k)))
    BY <2>2 DEF Comes
  <2>6. ASSUME NEW k \in 1 .. n
        PROVE  /\ Pool!Part(batch, 1, t(k - 1)) = {}
               /\ Pool!Part(batch, t(k - 1) + 1, t(k)) = all
    <3>1. k = 1 /\ t(k - 1) = 0 /\ t(k) = m /\ 0 + 1 = 1
      BY <2>3, <2>4
    <3> HIDE DEF t, m
    <3> QED BY <3>1 DEF Pool!Part
  <2>7. Pool!Decode(Kv(cells), all) =
          IF ~fine THEN {[rc |-> "inconsistent", kv |-> Kv(cells)]}
          ELSE IF ~room THEN {[rc |-> "full", kv |-> Kv(cells)]}
          ELSE {[rc |-> "ok",     kv |-> Kv(cells) \cup all],
                [rc |-> "failed", kv |-> Kv(cells)],
                [rc |-> "failed", kv |-> Kv(cells) \cup Pool!LeftBehind(all)]}
    BY DEF Pool!Decode
  <2> HIDE DEF n, all, t, fine, room
  <2>8. [rc |-> rc', kv |-> Kv(cells')] \in Pool!Decode(Kv(cells), all)
    BY <2>5, <2>6, <2>7
  <2> QED BY <2>8 DEF all
<1>5. ASSUME IInv, IInv', Whole(cells), [Next]_vars
      PROVE  [rc' # "none" => \E batch \in Batches :
               [rc |-> rc', kv |-> Kv(cells')]
                 \in Pool!Decode(Kv(cells), Pool!Part(batch, 1, Len(batch)))]_vars
  BY <1>4, <1>5
<1> QED BY <1>2, <1>3, <1>5, Invariant, PTL DEF Spec

=============================================================================
