----------------------- MODULE SimpleToolLimits_proofs -----------------------
(***************************************************************************)
(* What the length check and the order of the steps are worth: no head     *)
(* passes n_ctx, no batch behind the cold prompt is refused for its        *)
(* positions, no prefill finds the pool full and a reset always recovers.  *)
(***************************************************************************)
EXTENDS SimpleToolDecode_proofs

\* The positions of the two prompts end at NTotal.
LEMMA Totals ==
  ASSUME TypeOK
  PROVE  /\ NTotal \in Nat /\ Len(req.cold) \in Nat /\ Len(req.cold) <= NTotal
         /\ \A p \in 0 .. Len(req.hot) - 1 :
              Len(req.cold) + p \in Len(req.cold) .. NTotal - 1
         /\ \A q \in Len(req.cold) .. NTotal - 1 :
              \E p \in 0 .. Len(req.hot) - 1 : q = Len(req.cold) + p
<1> DEFINE m == Len(req.cold)
           k == Len(req.hot)
<1>1. m \in Nat /\ k \in Nat /\ NTotal = m + k
  BY DEF TypeOK, NTotal
<1> HIDE DEF m, k
<1>2. NTotal \in Nat /\ m <= NTotal
  BY <1>1
<1>3. ASSUME NEW p \in 0 .. k - 1
      PROVE  m + p \in m .. NTotal - 1
  BY <1>1
<1>4. ASSUME NEW q \in m .. NTotal - 1
      PROVE  q - m \in 0 .. k - 1 /\ q = m + (q - m)
  BY <1>1
<1>5. \A q \in m .. NTotal - 1 : \E p \in 0 .. k - 1 : q = m + p
  BY <1>4
<1> QED BY <1>1, <1>2, <1>3, <1>5 DEF m, k

-----------------------------------------------------------------------------
(* The limits of one context *)

\* The length check holds for as long as the request is served, and with it the
\* bound on every position ever written.
LimitInv ==
  /\ \A c \in cells : c.pos < NCtx
  /\ pc # "idle" => NTotal + req.gen < NCtx

\* A decode writes no position its batch does not have.
LEMMA DecodeBelow ==
  ASSUME NEW kv, NEW batch, NEW n \in Nat,
         \A c \in kv : c.pos < n, \A b \in batch : b.pos < n,
         NEW d \in Decode(kv, batch)
  PROVE  \A c \in d.kv : c.pos < n
<1>1. \A c \in LeftBehind(batch) : c.pos < n
  BY DEF LeftBehind
<1> QED BY <1>1 DEF Decode

\* A request past its length check whose batch is within the context stays so.
LEMMA RunBelow ==
  ASSUME TypeOK, LimitInv, NEW batch, NEW next, Run(cells, batch, next),
         pc # "idle", req' = req, \A b \in batch : b.pos < NCtx
  PROVE  LimitInv'
<1>1. PICK d \in Decode(cells, batch) : cells' = d.kv
  BY DEF Run
<1>2. \A c \in cells' : c.pos < NCtx
  BY <1>1, DecodeBelow, LimitsAssumption DEF LimitInv
<1>3. NTotal' = NTotal
  BY DEF NTotal
<1> QED BY <1>2, <1>3 DEF LimitInv

\* The cold tokens and what follows them stay inside the context.
LEMMA TotalsBelow ==
  ASSUME TypeOK, LimitInv, pc # "idle"
  PROVE  NTotal + req.gen < NCtx /\ NTotal < NCtx /\ Len(req.cold) < NCtx
<1> DEFINE m == Len(req.cold)
           g == req.gen
<1>1. m \in Nat /\ m <= NTotal /\ NTotal \in Nat
  BY Totals
<1>2. g \in Nat /\ NTotal + g < NCtx
  BY DEF TypeOK, LimitInv
<1> HIDE DEF m, g
<1>3. NTotal < NCtx /\ m < NCtx
  BY <1>1, <1>2, LimitsAssumption
<1> QED BY <1>2, <1>3 DEF m, g

LEMMA ColdBatchBelow ==
  ASSUME TypeOK, LimitInv, pc # "idle", NEW n \in Nat
  PROVE  \A b \in ColdBatch(n) : b.pos < NCtx
<1> DEFINE m == Len(req.cold)
<1>1. m \in Nat /\ m < NCtx
  BY Totals, TotalsBelow
<1>2. ColdBatch(n) = {[pos |-> p, tok |-> req.cold[p + 1], seqs |-> Heads] :
                        p \in n .. m - 1}
  BY DEF ColdBatch
<1> HIDE DEF m
<1> QED BY <1>1, <1>2, LimitsAssumption

LEMMA HotBatchBelow ==
  ASSUME TypeOK, LimitInv, pc # "idle"
  PROVE  \A b \in HotBatch : b.pos < NCtx
<1> SUFFICES ASSUME NEW b \in HotBatch PROVE b.pos < NCtx
  OBVIOUS
<1>0. PICK p \in 0 .. Len(req.hot) - 1 :
         b = [pos |-> Len(req.cold) + p, tok |-> req.hot[p + 1], seqs |-> req.mask]
  BY Zenon DEF HotBatch
<1>1. b.pos = Len(req.cold) + p
  BY <1>0
<1>2. b.pos \in Len(req.cold) .. NTotal - 1
  BY <1>1, Totals
<1> DEFINE q == b.pos
           m == Len(req.cold)
<1>3. q \in m .. NTotal - 1 /\ m \in Nat /\ NTotal \in Nat /\ NTotal < NCtx
  BY <1>2, Totals, TotalsBelow
<1> HIDE DEF q, m
<1>4. q < NCtx
  BY <1>3, LimitsAssumption
<1> QED BY <1>4 DEF q

\* The check at the door.
LEMMA AcceptedBelow ==
  ASSUME NEW r \in [cold : Seq(Token), hot : Seq(Token), mask : SUBSET Heads,
                    gen : Nat],
         ~Refused(r)
  PROVE  Len(r.cold) + Len(r.hot) + r.gen < NCtx
<1> DEFINE m == Len(r.cold)
           k == Len(r.hot)
           g == r.gen
<1>1. m \in Nat /\ k \in Nat /\ g \in Nat
  OBVIOUS
<1>2. ~(m + k + g >= NCtx)
  BY DEF Refused
<1> HIDE DEF m, k, g
<1>3. m + k + g < NCtx
  BY <1>1, <1>2, LimitsAssumption
<1> QED BY <1>3 DEF m, k, g

LEMMA LimitInvariant == Spec => []LimitInv
<1>1. Init => LimitInv
  BY DEF Init, LimitInv
<1>2. TypeOK /\ TypeOK' /\ StepInv /\ LimitInv /\ [Next]_vars => LimitInv'
  <2> SUFFICES ASSUME TypeOK, TypeOK', StepInv, LimitInv, [Next]_vars
               PROVE  LimitInv'
    OBVIOUS
  <2>0. req.gen \in Nat /\ NTotal \in Nat /\ step \in Nat /\ NCtx \in Nat
    BY Totals, LimitsAssumption DEF TypeOK
  \* Steps that add no cell.
  <2>a. ASSUME cells' \subseteq cells, req' = req, pc # "idle"
        PROVE  LimitInv'
    <3>1. NTotal' = NTotal
      BY <2>a DEF NTotal
    <3> QED BY <2>a, <3>1 DEF LimitInv
  <2>1. ASSUME NEW cold \in ColdPrompts, NEW hot \in HotPrompts,
               NEW mask \in SUBSET Heads, NEW byte \in MaxGenBytes,
               Receive(cold, hot, mask, byte)
        PROVE  LimitInv'
    <3>1. cells' = cells /\ (pc' # "idle" => ~Refused(req'))
      BY <2>1 DEF Receive, Fail
    <3>2. NTotal' = Len(req'.cold) + Len(req'.hot)
      BY DEF NTotal
    <3>3. ~Refused(req') => NTotal' + req'.gen < NCtx
      BY <3>2, AcceptedBelow DEF TypeOK
    <3> QED BY <3>1, <3>3 DEF LimitInv
  <2>2. CASE ColdHit
    BY <2>2, <2>a DEF ColdHit, UNCHANGED_REQUEST
  <2>3. CASE ColdExtend
    <3>1. pc # "idle" /\ req' = req
      BY <2>3 DEF ColdExtend, UNCHANGED_REQUEST
    <3>2. PICK d \in Decode(cells, ColdBatch(Len(coldTokens))) : cells' = d.kv
      BY <2>3 DEF ColdExtend
    <3>3. Len(coldTokens) \in Nat
      BY DEF TypeOK
    <3>4. \A c \in cells' : c.pos < NCtx
      BY <2>0, <3>1, <3>2, <3>3, ColdBatchBelow, DecodeBelow DEF LimitInv
    <3>5. NTotal' = NTotal
      BY <3>1 DEF NTotal
    <3> QED BY <3>1, <3>4, <3>5 DEF LimitInv
  <2>4. CASE ColdReset
    <3>1. pc # "idle" /\ req' = req
      BY <2>4 DEF ColdReset, ResetFrom, UNCHANGED_REQUEST
    <3>2. PICK d \in IF req.cold = <<>> THEN {[rc |-> "ok", kv |-> {}]}
                     ELSE Decode({}, ColdBatch(0)) : cells' = d.kv
      BY <2>4 DEF ColdReset, ResetFrom
    <3>3. \A c \in cells' : c.pos < NCtx
      <4>1. CASE req.cold = <<>>
        BY <3>2, <4>1
      <4>2. CASE req.cold # <<>>
        BY <2>0, <3>1, <3>2, <4>2, ColdBatchBelow, DecodeBelow
      <4> QED BY <4>1, <4>2
    <3>4. NTotal' = NTotal
      BY <3>1 DEF NTotal
    <3> QED BY <3>1, <3>3, <3>4 DEF LimitInv
  <2>5. CASE DropLeftovers
    BY <2>5, <2>a DEF DropLeftovers, SeqRmAll, UNCHANGED_REQUEST
  <2>6. CASE HotPrefill
    <3>1. pc # "idle" /\ req' = req /\ NTotal + req.gen < NCtx
      BY <2>6 DEF HotPrefill, UNCHANGED_REQUEST, LimitInv
    <3>2. \A b \in HotBatch : b.pos < NCtx
      BY <3>1, HotBatchBelow
    <3> QED BY <2>6, <3>1, <3>2, RunBelow DEF HotPrefill
  <2>7. CASE Signal
    <3>1. pc # "idle" /\ req' = req /\ NTotal + req.gen < NCtx
      BY <2>7 DEF Signal, LimitInv
    <3>2. \A b \in HeadBatch(req.mask, OpenId, NTotal) : b.pos < NCtx
      BY <2>0, <3>1 DEF HeadBatch
    <3> QED BY <2>7, <3>1, <3>2, RunBelow DEF Signal
  <2>8. CASE Sample
    BY <2>8, <2>a DEF Sample
  <2>9. CASE DecodeStep
    <3>1. pc # "idle" /\ req' = req /\ NTotal + req.gen < NCtx
      BY <2>9 DEF DecodeStep, UNCHANGED_REQUEST, LimitInv
    <3>2. step < req.gen
      BY <3>1 DEF StepInv
    <3>3. \A b \in HeadBatch(live, LastGen, NTotal + step) : b.pos < NCtx
      BY <2>0, <3>1, <3>2 DEF HeadBatch
    <3> QED BY <2>9, <3>1, <3>3, RunBelow DEF DecodeStep
  <2>10. CASE UNCHANGED vars
    BY <2>10 DEF vars, LimitInv, NTotal
  <2> QED
    BY <2>1, <2>2, <2>3, <2>4, <2>5, <2>6, <2>7, <2>8, <2>9, <2>10
       DEF Next, Serve
<1> QED
  BY <1>1, <1>2, TypeCorrect, PTL DEF Spec

\* The one length check a request meets at its arrival keeps every position of
\* every head below n_ctx and every result within max_gen, through all of its
\* steps and whatever earlier requests left in the pool.
THEOREM AlwaysWithinContext == Spec => []WithinContext
<1>1. TypeOK /\ StepInv /\ LimitInv => WithinContext
  <2> SUFFICES ASSUME TypeOK, StepInv, LimitInv, NEW h \in req.mask
               PROVE  Len(gen[h]) <= req.gen
    BY DEF WithinContext, LimitInv
  <2>1. Len(gen[h]) <= step /\ step <= req.gen
    BY DEF StepInv
  <2>2. Len(gen[h]) \in Nat /\ step \in Nat /\ req.gen \in Nat
    BY DEF TypeOK
  <2> QED BY <2>1, <2>2
<1> QED
  BY <1>1, TypeCorrect, LimitInvariant, PTL

-----------------------------------------------------------------------------
(* No batch of a request past its cold prompt is refused for its positions *)

\* Sequences that hold the positions below n and no other are alike, and a batch
\* that starts them all at n follows them.
LEMMA ConsistentUpTo ==
  ASSUME NEW kv, NEW batch, NEW n \in Nat, NEW heads \in SUBSET Heads,
         \A b \in batch : b.seqs \subseteq heads,
         \A h \in heads : Positions(kv, h) = 0 .. n - 1,
         batch # {} =>
           \A h \in heads :
             /\ n \in Positions(batch, h)
             /\ \A p \in Positions(batch, h) : p \in Nat /\ p >= n
  PROVE  Consistent(kv, batch)
<1> SUFFICES ASSUME NEW b \in batch, NEW h1 \in heads
             PROVE  /\ Follows(kv, batch, h1)
                    /\ \A h2 \in heads : SameSpan(kv, h1, h2)
  BY DEF Consistent
<1>1. CASE n = 0
  <2>1. \A h \in heads : Positions(kv, h) = {}
    BY <1>1
  <2> QED BY <2>1 DEF Follows, SameSpan
<1>2. CASE n # 0
  <2>1. 0 \in 0 .. n - 1 /\ n - 1 \in 0 .. n - 1 /\ (n - 1) + 1 = n
    BY <1>2
  <2>2. Follows(kv, batch, h1)
    <3>1. \A p \in 0 .. n - 1 : p <= n - 1
      OBVIOUS
    <3>2. \A p \in Positions(batch, h1) : n - 1 < p
      OBVIOUS
    <3> QED BY <2>1, <3>1, <3>2 DEF Follows
  <2>3. ASSUME NEW h2 \in heads
        PROVE  SameSpan(kv, h1, h2)
    <3>1. \A p \in (0 .. n - 1) \cup (0 .. n - 1) : 0 <= p /\ p <= n - 1
      OBVIOUS
    <3> QED BY <2>1, <3>1 DEF SameSpan
  <2> QED BY <2>2, <2>3
<1> QED BY <1>1, <1>2

\* The positions of each part of the pool.
LEMMA PositionsCold ==
  ASSUME NEW h \in Heads
  PROVE  Positions(ColdBatch(0), h) = 0 .. Len(req.cold) - 1
<1> DEFINE cell(p) == [pos |-> p, tok |-> req.cold[p + 1], seqs |-> Heads]
           span == 0 .. Len(req.cold) - 1
<1>1. ColdBatch(0) = {cell(p) : p \in span}
  BY DEF ColdBatch
<1>2. \A p : cell(p).pos = p /\ h \in cell(p).seqs
  OBVIOUS
<1> HIDE DEF cell, span
<1>3. Positions(ColdBatch(0), h) = span
  BY <1>1, <1>2 DEF Positions
<1> QED BY <1>3 DEF span

LEMMA PositionsHot ==
  ASSUME TypeOK, NEW h \in req.mask
  PROVE  Positions(HotBatch, h) = Len(req.cold) .. NTotal - 1
<1> DEFINE m == Len(req.cold)
           span == 0 .. Len(req.hot) - 1
           cell(p) == [pos |-> m + p, tok |-> req.hot[p + 1], seqs |-> req.mask]
<1>1. HotBatch = {cell(p) : p \in span}
  BY DEF HotBatch
<1>2. \A p : cell(p).pos = m + p /\ h \in cell(p).seqs
  OBVIOUS
<1>3. /\ \A p \in span : m + p \in m .. NTotal - 1
      /\ \A q \in m .. NTotal - 1 : \E p \in span : q = m + p
  BY Totals
<1> HIDE DEF cell, span, m
<1>4. Positions(HotBatch, h) = m .. NTotal - 1
  BY <1>1, <1>2, <1>3 DEF Positions
<1> QED BY <1>4 DEF m

LEMMA PositionsOwn ==
  ASSUME TypeOK, NEW h \in req.mask
  PROVE  Positions(UNION {HeadCells(k) : k \in req.mask}, h) =
           {NTotal + i : i \in 0 .. Fed(h) - 1}
<1> DEFINE own == UNION {HeadCells(k) : k \in req.mask}
<1>1. ASSUME NEW c \in own, h \in c.seqs
      PROVE  c.pos \in {NTotal + i : i \in 0 .. Fed(h) - 1}
  <2> PICK k \in req.mask : c \in HeadCells(k)
    OBVIOUS
  <2>1. PICK i \in 0 .. Fed(k) - 1 : c.pos = NTotal + i /\ c.seqs = {k}
    BY DEF HeadCells
  <2>2. k = h
    BY <1>1, <2>1
  <2> QED BY <2>1, <2>2
<1>2. ASSUME NEW i \in 0 .. Fed(h) - 1
      PROVE  NTotal + i \in Positions(own, h)
  <2> DEFINE c == [pos |-> NTotal + i, tok |-> IF i = 0 THEN OpenId[h] ELSE gen[h][i],
                   seqs |-> {h}]
  <2>1. c \in HeadCells(h)
    BY DEF HeadCells
  <2>2. c \in own
    BY <2>1
  <2> HIDE DEF own
  <2> QED BY <2>2 DEF Positions
<1> QED BY <1>1, <1>2 DEF Positions

\* Before the first decode of a request behind its cold prompt, between the open
\* tags and the last step, every sequence in use holds a whole run of positions.
LEMMA HeldBefore ==
  ASSUME TypeOK, PoolExact, NEW h \in req.mask
  PROVE  /\ pc = "hot" => Positions(cells, h) = 0 .. Len(req.cold) - 1
         /\ pc = "signal" => Positions(cells, h) = 0 .. NTotal - 1
<1>1. h \in Heads
  BY DEF TypeOK
<1>2. pc = "hot" => Positions(cells, h) = 0 .. Len(req.cold) - 1
  BY <1>1, PositionsCold DEF PoolExact
<1>3. Positions(ColdBatch(0) \cup HotBatch, h) =
        Positions(ColdBatch(0), h) \cup Positions(HotBatch, h)
  BY DEF Positions
<1> DEFINE m == Len(req.cold)
<1>4. Positions(ColdBatch(0) \cup HotBatch, h) = (0 .. m - 1) \cup (m .. NTotal - 1)
  BY <1>1, <1>3, PositionsCold, PositionsHot
<1>5. m \in Nat /\ NTotal \in Nat /\ m <= NTotal
  BY Totals
<1> HIDE DEF m
<1>6. (0 .. m - 1) \cup (m .. NTotal - 1) = 0 .. NTotal - 1
  BY <1>5
<1> QED BY <1>2, <1>4, <1>6 DEF PoolExact

LEMMA HeldInTheLoop ==
  ASSUME TypeOK, StepInv, PoolExact, pc = "decode", NEW h \in live
  PROVE  Positions(cells, h) = 0 .. NTotal + step - 1
<1> DEFINE own == UNION {HeadCells(k) : k \in req.mask}
           m == Len(req.cold)
<1>1. h \in req.mask /\ h \in Heads
  BY DEF TypeOK
<1>2. Positions(ColdBatch(0) \cup HotBatch \cup own, h) =
        Positions(ColdBatch(0), h) \cup Positions(HotBatch, h) \cup Positions(own, h)
  BY DEF Positions
<1>3. cells = ColdBatch(0) \cup HotBatch \cup own
  BY DEF PoolExact
<1>4. Fed(h) = step
  BY DEF Fed, StepInv
<1>5. Positions(cells, h) =
        (0 .. m - 1) \cup (m .. NTotal - 1) \cup {NTotal + i : i \in 0 .. step - 1}
  BY <1>1, <1>2, <1>3, <1>4, PositionsCold, PositionsHot, PositionsOwn
<1>6. m \in Nat /\ NTotal \in Nat /\ m <= NTotal /\ step \in Nat
  BY Totals DEF TypeOK
<1> HIDE DEF m
<1>7. (0 .. m - 1) \cup (m .. NTotal - 1) = 0 .. NTotal - 1
  BY <1>6
<1>8. {NTotal + i : i \in 0 .. step - 1} = NTotal .. NTotal + step - 1
  <2>1. ASSUME NEW q \in NTotal .. NTotal + step - 1
        PROVE  q - NTotal \in 0 .. step - 1 /\ q = NTotal + (q - NTotal)
    BY <1>6
  <2> QED BY <1>6, <2>1
<1>9. (0 .. NTotal - 1) \cup (NTotal .. NTotal + step - 1) = 0 .. NTotal + step - 1
  BY <1>6
<1> QED BY <1>5, <1>7, <1>8, <1>9

\* The batches of a request past its cold prompt fit what is held.
LEMMA HotFollows ==
  ASSUME TypeOK, PoolExact, pc = "hot"
  PROVE  Consistent(cells, HotBatch)
<1> DEFINE m == Len(req.cold)
<1>1. m \in Nat /\ NTotal \in Nat /\ req.mask \in SUBSET Heads
  BY Totals DEF TypeOK
<1>2. \A b \in HotBatch : b.seqs \subseteq req.mask
  BY DEF HotBatch
<1>3. \A h \in req.mask : Positions(cells, h) = 0 .. m - 1
  BY HeldBefore
<1>4. HotBatch # {} => m \in m .. NTotal - 1
  <2>1. ASSUME NEW b \in HotBatch
        PROVE  b.pos \in m .. NTotal - 1
    <3> PICK p \in 0 .. Len(req.hot) - 1 : b.pos = m + p
      BY DEF HotBatch
    <3> QED BY Totals
  <2> HIDE DEF m
  <2> QED BY <1>1, <2>1
<1>5. \A h \in req.mask : Positions(HotBatch, h) = m .. NTotal - 1
  BY PositionsHot
<1> HIDE DEF m
<1>6. \A p \in m .. NTotal - 1 : p \in Nat /\ p >= m
  BY <1>1
<1>7. HotBatch # {} =>
        \A h \in req.mask :
          /\ m \in Positions(HotBatch, h)
          /\ \A p \in Positions(HotBatch, h) : p \in Nat /\ p >= m
  BY <1>4, <1>5, <1>6
<1> QED BY <1>1, <1>2, <1>3, <1>7, ConsistentUpTo

\* One token of each of some heads, at the position all of them have reached.
LEMMA HeadsFollow ==
  ASSUME NEW kv, NEW heads \in SUBSET Heads, NEW tok, NEW n \in Nat,
         \A h \in heads : Positions(kv, h) = 0 .. n - 1
  PROVE  Consistent(kv, HeadBatch(heads, tok, n))
<1> DEFINE batch == HeadBatch(heads, tok, n)
<1>1. \A b \in batch : b.seqs \subseteq heads
  BY DEF HeadBatch
<1>2. ASSUME NEW h \in heads
      PROVE  Positions(batch, h) = {n}
  <2>1. [pos |-> n, tok |-> tok[h], seqs |-> {h}] \in batch
    BY DEF HeadBatch
  <2>2. \A b \in batch : b.pos = n
    BY DEF HeadBatch
  <2> HIDE DEF batch
  <2> QED BY <2>1, <2>2 DEF Positions
<1> HIDE DEF batch
<1>3. Consistent(kv, batch)
  BY <1>1, <1>2, ConsistentUpTo
<1> QED BY <1>3 DEF batch

\* A decode of such a batch is not refused.
LEMMA RunAccepted ==
  ASSUME NEW kv, NEW batch, NEW next, Run(kv, batch, next), Consistent(kv, batch)
  PROVE  reply' = reply \/ reply'.rc # "inconsistent"
  BY DEF Run, Decode, Fail

\* Once the leftovers of the previous request are dropped no batch is refused for
\* its positions: of all llama_decode calls of a request only the one that
\* extends the cold prompt can return -1.
THEOREM AlwaysOnlyExtendRefused == Spec => []OnlyExtendRefused
<1>1. Init => OnlyExtendRefused
  BY DEF Init, OnlyExtendRefused, NoReply
<1>2. TypeOK /\ StepInv /\ PoolExact /\ OnlyExtendRefused /\ [Next]_vars
        => OnlyExtendRefused'
  <2> SUFFICES ASSUME TypeOK, StepInv, PoolExact, OnlyExtendRefused, [Next]_vars
               PROVE  OnlyExtendRefused'
    OBVIOUS
  <2>0. NTotal \in Nat /\ step \in Nat /\ req.mask \in SUBSET Heads
        /\ live \in SUBSET Heads
    BY Totals DEF TypeOK
  <2>1. ASSUME NEW cold \in ColdPrompts, NEW hot \in HotPrompts,
               NEW mask \in SUBSET Heads, NEW byte \in MaxGenBytes,
               Receive(cold, hot, mask, byte)
        PROVE  OnlyExtendRefused'
    BY <2>1 DEF Receive, OnlyExtendRefused, Fail, NoReply
  <2>2. CASE ColdHit
    BY <2>2 DEF ColdHit, OnlyExtendRefused, TypeOK, Reply
  <2>3. CASE ColdExtend
    BY <2>3 DEF ColdExtend, OnlyExtendRefused, Fail, TypeOK, Reply
  <2>4. CASE ColdReset
    BY <2>4 DEF ColdReset, ResetFrom, OnlyExtendRefused, Fail, TypeOK, Reply
  <2>5. CASE DropLeftovers
    BY <2>5 DEF DropLeftovers, OnlyExtendRefused, Answer
  <2>6. CASE HotPrefill
    <3>1. Consistent(cells, HotBatch) /\ Run(cells, HotBatch, "signal")
      BY <2>6, HotFollows DEF HotPrefill
    <3> QED BY <3>1, RunAccepted DEF OnlyExtendRefused
  <2>7. CASE Signal
    <3>1. \A h \in req.mask : Positions(cells, h) = 0 .. NTotal - 1
      BY <2>7, HeldBefore DEF Signal
    <3>2. Consistent(cells, HeadBatch(req.mask, OpenId, NTotal))
      BY <2>0, <3>1, HeadsFollow
    <3> QED BY <2>7, <3>2, RunAccepted DEF Signal, OnlyExtendRefused
  <2>8. CASE Sample
    BY <2>8 DEF Sample, OnlyExtendRefused, Answer
  <2>9. CASE DecodeStep
    <3>1. \A h \in live : Positions(cells, h) = 0 .. NTotal + step - 1
      BY <2>9, HeldInTheLoop DEF DecodeStep
    <3>2. Consistent(cells, HeadBatch(live, LastGen, NTotal + step))
      <4> DEFINE n == NTotal + step
      <4>1. n \in Nat
        BY <2>0
      <4> QED BY <2>0, <3>1, <4>1, HeadsFollow
    <3> QED BY <2>9, <3>2, RunAccepted DEF DecodeStep, OnlyExtendRefused
  <2>10. CASE UNCHANGED vars
    BY <2>10 DEF vars, OnlyExtendRefused
  <2> QED
    BY <2>1, <2>2, <2>3, <2>4, <2>5, <2>6, <2>7, <2>8, <2>9, <2>10
       DEF Next, Serve
<1> QED
  BY <1>1, <1>2, TypeCorrect, PoolAlwaysExact, PTL DEF Spec

-----------------------------------------------------------------------------
(* The pool fills up in the decode loop only *)

\* What is built with one element for each of n has at most n.
LEMMA CardImage ==
  ASSUME NEW a \in Nat, NEW b \in Nat, a <= b, NEW T,
         NEW f \in [a .. b - 1 -> T],
         \A t \in T : \E i \in a .. b - 1 : f[i] = t
  PROVE  IsFiniteSet(T) /\ Cardinality(T) \in Nat /\ Cardinality(T) <= b - a
<1> DEFINE S == a .. b - 1
<1>1. IsFiniteSet(S) /\ Cardinality(S) = b - a
  BY FS_Interval
<1>2. f \in Surjection(S, T)
  BY DEF Surjection
<1> HIDE DEF S
<1>3. IsFiniteSet(T) /\ Cardinality(T) <= Cardinality(S)
  BY <1>1, <1>2, FS_Surjection
<1> QED BY <1>1, <1>3, FS_CardinalityType

LEMMA CardUnion ==
  ASSUME NEW A, IsFiniteSet(A), NEW B, IsFiniteSet(B)
  PROVE  /\ IsFiniteSet(A \cup B)
         /\ Cardinality(A \cup B) <= Cardinality(A) + Cardinality(B)
<1>1. IsFiniteSet(A \cap B)
  BY FS_Subset
<1>2. /\ Cardinality(A) \in Nat /\ Cardinality(B) \in Nat
      /\ Cardinality(A \cap B) \in Nat
  BY <1>1, FS_CardinalityType
<1>3. /\ IsFiniteSet(A \cup B)
      /\ Cardinality(A \cup B) =
           Cardinality(A) + Cardinality(B) - Cardinality(A \cap B)
  BY FS_Union
<1> QED BY <1>2, <1>3

LEMMA CardCold ==
  ASSUME TypeOK, NEW n \in Nat, n <= Len(req.cold)
  PROVE  /\ IsFiniteSet(ColdBatch(n)) /\ Cardinality(ColdBatch(n)) \in Nat
         /\ Cardinality(ColdBatch(n)) <= Len(req.cold) - n
<1> DEFINE m == Len(req.cold)
           cell(p) == [pos |-> p, tok |-> req.cold[p + 1], seqs |-> Heads]
           f == [p \in n .. m - 1 |-> cell(p)]
<1>1. m \in Nat
  BY Totals
<1>2. ColdBatch(n) = {cell(p) : p \in n .. m - 1}
  BY DEF ColdBatch
<1> HIDE DEF m, cell
<1>3. f \in [n .. m - 1 -> ColdBatch(n)]
  BY <1>2
<1>4. \A t \in ColdBatch(n) : \E p \in n .. m - 1 : f[p] = t
  BY <1>2
<1>5. n <= m
  BY DEF m
<1> HIDE DEF f
<1>6. /\ IsFiniteSet(ColdBatch(n)) /\ Cardinality(ColdBatch(n)) \in Nat
      /\ Cardinality(ColdBatch(n)) <= m - n
  BY <1>1, <1>3, <1>4, <1>5, CardImage
<1> QED BY <1>6 DEF m

LEMMA CardHot ==
  ASSUME TypeOK
  PROVE  /\ IsFiniteSet(HotBatch) /\ Cardinality(HotBatch) \in Nat
         /\ Cardinality(HotBatch) <= NTotal - Len(req.cold)
<1> DEFINE k == Len(req.hot)
           m == Len(req.cold)
           cell(p) == [pos |-> Len(req.cold) + p, tok |-> req.hot[p + 1],
                       seqs |-> req.mask]
           f == [p \in 0 .. k - 1 |-> cell(p)]
<1>1. k \in Nat /\ m \in Nat /\ NTotal = m + k
  BY DEF TypeOK, NTotal
<1>2. HotBatch = {cell(p) : p \in 0 .. k - 1}
  BY DEF HotBatch
<1> HIDE DEF k, m, cell
<1>3. f \in [0 .. k - 1 -> HotBatch]
  BY <1>2
<1>4. \A t \in HotBatch : \E p \in 0 .. k - 1 : f[p] = t
  BY <1>2
<1> HIDE DEF f
<1>5. /\ IsFiniteSet(HotBatch) /\ Cardinality(HotBatch) \in Nat
      /\ Cardinality(HotBatch) <= k - 0
  <2>1. 0 \in Nat /\ 0 <= k
    BY <1>1
  <2> QED BY <1>1, <1>3, <1>4, <2>1, CardImage
<1>6. Cardinality(HotBatch) <= NTotal - m
  BY <1>1, <1>5
<1> QED BY <1>5, <1>6 DEF m

LEMMA CardHeads ==
  ASSUME NEW heads \in SUBSET Heads, NEW tok, NEW pos
  PROVE  /\ IsFiniteSet(HeadBatch(heads, tok, pos))
         /\ Cardinality(HeadBatch(heads, tok, pos)) \in Nat
         /\ Cardinality(HeadBatch(heads, tok, pos)) <= NHeads
<1> DEFINE cell(h) == [pos |-> pos, tok |-> tok[h], seqs |-> {h}]
           all == {cell(h) : h \in Heads}
           f == [h \in 0 .. NHeads - 1 |-> cell(h)]
<1>1. NHeads \in Nat /\ Heads = 0 .. NHeads - 1
  BY HeadsAssumption DEF Heads
<1>2. HeadBatch(heads, tok, pos) \subseteq all
  BY DEF HeadBatch
<1> HIDE DEF cell
<1>3. f \in [0 .. NHeads - 1 -> all]
  BY <1>1
<1>4. \A t \in all : \E h \in 0 .. NHeads - 1 : f[h] = t
  BY <1>1
<1> HIDE DEF f, all
<1>5. IsFiniteSet(all) /\ Cardinality(all) <= NHeads - 0
  <2>1. 0 \in Nat /\ 0 <= NHeads
    BY <1>1
  <2> QED BY <1>1, <1>3, <1>4, <2>1, CardImage
<1>6. /\ IsFiniteSet(HeadBatch(heads, tok, pos))
      /\ Cardinality(HeadBatch(heads, tok, pos)) <= Cardinality(all)
  BY <1>2, <1>5, FS_Subset
<1>7. /\ Cardinality(all) \in Nat
      /\ Cardinality(HeadBatch(heads, tok, pos)) \in Nat
  BY <1>5, <1>6, FS_CardinalityType
<1> QED BY <1>1, <1>5, <1>6, <1>7

\* The cold prompt may be prefilled whole or behind what the cache has of it: the
\* pool then holds no more than its tokens.
LEMMA RoomForReset ==
  ASSUME TypeOK, LimitInv, pc # "idle"
  PROVE  HasRoom({}, ColdBatch(0))
<1> DEFINE m == Len(req.cold)
           k == Cardinality(ColdBatch(0))
<1>1. m \in Nat /\ m < NCtx /\ NCtx \in Nat /\ NCells \in Nat
  BY Totals, TotalsBelow, LimitsAssumption, CellsAssumption
<1>2. k \in Nat /\ k <= m - 0
  <2>1. 0 \in Nat /\ 0 <= m
    BY <1>1
  <2> QED BY <2>1, CardCold
<1> HIDE DEF m, k
<1>3. 0 + k <= NCells
  BY <1>1, <1>2, PoolAssumption
<1> QED BY <1>3, FS_EmptySet DEF HasRoom, k

LEMMA RoomForExtension ==
  ASSUME TypeOK, ColdInv, LimitInv, pc # "idle", Extension,
         Consistent(cells, ColdBatch(Len(coldTokens)))
  PROVE  HasRoom(cells, ColdBatch(Len(coldTokens)))
<1> DEFINE m == Len(req.cold)
           n == Len(coldTokens)
           k == Cardinality(ColdBatch(n))
           held == Cardinality(cells)
           f == [p \in 0 .. n - 1 |-> ColdCell(p)]
<1>1. /\ m \in Nat /\ m < NCtx /\ NCtx \in Nat /\ NCells \in Nat
      /\ n \in Nat /\ n < m
  BY Totals, TotalsBelow, LimitsAssumption, CellsAssumption DEF Extension, TypeOK
<1>2. k \in Nat /\ k <= m - n
  <2>1. n <= m
    BY <1>1
  <2> QED BY <1>1, <2>1, CardCold
<1>3. \A c \in cells : c.pos < n
  BY NothingBehind DEF Extension, ColdInv, TypeOK
<1>4. \A p \in 0 .. n - 1 : {c \in cells : c.pos = p} = {ColdCell(p)}
  BY DEF ColdInv, CacheCoherent
<1> HIDE DEF m, n, k
<1>5. f \in [0 .. n - 1 -> cells]
  <2>1. \A p \in 0 .. n - 1 : ColdCell(p) \in cells
    BY <1>4
  <2> QED BY <2>1
<1>6. \A c \in cells : \E p \in 0 .. n - 1 : f[p] = c
  <2> SUFFICES ASSUME NEW c \in cells PROVE \E p \in 0 .. n - 1 : f[p] = c
    OBVIOUS
  <2>1. c.pos \in Nat /\ c.pos < n
    BY <1>3 DEF TypeOK, Cell
  <2>2. c.pos \in 0 .. n - 1
    BY <1>1, <2>1
  <2>3. ColdCell(c.pos) = c
    BY <1>4, <2>2
  <2>4. f[c.pos] = ColdCell(c.pos)
    BY <2>2
  <2> QED BY <2>2, <2>3, <2>4
<1> HIDE DEF f
<1>7. held \in Nat /\ held <= n - 0
  <2>1. n \in Nat /\ 0 \in Nat /\ 0 <= n
    BY <1>1
  <2> HIDE DEF held
  <2>2. Cardinality(cells) \in Nat /\ Cardinality(cells) <= n - 0
    BY <1>5, <1>6, <2>1, CardImage
  <2> QED BY <2>2 DEF held
<1> HIDE DEF held
<1>8. held + k <= NCells
  <2>1. held + k <= m
    BY <1>1, <1>2, <1>7
  <2>2. NCtx <= NCells
    BY <1>1, PoolAssumption
  <2> QED BY <1>1, <1>2, <1>7, <2>1, <2>2
<1> QED BY <1>8 DEF HasRoom, held, k, n

\* Once the leftovers are dropped the pool holds the prompts at most, and there is
\* room for the hot prompt and for one open tag of every head.
LEMMA RoomForPrompts ==
  ASSUME TypeOK, LimitInv, PoolExact
  PROVE  /\ pc = "hot" => HasRoom(cells, HotBatch)
         /\ pc = "signal" => HasRoom(cells, HeadBatch(req.mask, OpenId, NTotal))
<1> SUFFICES ASSUME pc \in {"hot", "signal"}
             PROVE  /\ pc = "hot" => HasRoom(cells, HotBatch)
                    /\ pc = "signal" =>
                         HasRoom(cells, HeadBatch(req.mask, OpenId, NTotal))
  OBVIOUS
<1> DEFINE m == Len(req.cold)
           t == NTotal
           cold == ColdBatch(0)
           hot == HotBatch
           heads == HeadBatch(req.mask, OpenId, NTotal)
<1>1. /\ m \in Nat /\ t \in Nat /\ m <= t /\ t < NCtx
      /\ NCtx \in Nat /\ NCells \in Nat /\ NHeads \in Nat
  BY Totals, TotalsBelow, LimitsAssumption, CellsAssumption, HeadsAssumption
<1>2. IsFiniteSet(cold) /\ Cardinality(cold) \in Nat /\ Cardinality(cold) <= m - 0
  <2>1. 0 \in Nat /\ 0 <= m
    BY <1>1
  <2> QED BY <2>1, CardCold
<1>3. IsFiniteSet(hot) /\ Cardinality(hot) \in Nat /\ Cardinality(hot) <= t - m
  BY CardHot
<1>4. /\ IsFiniteSet(heads) /\ Cardinality(heads) \in Nat
      /\ Cardinality(heads) <= NHeads
  <2>1. req.mask \in SUBSET Heads
    BY DEF TypeOK
  <2> QED BY <2>1, CardHeads
<1>5. /\ pc = "hot" => cells = cold
      /\ pc = "signal" => cells = cold \cup hot
  BY DEF PoolExact
<1> HIDE DEF m, t, cold, hot, heads
<1>6. /\ IsFiniteSet(cold \cup hot)
      /\ Cardinality(cold \cup hot) <= Cardinality(cold) + Cardinality(hot)
  BY <1>2, <1>3, CardUnion
<1>7. Cardinality(cold \cup hot) \in Nat
  BY <1>6, FS_CardinalityType
<1>8. Cardinality(cold) + Cardinality(hot) <= NCells
  BY <1>1, <1>2, <1>3, PoolAssumption
<1>9. Cardinality(cold \cup hot) + Cardinality(heads) <= NCells
  BY <1>1, <1>2, <1>3, <1>4, <1>6, <1>7, PoolAssumption
<1> QED BY <1>5, <1>8, <1>9 DEF HasRoom, cold, hot, heads, t

\* While a request is being served its reply is open.
ReplyInv ==
  /\ FullOnlyInTheLoop
  /\ pc # "idle" => reply.rc = "ok"

\* A decode with room for its batch either goes on or ends without rc 1.
LEMMA RunRoom ==
  ASSUME NEW kv, NEW batch, NEW next, next # "idle", Run(kv, batch, next),
         pc # "idle", ReplyInv, HasRoom(kv, batch)
  PROVE  ReplyInv'
  BY DEF Run, Decode, Fail, ReplyInv, FullOnlyInTheLoop

LEMMA ReplyInvariant == Spec => []ReplyInv
<1>1. Init => ReplyInv
  BY DEF Init, ReplyInv, FullOnlyInTheLoop, NoReply
<1>2. TypeOK /\ ColdInv /\ LimitInv /\ PoolExact /\ ReplyInv /\ [Next]_vars
        => ReplyInv'
  <2> SUFFICES ASSUME TypeOK, ColdInv, LimitInv, PoolExact, ReplyInv, [Next]_vars
               PROVE  ReplyInv'
    OBVIOUS
  <2>. USE DEF ReplyInv, FullOnlyInTheLoop
  <2>1. ASSUME NEW cold \in ColdPrompts, NEW hot \in HotPrompts,
               NEW mask \in SUBSET Heads, NEW byte \in MaxGenBytes,
               Receive(cold, hot, mask, byte)
        PROVE  ReplyInv'
    BY <2>1 DEF Receive, Fail, NoReply
  <2>2. CASE ColdHit
    BY <2>2 DEF ColdHit, TypeOK, Reply
  <2>3. CASE ColdExtend
    <3>1. PICK d \in Decode(cells, ColdBatch(Len(coldTokens))) :
            \/ d.rc = "ok" /\ reply' = [reply EXCEPT !.action = "EXTEND"]
            \/ d.rc # "ok" /\ Fail(d.rc)
      BY <2>3 DEF ColdExtend
    <3>2. pc = "cold" /\ Extension
      BY <2>3 DEF ColdExtend
    <3>3. d.rc # "full"
      BY <3>1, <3>2, RoomForExtension DEF Decode
    <3> QED BY <3>1, <3>2, <3>3 DEF Fail, TypeOK, Reply
  <2>4. CASE ColdReset
    <3>1. PICK d \in IF req.cold = <<>> THEN {[rc |-> "ok", kv |-> {}]}
                     ELSE Decode({}, ColdBatch(0)) :
            \/ d.rc = "ok" /\ reply' = [reply EXCEPT !.action = "RESET"]
            \/ d.rc # "ok" /\ Fail(d.rc)
      BY <2>4 DEF ColdReset, ResetFrom
    <3>2. pc = "cold"
      BY <2>4 DEF ColdReset, ResetFrom
    <3>3. d.rc # "full"
      BY <3>1, <3>2, RoomForReset DEF Decode
    <3> QED BY <3>1, <3>2, <3>3 DEF Fail, TypeOK, Reply
  <2>5. CASE DropLeftovers
    BY <2>5 DEF DropLeftovers, Answer
  <2>6. CASE HotPrefill
    BY <2>6, RoomForPrompts, RunRoom DEF HotPrefill
  <2>7. CASE Signal
    BY <2>7, RoomForPrompts, RunRoom DEF Signal
  <2>8. CASE Sample
    BY <2>8 DEF Sample, Answer
  <2>9. CASE DecodeStep
    BY <2>9 DEF DecodeStep, Run, Fail
  <2>10. CASE UNCHANGED vars
    BY <2>10 DEF vars
  <2> QED
    BY <2>1, <2>2, <2>3, <2>4, <2>5, <2>6, <2>7, <2>8, <2>9, <2>10
       DEF Next, Serve
<1> QED
  BY <1>1, <1>2, TypeCorrect, ColdInvariant, LimitInvariant, PoolAlwaysExact, PTL
     DEF Spec

\* The pool of 2*n_ctx cells is shared by all heads and their generations may
\* fill it, but no cold prompt, no hot prompt and no open tag of a request that
\* passed the length check is ever turned away for want of a cell.
THEOREM AlwaysFullOnlyInTheLoop == Spec => []FullOnlyInTheLoop
<1>1. ReplyInv => FullOnlyInTheLoop
  BY DEF ReplyInv
<1> QED
  BY <1>1, ReplyInvariant, PTL

\* A cold prompt that neither hits nor extends the cache is never refused for
\* its positions or for want of cells, whatever a failure left in the pool.
THEOREM AlwaysResetRecovers == Spec => ResetRecovers
<1>1. TypeOK /\ LimitInv /\ ReplyInv /\ [Next]_vars
        => [pc = "cold" /\ ~Hit /\ ~Extension
              => reply'.rc \in {"ok", "failed"}]_vars
  <2> SUFFICES ASSUME TypeOK, LimitInv, ReplyInv, Next,
                      pc = "cold", ~Hit, ~Extension
               PROVE  reply'.rc \in {"ok", "failed"}
    OBVIOUS
  <2>1. ColdReset
    BY DEF Next, Serve, Receive, ColdHit, ColdExtend, DropLeftovers, HotPrefill,
           Signal, Sample, DecodeStep
  <2>2. PICK d \in IF req.cold = <<>> THEN {[rc |-> "ok", kv |-> {}]}
                   ELSE Decode({}, ColdBatch(0)) :
          \/ d.rc = "ok" /\ reply' = [reply EXCEPT !.action = "RESET"]
          \/ d.rc # "ok" /\ Fail(d.rc)
    BY <2>1 DEF ColdReset, ResetFrom
  <2>3. Consistent({}, ColdBatch(0))
    BY DEF Consistent, Follows, SameSpan, Positions
  <2>4. d.rc \in {"ok", "failed"}
    BY <2>2, <2>3, RoomForReset DEF Decode
  <2>5. reply.rc = "ok"
    BY DEF ReplyInv
  <2> QED BY <2>2, <2>4, <2>5 DEF Fail, TypeOK, Reply
<1> QED
  BY <1>1, TypeCorrect, LimitInvariant, ReplyInvariant, PTL DEF Spec, ResetRecovers

\* After a priming request the next longer cold prompt is never refused for its
\* positions: a pool with nothing behind the record is extended where it ends.
THEOREM AlwaysPrimedThenExtends == Spec => PrimedThenExtends
<1>1. TypeOK /\ ColdInv /\ ReplyInv /\ [Next]_vars
        => [pc = "cold" /\ ~Hit /\ Extension
              /\ (\A c \in cells : c.pos < Len(coldTokens))
            => reply'.rc # "inconsistent"]_vars
  <2> SUFFICES ASSUME TypeOK, ColdInv, ReplyInv, Next,
                      pc = "cold", ~Hit, Extension,
                      \A c \in cells : c.pos < Len(coldTokens)
               PROVE  reply'.rc # "inconsistent"
    OBVIOUS
  <2> DEFINE n == Len(coldTokens)
             m == Len(req.cold)
             cell(p) == [pos |-> p, tok |-> req.cold[p + 1], seqs |-> Heads]
             batch == ColdBatch(n)
  <2>1. n \in Nat /\ m \in Nat /\ n < m
    BY Totals DEF TypeOK, Extension
  <2>2. batch = {cell(p) : p \in n .. m - 1}
    BY DEF ColdBatch
  <2>3. \A p \in 0 .. n - 1 : ColdCell(p) \in cells
    BY DEF ColdInv, CacheCoherent
  <2>4. \A c \in cells : c.pos \in 0 .. n - 1
    <3> SUFFICES ASSUME NEW c \in cells PROVE c.pos \in 0 .. n - 1
      OBVIOUS
    <3>1. c.pos \in Nat /\ c.pos < n
      BY DEF TypeOK, Cell
    <3> HIDE DEF n
    <3> QED BY <2>1, <3>1
  <2>5. \A p : cell(p).pos = p /\ cell(p).seqs = Heads
    OBVIOUS
  <2>6. \A p : ColdCell(p).pos = p /\ ColdCell(p).seqs = Heads
    BY DEF ColdCell
  <2>7. \A c \in cells : c.seqs \subseteq Heads
    BY DEF TypeOK, Cell
  <2>8. Consistent(cells, batch)
    <3> HIDE DEF n, m, cell, batch
    <3>1. \A b \in batch : b.seqs \subseteq Heads
      BY <2>2, <2>5
    <3>2. ASSUME NEW h \in Heads
          PROVE  Positions(cells, h) = 0 .. n - 1
      BY <2>3, <2>4, <2>6 DEF Positions
    <3>3. ASSUME NEW h \in Heads
          PROVE  Positions(batch, h) = n .. m - 1
      BY <2>2, <2>5 DEF Positions
    <3>4. n \in n .. m - 1 /\ \A p \in n .. m - 1 : p \in Nat /\ p >= n
      BY <2>1
    <3>5. \A h \in Heads :
            /\ n \in Positions(batch, h)
            /\ \A p \in Positions(batch, h) : p \in Nat /\ p >= n
      BY <3>3, <3>4
    <3>6. Heads \in SUBSET Heads /\ n \in Nat
      BY <2>1
    <3> QED BY <3>1, <3>2, <3>5, <3>6, ConsistentUpTo
  <2>9. ColdExtend
    BY DEF Next, Serve, Receive, ColdHit, ColdReset, ResetFrom, DropLeftovers,
           HotPrefill, Signal, Sample, DecodeStep
  <2>10. PICK d \in Decode(cells, batch) :
           \/ d.rc = "ok" /\ reply' = [reply EXCEPT !.action = "EXTEND"]
           \/ d.rc # "ok" /\ Fail(d.rc)
    BY <2>9 DEF ColdExtend
  <2>11. d.rc # "inconsistent"
    BY <2>8, <2>10 DEF Decode
  <2>12. reply.rc = "ok"
    BY DEF ReplyInv
  <2> QED BY <2>10, <2>11, <2>12 DEF Fail, TypeOK, Reply
<1> QED
  BY <1>1, TypeCorrect, ColdInvariant, ReplyInvariant, PTL
     DEF Spec, PrimedThenExtends
=============================================================================
