----------------------- MODULE SimpleToolDecode_proofs -----------------------
(***************************************************************************)
(* Theorems about SimpleToolDecode, for every number of heads, vocabulary, *)
(* set of prompts and limits.                                              *)
(***************************************************************************)
EXTENDS SimpleToolDecode, SequenceTheorems, FiniteSetTheorems, TLAPS

\* What run_simpletool_v2 keeps in its local variables: every live head has
\* picked one token per step, the loop is within its limit, and nothing is
\* generated before the first sampling step.
StepInv ==
  /\ pc \in {"sample", "decode"} => \A h \in live : Len(gen[h]) = step
  /\ pc = "decode" => step > 0
  /\ pc \in {"cold", "drop", "hot", "signal"} =>
       /\ live = {} /\ step = 0
       /\ gen = [h \in req.mask |-> <<>>]
  /\ \A h \in req.mask : Len(gen[h]) <= step
  /\ step <= req.gen
  /\ pc # "idle" => step < req.gen
  /\ pc \in {"hot", "signal", "sample", "decode"} => req.mask # {}

-----------------------------------------------------------------------------
(* The pool operators keep the type of the pool. *)

\* A decode returns a pool of cells whatever its outcome.
LEMMA DecodeType ==
  ASSUME NEW kv \in SUBSET Cell, NEW batch \in SUBSET Cell,
         NEW d \in Decode(kv, batch)
  PROVE  /\ d.kv \in SUBSET Cell
         /\ d.rc \in {"ok", "inconsistent", "full", "failed"}
<1>1. LeftBehind(batch) \in SUBSET Cell
  BY DEF LeftBehind, Cell
<1>2. QED
  BY <1>1 DEF Decode

\* The batches are made of cells.
LEMMA ColdBatchType ==
  ASSUME req.cold \in Seq(Token), NEW n \in Nat
  PROVE  ColdBatch(n) \in SUBSET Cell
<1>1. 0 \in Heads
  BY HeadsAssumption DEF Heads
<1>2. ASSUME NEW p \in n .. Len(req.cold) - 1
      PROVE  p \in Nat /\ req.cold[p + 1] \in Token
  <2>1. Len(req.cold) \in Nat
    OBVIOUS
  <2>2. p \in Nat /\ p + 1 \in 1 .. Len(req.cold)
    BY <2>1
  <2> QED BY <2>2
<1> QED BY <1>1, <1>2 DEF ColdBatch, Cell

LEMMA HotBatchType ==
  ASSUME req.cold \in Seq(Token), req.hot \in Seq(Token),
         req.mask \in SUBSET Heads, req.mask # {}
  PROVE  HotBatch \in SUBSET Cell
  BY DEF HotBatch, Cell

LEMMA HeadBatchType ==
  ASSUME NEW heads \in SUBSET Heads, NEW tok, NEW pos \in Nat,
         \A h \in heads : tok[h] \in Token
  PROVE  HeadBatch(heads, tok, pos) \in SUBSET Cell
  BY DEF HeadBatch, Cell

\* A decode leaves a pool, a stage and a reply, whatever its outcome.
LEMMA RunType ==
  ASSUME TypeOK, NEW batch \in SUBSET Cell, NEW next \in Stage,
         Run(cells, batch, next)
  PROVE  cells' \in SUBSET Cell /\ pc' \in Stage /\ reply' \in Reply
<1> PICK d \in Decode(cells, batch) :
      /\ cells' = d.kv
      /\ \/ d.rc = "ok" /\ pc' = next /\ UNCHANGED reply
         \/ d.rc # "ok" /\ Fail(d.rc)
  BY DEF Run
<1>1. /\ d.kv \in SUBSET Cell
      /\ d.rc \in {"ok", "inconsistent", "full", "failed"}
  BY DecodeType DEF TypeOK
<1>2. pc' \in Stage /\ reply' \in Reply
  BY <1>1 DEF TypeOK, Fail, Stage, Reply, Action
<1> QED BY <1>1, <1>2

-----------------------------------------------------------------------------

\* Types: the pool holds cells, the cache tokens, and the results of a request
\* belong to the heads of its mask.
THEOREM TypeCorrect == Spec => [](TypeOK /\ StepInv)
<1>1. Init => TypeOK /\ StepInv
  <2> SUFFICES ASSUME Init PROVE TypeOK /\ StepInv
    OBVIOUS
  <2>1. TypeOK
    BY DEF Init, TypeOK, Stage, Action, Reply, NoReply
  <2>2. StepInv
    BY DEF Init, StepInv
  <2> QED BY <2>1, <2>2
<1>2. TypeOK /\ StepInv /\ [Next]_vars => TypeOK' /\ StepInv'
  <2> SUFFICES ASSUME TypeOK, StepInv, [Next]_vars
               PROVE  TypeOK' /\ StepInv'
    OBVIOUS
  <2>. USE DEF Stage, Action, Reply
  <2>1. ASSUME NEW cold \in ColdPrompts, NEW hot \in HotPrompts,
               NEW mask \in SUBSET Heads, NEW byte \in MaxGenBytes,
               Receive(cold, hot, mask, byte)
        PROVE  TypeOK' /\ StepInv'
    <3>1. EffectiveGen(byte) \in Nat \ {0}
      BY LimitsAssumption DEF EffectiveGen
    <3>2. TypeOK'
      BY <2>1, <3>1, PromptAssumption DEF Receive, TypeOK, Fail, NoReply
    <3>3. StepInv'
      BY <2>1, <3>1 DEF Receive, StepInv, Fail
    <3> QED BY <3>2, <3>3
  <2>2. CASE ColdHit
    <3>1. TypeOK'
      BY <2>2 DEF ColdHit, TypeOK, UNCHANGED_REQUEST
    <3>2. StepInv'
      BY <2>2 DEF ColdHit, StepInv, UNCHANGED_REQUEST
    <3> QED BY <3>1, <3>2
  <2>3. CASE ColdExtend
    <3>1. ColdBatch(Len(coldTokens)) \in SUBSET Cell
      BY ColdBatchType DEF TypeOK
    <3> PICK d \in Decode(cells, ColdBatch(Len(coldTokens))) :
          /\ cells' = d.kv
          /\ \/ /\ d.rc = "ok"
                /\ coldTokens' = req.cold
                /\ pc' = "drop"
                /\ reply' = [reply EXCEPT !.action = "EXTEND"]
             \/ /\ d.rc # "ok"
                /\ Fail(d.rc)
                /\ UNCHANGED coldTokens
      BY <2>3 DEF ColdExtend
    <3>a. /\ d.kv \in SUBSET Cell
          /\ d.rc \in {"ok", "inconsistent", "full", "failed"}
      BY <3>1, DecodeType DEF TypeOK
    <3>2. TypeOK'
      BY <2>3, <3>a DEF ColdExtend, TypeOK, UNCHANGED_REQUEST, Fail
    <3>3. StepInv'
      BY <2>3 DEF ColdExtend, StepInv, UNCHANGED_REQUEST, Fail
    <3> QED BY <3>2, <3>3
  <2>4. CASE ColdReset
    <3>1. ColdBatch(0) \in SUBSET Cell
      BY ColdBatchType DEF TypeOK
    <3> PICK d \in IF req.cold = <<>> THEN {[rc |-> "ok", kv |-> {}]}
                    ELSE Decode({}, ColdBatch(0)) :
          /\ cells' = d.kv
          /\ \/ /\ d.rc = "ok"
                /\ coldTokens' = req.cold
                /\ pc' = "drop"
                /\ reply' = [reply EXCEPT !.action = "RESET"]
             \/ /\ d.rc # "ok"
                /\ Fail(d.rc)
                /\ coldTokens' = <<>>
      BY <2>4 DEF ColdReset, ResetFrom
    <3>a. /\ d.kv \in SUBSET Cell
          /\ d.rc \in {"ok", "inconsistent", "full", "failed"}
      <4>1. CASE req.cold = <<>>  BY <4>1
      <4>2. CASE req.cold # <<>>  BY <4>2, <3>1, DecodeType
      <4> QED BY <4>1, <4>2
    <3>b. UNCHANGED <<req, live, gen, nulls, step>>
      BY <2>4 DEF ColdReset, ResetFrom, UNCHANGED_REQUEST
    <3>c. cells' \in SUBSET Cell /\ pc' \in Stage
      BY <3>a DEF Fail
    <3>e. coldTokens' \in Seq(Token)
      <4>1. coldTokens' \in {req.cold, <<>>}
        OBVIOUS
      <4>2. <<>> \in Seq(Token)
        OBVIOUS
      <4> QED BY <4>1, <4>2 DEF TypeOK
    <3>d. reply' \in Reply
      BY <3>a DEF TypeOK, Fail
    <3>2. TypeOK'
      BY <3>b, <3>c, <3>d, <3>e DEF TypeOK
    <3>3. StepInv'
      BY <2>4 DEF ColdReset, ResetFrom, StepInv, UNCHANGED_REQUEST, Fail
    <3> QED BY <3>2, <3>3
  <2>5. CASE DropLeftovers
    <3>1. TypeOK'
      BY <2>5 DEF DropLeftovers, SeqRmAll, TypeOK, UNCHANGED_REQUEST, Answer
    <3>2. StepInv'
      BY <2>5 DEF DropLeftovers, StepInv, UNCHANGED_REQUEST, Answer
    <3> QED BY <3>1, <3>2
  <2>6. CASE HotPrefill
    <3>1. HotBatch \in SUBSET Cell
      BY <2>6, HotBatchType DEF TypeOK, StepInv, HotPrefill
    <3>2. TypeOK'
      <4>1. cells' \in SUBSET Cell /\ pc' \in Stage /\ reply' \in Reply
        BY <2>6, <3>1, RunType DEF HotPrefill
      <4> QED BY <2>6, <4>1 DEF HotPrefill, TypeOK, UNCHANGED_REQUEST
    <3>3. StepInv'
      BY <2>6 DEF HotPrefill, Run, StepInv, UNCHANGED_REQUEST, Fail
    <3> QED BY <3>2, <3>3
  <2>7. CASE Signal
    <3>1. HeadBatch(req.mask, OpenId, NTotal) \in SUBSET Cell
      <4>1. req.mask \in SUBSET Heads /\ NTotal \in Nat
        BY DEF TypeOK, NTotal
      <4>2. \A h \in req.mask : OpenId[h] \in Token
        BY <4>1, OpenIdAssumption
      <4> QED BY <4>1, <4>2, HeadBatchType
    <3>2. TypeOK'
      <4>1. cells' \in SUBSET Cell /\ pc' \in Stage /\ reply' \in Reply
        BY <2>7, <3>1, RunType DEF Signal
      <4> QED BY <2>7, <4>1 DEF Signal, TypeOK
    <3>3. StepInv'
      BY <2>7 DEF Signal, Run, StepInv, Fail
    <3> QED BY <3>2, <3>3
  <2>8. CASE Sample
    <3> PICK pick \in [live -> GenToken \cup Ends] :
          LET on == {h \in live : pick[h] \in GenToken}
          IN  /\ live' = on
              /\ gen' = [h \in req.mask |-> IF h \in on THEN Append(gen[h], pick[h])
                                            ELSE gen[h]]
              /\ nulls' = nulls \cup {h \in live : pick[h] = "null"}
              /\ step' = step + 1
              /\ IF step + 1 < req.gen /\ on # {}
                 THEN pc' = "decode" /\ UNCHANGED reply
                 ELSE Answer(reply.action)
      BY <2>8 DEF Sample
    <3>0. \A h \in live : pick[h] \in GenToken => pick[h] \in Token
      BY GenTokenAssumption
    <3>1. TypeOK'
      BY <2>8, <3>0 DEF Sample, TypeOK, Answer
    <3>2. StepInv'
      BY <2>8 DEF Sample, StepInv, TypeOK, Answer
    <3> QED BY <3>1, <3>2
  <2>9. CASE DecodeStep
    <3>1. \A h \in live : LastGen[h] \in Token
      BY <2>9 DEF DecodeStep, LastGen, TypeOK, StepInv
    <3>2. HeadBatch(live, LastGen, NTotal + step) \in SUBSET Cell
      BY <3>1, HeadBatchType DEF TypeOK, NTotal
    <3>3. TypeOK'
      <4>1. cells' \in SUBSET Cell /\ pc' \in Stage /\ reply' \in Reply
        BY <2>9, <3>2, RunType DEF DecodeStep
      <4> QED BY <2>9, <4>1 DEF DecodeStep, TypeOK, UNCHANGED_REQUEST
    <3>4. StepInv'
      BY <2>9 DEF DecodeStep, Run, StepInv, UNCHANGED_REQUEST, Fail
    <3> QED BY <3>3, <3>4
  <2>10. CASE UNCHANGED vars
    <3>1. TypeOK'
      BY <2>10 DEF vars, TypeOK
    <3>2. StepInv'
      BY <2>10 DEF vars, StepInv
    <3> QED BY <3>1, <3>2
  <2> QED
    BY <2>1, <2>2, <2>3, <2>4, <2>5, <2>6, <2>7, <2>8, <2>9, <2>10
       DEF Next, Serve
<1> QED
  BY <1>1, <1>2, PTL DEF Spec

-----------------------------------------------------------------------------
(* The cold cache *)

\* While a request is past ensure_cold_cache the record is its cold prompt.
ColdInv ==
  /\ CacheCoherent
  /\ pc \in {"drop", "hot", "signal", "sample", "decode"} => coldTokens = req.cold

\* A decode leaves alone what is below the positions of its batch.
LEMMA DecodeAbove ==
  ASSUME NEW kv, NEW batch, NEW n \in Nat,
         \A b \in batch : b.pos >= n,
         NEW d \in Decode(kv, batch), NEW c, ~ c.pos >= n
  PROVE  c \in d.kv <=> c \in kv
<1>1. c \notin batch
  OBVIOUS
<1>2. c \notin LeftBehind(batch)
  BY DEF LeftBehind
<1>3. QED
  BY <1>1, <1>2 DEF Decode

\* Coherence speaks of the cached positions only.
LEMMA CoherentBelow ==
  ASSUME CacheCoherent, TypeOK, cells' \in SUBSET Cell, coldTokens' = coldTokens,
         \A c \in Cell : c.pos < Len(coldTokens) => (c \in cells' <=> c \in cells)
  PROVE  CacheCoherent'
<1> SUFFICES ASSUME NEW p \in 0 .. Len(coldTokens) - 1
             PROVE  {c \in cells' : c.pos = p} = {ColdCell(p)}
  BY DEF CacheCoherent, ColdCell
<1>1. {c \in cells : c.pos = p} = {ColdCell(p)}
  BY DEF CacheCoherent
<1>2. Len(coldTokens) \in Nat
  BY DEF TypeOK
<1>3. \A c \in Cell : c.pos = p => (c \in cells' <=> c \in cells)
  <2> SUFFICES ASSUME NEW c \in Cell, c.pos = p
               PROVE  c \in cells' <=> c \in cells
    OBVIOUS
  <2>1. c.pos < Len(coldTokens)
    BY <1>2
  <2> QED BY <2>1
<1>4. {c \in cells' : c.pos = p} = {c \in cells : c.pos = p}
  BY <1>3 DEF TypeOK
<1> QED BY <1>1, <1>4

\* A batch accepted behind the cached positions finds nothing there.
LEMMA NothingBehind ==
  ASSUME TypeOK, CacheCoherent, req.cold \in Seq(Token),
         coldTokens # <<>>, Len(coldTokens) < Len(req.cold),
         Consistent(cells, ColdBatch(Len(coldTokens)))
  PROVE  \A c \in cells : c.pos < Len(coldTokens)
<1> DEFINE n == Len(coldTokens)
           batch == ColdBatch(n)
           first == [pos |-> n, tok |-> req.cold[n + 1], seqs |-> Heads]
<1>1. n \in Nat \ {0} /\ Len(req.cold) \in Nat
  <2>1. coldTokens \in Seq(Token) /\ req.cold \in Seq(Token)
    BY DEF TypeOK
  <2>2. n # 0
    BY <2>1
  <2> QED BY <2>1, <2>2
<1>2. first \in batch
  <2>1. n \in n .. Len(req.cold) - 1
    BY <1>1
  <2> QED BY <2>1 DEF ColdBatch
<1> SUFFICES ASSUME NEW c \in cells PROVE c.pos < n
  OBVIOUS
<1> PICK h \in Heads : h \in c.seqs
  BY DEF TypeOK, Cell
<1>3. Follows(cells, batch, h)
  BY <1>2 DEF Consistent
<1>4. n \in Positions(batch, h)
  BY <1>2 DEF Positions
<1>5. c.pos \in Positions(cells, h)
  BY DEF Positions
<1>6. PICK last \in Positions(cells, h) :
        /\ \A p \in Positions(cells, h) : p <= last
        /\ \A p \in Positions(batch, h) : last < p
  BY <1>3, <1>5 DEF Follows
<1>7. last \in Nat /\ c.pos \in Nat
  BY DEF Positions, TypeOK, Cell
<1> QED BY <1>1, <1>4, <1>5, <1>6, <1>7

\* The invariant behind the next theorem; it is inductive together with TypeOK.
LEMMA ColdInvariant == Spec => []ColdInv
<1>1. Init => ColdInv
  BY DEF Init, ColdInv, CacheCoherent
<1>2. TypeOK /\ TypeOK' /\ StepInv /\ ColdInv /\ [Next]_vars => ColdInv'
  <2> SUFFICES ASSUME TypeOK, TypeOK', StepInv, ColdInv, [Next]_vars
               PROVE  ColdInv'
    OBVIOUS
  <2>0. Len(coldTokens) \in Nat /\ cells' \in SUBSET Cell
    BY DEF TypeOK
  \* Steps which leave the record alone and the cells below its end.
  <2>a. ASSUME coldTokens' = coldTokens, req' = req,
               pc' \in {"drop", "hot", "signal", "sample", "decode"}
                 => coldTokens = req.cold,
               \A c \in Cell : c.pos < Len(coldTokens) =>
                                 (c \in cells' <=> c \in cells)
        PROVE  ColdInv'
    BY <2>0, <2>a, CoherentBelow DEF ColdInv
  \* Decoding a batch behind the cold prompt.
  <2>b. ASSUME NEW batch, NEW next, Run(cells, batch, next),
               coldTokens' = coldTokens, req' = req, coldTokens = req.cold,
               \A b \in batch : b.pos >= Len(coldTokens)
        PROVE  ColdInv'
    <3> PICK d \in Decode(cells, batch) : cells' = d.kv
      BY <2>b DEF Run
    <3>1. \A c \in Cell : c.pos < Len(coldTokens) =>
                             (c \in cells' <=> c \in cells)
      <4> SUFFICES ASSUME NEW c \in Cell, c.pos < Len(coldTokens)
                   PROVE  c \in cells' <=> c \in cells
        OBVIOUS
      <4>1. ~ c.pos >= Len(coldTokens)
        BY <2>0 DEF Cell
      <4> QED BY <2>0, <2>b, <4>1, DecodeAbove
    <3> QED BY <2>a, <2>b, <3>1
  <2>1. ASSUME NEW cold \in ColdPrompts, NEW hot \in HotPrompts,
               NEW mask \in SUBSET Heads, NEW byte \in MaxGenBytes,
               Receive(cold, hot, mask, byte)
        PROVE  ColdInv'
    BY <2>1 DEF Receive, ColdInv, CacheCoherent, ColdCell, Fail
  <2>2. CASE ColdHit
    BY <2>2 DEF ColdHit, Hit, ColdInv, CacheCoherent, ColdCell, UNCHANGED_REQUEST
  <2>3. CASE ColdExtend
    <3> DEFINE n == Len(coldTokens)
    <3> PICK d \in Decode(cells, ColdBatch(n)) :
          /\ cells' = d.kv
          /\ \/ /\ d.rc = "ok"
                /\ coldTokens' = req.cold
                /\ pc' = "drop"
             \/ /\ d.rc # "ok"
                /\ Fail(d.rc)
                /\ UNCHANGED coldTokens
      BY <2>3 DEF ColdExtend
    <3>0. req' = req /\ pc = "cold" /\ Extension
      BY <2>3 DEF ColdExtend, UNCHANGED_REQUEST
    <3>1. \A b \in ColdBatch(n) : b.pos >= n
      BY <2>0 DEF ColdBatch
    <3>2. \A c \in Cell : c.pos < n => (c \in cells' <=> c \in cells)
      <4> SUFFICES ASSUME NEW c \in Cell, c.pos < n
                   PROVE  c \in cells' <=> c \in cells
        OBVIOUS
      <4>1. ~ c.pos >= n
        BY <2>0 DEF Cell
      <4> QED BY <2>0, <3>1, <4>1, DecodeAbove
    <3>3. CASE d.rc # "ok"
      <4>1. coldTokens' = coldTokens /\ pc' = "idle"
        BY <3>3 DEF Fail
      <4> QED BY <2>a, <3>0, <3>2, <4>1
    <3>4. CASE d.rc = "ok"
      <4>1. coldTokens' = req.cold /\ pc' = "drop"
        BY <3>4
      <4>2. Consistent(cells, ColdBatch(n)) /\ cells' = cells \cup ColdBatch(n)
        BY <3>4 DEF Decode
      <4>3. \A c \in cells : c.pos < n
        BY <3>0, <4>2, NothingBehind DEF ColdInv, Extension, TypeOK
      <4>4. CacheCoherent'
        <5> SUFFICES ASSUME NEW p \in 0 .. Len(req.cold) - 1
                     PROVE  {c \in cells' : c.pos = p} =
                              {[pos |-> p, tok |-> req.cold[p + 1], seqs |-> Heads]}
          BY <4>1 DEF CacheCoherent, ColdCell
        <5>1. CASE p < n
          <6>1. p \in 0 .. n - 1 /\ req.cold[p + 1] = coldTokens[p + 1]
            BY <2>0, <3>0, <5>1 DEF Extension
          <6>2. {c \in cells : c.pos = p} = {ColdCell(p)}
            BY <6>1 DEF ColdInv, CacheCoherent
          <6>3. \A c \in ColdBatch(n) : c.pos # p
            BY <2>0, <3>1, <5>1
          <6>4. {c \in cells' : c.pos = p} = {c \in cells : c.pos = p}
            BY <4>2, <6>3
          <6> QED BY <6>1, <6>2, <6>4 DEF ColdCell
        <5>2. CASE ~ p < n
          <6>1. p \in n .. Len(req.cold) - 1
            BY <2>0, <5>2
          <6>2. \A c \in cells : c.pos # p
            BY <4>3, <5>2
          <6>3. {c \in cells' : c.pos = p} = {c \in ColdBatch(n) : c.pos = p}
            BY <4>2, <6>2
          <6>4. {c \in ColdBatch(n) : c.pos = p} =
                  {[pos |-> p, tok |-> req.cold[p + 1], seqs |-> Heads]}
            BY <6>1 DEF ColdBatch
          <6> QED BY <6>3, <6>4
        <5> QED BY <5>1, <5>2
      <4> QED BY <3>0, <4>1, <4>4 DEF ColdInv
    <3> QED BY <3>3, <3>4
  <2>4. CASE ColdReset
    <3> PICK d \in IF req.cold = <<>> THEN {[rc |-> "ok", kv |-> {}]}
                    ELSE Decode({}, ColdBatch(0)) :
          /\ cells' = d.kv
          /\ \/ /\ d.rc = "ok"
                /\ coldTokens' = req.cold
                /\ pc' = "drop"
             \/ /\ d.rc # "ok"
                /\ Fail(d.rc)
                /\ coldTokens' = <<>>
      BY <2>4 DEF ColdReset, ResetFrom
    <3>0. req' = req
      BY <2>4 DEF ColdReset, ResetFrom, UNCHANGED_REQUEST
    <3>1. CASE d.rc # "ok"
      BY <3>1 DEF Fail, ColdInv, CacheCoherent
    <3>2. CASE d.rc = "ok"
      <4>1. coldTokens' = req.cold /\ pc' = "drop"
        BY <3>2
      <4>2. cells' = ColdBatch(0)
        <5>1. CASE req.cold = <<>>
          BY <5>1 DEF ColdBatch
        <5>2. CASE req.cold # <<>>
          BY <3>2, <5>2 DEF Decode
        <5> QED BY <5>1, <5>2
      <4>3. CacheCoherent'
        BY <4>1, <4>2 DEF CacheCoherent, ColdCell, ColdBatch
      <4> QED BY <3>0, <4>1, <4>3 DEF ColdInv
    <3> QED BY <3>1, <3>2
  <2>5. CASE DropLeftovers
    <3>1. coldTokens' = coldTokens /\ req' = req /\ coldTokens = req.cold
      BY <2>5 DEF DropLeftovers, UNCHANGED_REQUEST, ColdInv
    <3>2. cells' = {c \in cells : c.pos < Len(coldTokens)}
      BY <2>5, <3>1 DEF DropLeftovers, SeqRmAll
    <3> QED BY <2>a, <3>1, <3>2
  <2>6. CASE HotPrefill
    <3>1. coldTokens' = coldTokens /\ req' = req /\ coldTokens = req.cold
      BY <2>6 DEF HotPrefill, UNCHANGED_REQUEST, ColdInv
    <3>2. \A b \in HotBatch : b.pos >= Len(coldTokens)
      BY <2>0, <3>1 DEF HotBatch
    <3> QED BY <2>6, <2>b, <3>1, <3>2 DEF HotPrefill
  <2>7. CASE Signal
    <3>1. coldTokens' = coldTokens /\ req' = req /\ coldTokens = req.cold
      BY <2>7 DEF Signal, ColdInv
    <3>2. \A b \in HeadBatch(req.mask, OpenId, NTotal) : b.pos >= Len(coldTokens)
      BY <2>0, <3>1 DEF HeadBatch, NTotal, TypeOK
    <3> QED BY <2>7, <2>b, <3>1, <3>2 DEF Signal
  <2>8. CASE Sample
    <3>1. /\ coldTokens' = coldTokens /\ req' = req /\ coldTokens = req.cold
          /\ cells' = cells
      BY <2>8 DEF Sample, ColdInv
    <3> QED BY <2>a, <3>1
  <2>9. CASE DecodeStep
    <3>1. coldTokens' = coldTokens /\ req' = req /\ coldTokens = req.cold
      BY <2>9 DEF DecodeStep, UNCHANGED_REQUEST, ColdInv
    <3>2. \A b \in HeadBatch(live, LastGen, NTotal + step) : b.pos >= Len(coldTokens)
      BY <2>0, <3>1 DEF HeadBatch, NTotal, TypeOK
    <3> QED BY <2>9, <2>b, <3>1, <3>2 DEF DecodeStep
  <2>10. CASE UNCHANGED vars
    BY <2>10 DEF vars, ColdInv, CacheCoherent, ColdCell
  <2> QED
    BY <2>1, <2>2, <2>3, <2>4, <2>5, <2>6, <2>7, <2>8, <2>9, <2>10
       DEF Next, Serve
<1> QED
  BY <1>1, <1>2, TypeCorrect, PTL DEF Spec

\* The cold cache record and the KV pool agree in every reachable state, also
\* after any decode failed: a HIT or an EXTEND builds on the right prefix.
THEOREM CacheAlwaysCoherent == Spec => []CacheCoherent
<1>1. ColdInv => CacheCoherent
  BY DEF ColdInv
<1> QED
  BY <1>1, ColdInvariant, PTL

(***************************************************************************)
(* What the KV pool holds while a request is decoded, and what follows:    *)
(* heads are sampled from their own context only.                          *)
(***************************************************************************)

\* Dropping the leftovers leaves the cold prompt.
LEMMA DropToCold ==
  ASSUME TypeOK, CacheCoherent, coldTokens = req.cold
  PROVE  SeqRmAll(cells, Len(req.cold)) = ColdBatch(0)
<1> DEFINE n == Len(req.cold)
<1>1. n \in Nat
  BY DEF TypeOK
<1>2. \A p \in 0 .. n - 1 : {c \in cells : c.pos = p} =
        {[pos |-> p, tok |-> req.cold[p + 1], seqs |-> Heads]}
  BY DEF CacheCoherent, ColdCell
<1>3. ASSUME NEW c \in cells, c.pos < n
      PROVE  c \in ColdBatch(0)
  <2>1. c.pos \in 0 .. n - 1
    BY <1>1, <1>3 DEF TypeOK, Cell
  <2>2. c = [pos |-> c.pos, tok |-> req.cold[c.pos + 1], seqs |-> Heads]
    BY <1>2, <2>1
  <2> QED BY <2>1, <2>2 DEF ColdBatch
<1>4. ASSUME NEW c \in ColdBatch(0)
      PROVE  c \in cells /\ c.pos < n
  <2> PICK p \in 0 .. n - 1 :
        c = [pos |-> p, tok |-> req.cold[p + 1], seqs |-> Heads]
    BY DEF ColdBatch
  <2>1. c \in cells
    BY <1>2
  <2> QED BY <1>1, <2>1
<1> QED BY <1>3, <1>4 DEF SeqRmAll

\* Starting every head of the mask adds its first cell.
LEMMA SignalCells ==
  ASSUME TypeOK, StepInv, pc = "signal", pc' = "sample",
         req' = req, gen' = gen
  PROVE  UNION {HeadCells(h)' : h \in req.mask} =
           HeadBatch(req.mask, OpenId, NTotal)
<1>1. ASSUME NEW h \in req.mask
      PROVE  HeadCells(h)' =
               {[pos |-> NTotal, tok |-> OpenId[h], seqs |-> {h}]}
  <2>1. gen[h] = <<>> /\ Fed(h)' = 1
    BY DEF StepInv, Fed
  <2>2. NTotal \in Nat /\ NTotal' = NTotal
    BY DEF TypeOK, NTotal
  <2>3. HeadCells(h)' =
          {[pos |-> NTotal + i, tok |-> IF i = 0 THEN OpenId[h] ELSE gen[h][i],
            seqs |-> {h}] : i \in 0 .. 0}
    BY <2>1, <2>2 DEF HeadCells
  <2> QED BY <2>2, <2>3
<1> QED BY <1>1 DEF HeadBatch

\* Sampling changes no head's cells: the token a head picked is not fed yet.
LEMMA SampleCells ==
  ASSUME TypeOK, TypeOK', StepInv, Sample, pc' = "decode", NEW h \in req.mask
  PROVE  HeadCells(h)' = HeadCells(h)
<1> PICK pick \in [live -> GenToken \cup Ends] :
      LET on == {k \in live : pick[k] \in GenToken}
      IN  /\ live' = on
          /\ gen' = [k \in req.mask |-> IF k \in on THEN Append(gen[k], pick[k])
                                        ELSE gen[k]]
  BY DEF Sample
<1>0. pc = "sample" /\ req' = req /\ NTotal' = NTotal
  BY DEF Sample, NTotal
<1>1. gen[h] \in Seq(Token)
  BY DEF TypeOK
<1>2. CASE h \in live'
  <2>1. gen'[h] = Append(gen[h], pick[h])
    BY <1>2
  <2>2. Len(gen'[h]) = Len(gen[h]) + 1
    BY <1>1, <2>1
  <2>3. Fed(h)' = Len(gen[h]) + 1 /\ Fed(h) = Len(gen[h]) + 1
    BY <1>0, <1>2, <2>2 DEF Fed
  <2>4. \A i \in 1 .. Len(gen[h]) : gen'[h][i] = gen[h][i]
    BY <1>1, <2>1
  <2>5. \A i \in 0 .. Len(gen[h]) : i # 0 => i \in 1 .. Len(gen[h])
    BY <1>1
  <2>6. 0 .. Fed(h) - 1 = 0 .. Len(gen[h]) /\ 0 .. Fed(h)' - 1 = 0 .. Len(gen[h])
    BY <1>1, <2>3
  <2> QED BY <1>0, <2>4, <2>5, <2>6 DEF HeadCells
<1>3. CASE h \notin live'
  <2>1. gen'[h] = gen[h]
    BY <1>3
  <2>2. Fed(h)' = Fed(h)
    BY <1>0, <1>3, <2>1 DEF Fed
  <2> QED BY <1>0, <2>1, <2>2 DEF HeadCells
<1> QED BY <1>2, <1>3

\* Feeding the picked tokens back adds one cell to every live head.
LEMMA FeedCells ==
  ASSUME TypeOK, StepInv, pc = "decode", pc' = "sample",
         req' = req, gen' = gen, live' = live
  PROVE  UNION {HeadCells(h)' : h \in req.mask} =
           (UNION {HeadCells(h) : h \in req.mask})
             \cup HeadBatch(live, LastGen, NTotal + step)
<1> DEFINE new(h) == [pos |-> NTotal + step, tok |-> LastGen[h], seqs |-> {h}]
<1>0. NTotal' = NTotal /\ NTotal \in Nat
  BY DEF TypeOK, NTotal
<1>1. ASSUME NEW h \in live
      PROVE  HeadCells(h)' = HeadCells(h) \cup {new(h)}
  <2>1. gen[h] \in Seq(Token) /\ Len(gen[h]) = step /\ step \in Nat \ {0}
    BY DEF TypeOK, StepInv
  <2>2. Fed(h) = step /\ Fed(h)' = step + 1
    BY <1>1, <2>1 DEF Fed
  <2>3. 0 .. Fed(h)' - 1 = (0 .. Fed(h) - 1) \cup {step}
    BY <2>1, <2>2
  <2>4. new(h) = [pos |-> NTotal + step,
                  tok |-> IF step = 0 THEN OpenId[h] ELSE gen[h][step],
                  seqs |-> {h}]
    BY <2>1 DEF LastGen
  <2> QED BY <1>0, <2>3, <2>4 DEF HeadCells
<1>2. ASSUME NEW h \in req.mask, h \notin live
      PROVE  HeadCells(h)' = HeadCells(h)
  <2>1. Fed(h)' = Fed(h)
    BY <1>2 DEF Fed
  <2> QED BY <1>0, <2>1 DEF HeadCells
<1>3. HeadBatch(live, LastGen, NTotal + step) = {new(h) : h \in live}
  BY DEF HeadBatch
<1>4. live \subseteq req.mask
  BY DEF TypeOK
<1> DEFINE old == UNION {HeadCells(h) : h \in req.mask}
           now == UNION {HeadCells(h)' : h \in req.mask}
<1>5. ASSUME NEW c \in now
      PROVE  c \in old \cup {new(h) : h \in live}
  <2> PICK h \in req.mask : c \in HeadCells(h)'
    OBVIOUS
  <2>1. CASE h \in live  BY <1>1, <2>1
  <2>2. CASE h \notin live  BY <1>2, <2>2
  <2> QED BY <2>1, <2>2
<1>6. ASSUME NEW c \in old
      PROVE  c \in now
  <2> PICK h \in req.mask : c \in HeadCells(h)
    OBVIOUS
  <2>1. CASE h \in live  BY <1>1, <2>1
  <2>2. CASE h \notin live  BY <1>2, <2>2
  <2> QED BY <2>1, <2>2
<1>7. ASSUME NEW h \in live
      PROVE  new(h) \in now
  BY <1>1, <1>4
<1>8. now = old \cup {new(h) : h \in live}
  BY <1>5, <1>6, <1>7
<1> QED BY <1>3, <1>8

-----------------------------------------------------------------------------

\* A successful decode adds its batch.
LEMMA RunOk ==
  ASSUME NEW kv, NEW batch, NEW next, next # "idle", Run(kv, batch, next)
  PROVE  \/ pc' = "idle"
         \/ pc' = next /\ cells' = kv \cup batch /\ Consistent(kv, batch)
  BY DEF Run, Decode, Fail

\* Cell by cell, the pool holds what the request put there.
THEOREM PoolAlwaysExact == Spec => []PoolExact
<1>1. Init => PoolExact
  BY DEF Init, PoolExact
<1>2. TypeOK /\ TypeOK' /\ StepInv /\ ColdInv /\ PoolExact /\ [Next]_vars => PoolExact'
  <2> SUFFICES ASSUME TypeOK, TypeOK', StepInv, ColdInv, PoolExact, [Next]_vars
               PROVE  PoolExact'
    OBVIOUS
  <2>1. ASSUME NEW cold \in ColdPrompts, NEW hot \in HotPrompts,
               NEW mask \in SUBSET Heads, NEW byte \in MaxGenBytes,
               Receive(cold, hot, mask, byte)
        PROVE  PoolExact'
    BY <2>1 DEF Receive, PoolExact, Fail
  <2>2. CASE ColdHit
    BY <2>2 DEF ColdHit, PoolExact
  <2>3. CASE ColdExtend
    <3>1. pc' \in {"idle", "drop"}
      BY <2>3 DEF ColdExtend, Fail
    <3> QED BY <3>1 DEF PoolExact
  <2>4. CASE ColdReset
    <3>1. pc' \in {"idle", "drop"}
      BY <2>4 DEF ColdReset, ResetFrom, Fail
    <3> QED BY <3>1 DEF PoolExact
  <2>5. CASE DropLeftovers
    <3>1. req' = req /\ cells' = ColdBatch(0)
      BY <2>5, DropToCold DEF DropLeftovers, UNCHANGED_REQUEST, ColdInv
    <3>2. pc' \in {"idle", "hot", "signal"} /\ (pc' = "signal" => req.hot = <<>>)
      BY <2>5 DEF DropLeftovers, Answer
    <3>3. req.hot = <<>> => HotBatch = {}
      BY DEF HotBatch
    <3> QED BY <3>1, <3>2, <3>3 DEF PoolExact, ColdBatch, HotBatch
  <2>6. CASE HotPrefill
    <3>1. req' = req /\ cells = ColdBatch(0)
      BY <2>6 DEF HotPrefill, UNCHANGED_REQUEST, PoolExact
    <3>2. \/ pc' = "idle"
          \/ pc' = "signal" /\ cells' = cells \cup HotBatch
      BY <2>6, RunOk DEF HotPrefill
    <3> QED BY <3>1, <3>2 DEF PoolExact, ColdBatch, HotBatch
  <2>7. CASE Signal
    <3>1. pc = "signal" /\ req' = req /\ gen' = gen /\ cells = ColdBatch(0) \cup HotBatch
      BY <2>7 DEF Signal, PoolExact
    <3>2. \/ pc' = "idle"
          \/ pc' = "sample" /\ cells' = cells \cup HeadBatch(req.mask, OpenId, NTotal)
      BY <2>7, RunOk DEF Signal
    <3>3. CASE pc' = "idle"  BY <3>3 DEF PoolExact
    <3>4. CASE pc' = "sample"
      <4>1. UNION {HeadCells(h)' : h \in req.mask} = HeadBatch(req.mask, OpenId, NTotal)
        BY <3>1, <3>4, SignalCells
      <4>2. ColdBatch(0)' = ColdBatch(0) /\ HotBatch' = HotBatch
        BY <3>1 DEF ColdBatch, HotBatch
      <4> QED BY <3>1, <3>2, <3>4, <4>1, <4>2 DEF PoolExact
    <3> QED BY <3>2, <3>3, <3>4
  <2>8. CASE Sample
    <3>1. pc = "sample" /\ req' = req /\ cells' = cells /\ pc' \in {"idle", "decode"}
      BY <2>8 DEF Sample, Answer
    <3>2. CASE pc' = "idle"  BY <3>2 DEF PoolExact
    <3>3. CASE pc' = "decode"
      <4>1. \A h \in req.mask : HeadCells(h)' = HeadCells(h)
        BY <2>8, <3>3, SampleCells
      <4>2. UNION {HeadCells(h)' : h \in req.mask} = UNION {HeadCells(h) : h \in req.mask}
        BY <4>1
      <4>3. ColdBatch(0)' = ColdBatch(0) /\ HotBatch' = HotBatch
        BY <3>1 DEF ColdBatch, HotBatch
      <4> QED BY <3>1, <3>3, <4>2, <4>3 DEF PoolExact
    <3> QED BY <3>1, <3>2, <3>3
  <2>9. CASE DecodeStep
    <3>1. pc = "decode" /\ req' = req /\ gen' = gen /\ live' = live
      BY <2>9 DEF DecodeStep, UNCHANGED_REQUEST
    <3>2. \/ pc' = "idle"
          \/ /\ pc' = "sample"
             /\ cells' = cells \cup HeadBatch(live, LastGen, NTotal + step)
      BY <2>9, RunOk DEF DecodeStep
    <3>3. CASE pc' = "idle"  BY <3>3 DEF PoolExact
    <3>4. CASE pc' = "sample"
      <4>1. UNION {HeadCells(h)' : h \in req.mask} =
              (UNION {HeadCells(h) : h \in req.mask})
                \cup HeadBatch(live, LastGen, NTotal + step)
        BY <3>1, <3>4, FeedCells
      <4>2. ColdBatch(0)' = ColdBatch(0) /\ HotBatch' = HotBatch
        BY <3>1 DEF ColdBatch, HotBatch
      <4>3. cells = ColdBatch(0) \cup HotBatch \cup UNION {HeadCells(h) : h \in req.mask}
        BY <3>1 DEF PoolExact
      <4> QED BY <3>1, <3>2, <3>4, <4>1, <4>2, <4>3 DEF PoolExact
    <3> QED BY <3>2, <3>3, <3>4
  <2>10. CASE UNCHANGED vars
    <3>1. /\ pc' = pc /\ cells' = cells /\ req' = req
          /\ ColdBatch(0)' = ColdBatch(0) /\ HotBatch' = HotBatch
          /\ \A h \in req.mask : HeadCells(h)' = HeadCells(h)
      BY <2>10 DEF vars, ColdBatch, HotBatch, HeadCells, Fed, NTotal
    <3>2. UNION {HeadCells(h)' : h \in req.mask} = UNION {HeadCells(h) : h \in req.mask}
      BY <3>1
    <3> QED BY <3>1, <3>2 DEF PoolExact
  <2> QED
    BY <2>1, <2>2, <2>3, <2>4, <2>5, <2>6, <2>7, <2>8, <2>9, <2>10
       DEF Next, Serve
<1> QED
  BY <1>1, <1>2, TypeCorrect, ColdInvariant, PTL DEF Spec

-----------------------------------------------------------------------------
(* What a head attends to *)

\* The tokens of a sequence placed from a position on.
Placed(s, at) == {<<at + i - 1, s[i]>> : i \in 1 .. Len(s)}

LEMMA PlacedConcat ==
  ASSUME NEW S, NEW s \in Seq(S), NEW t \in Seq(S), NEW at \in Nat
  PROVE  Placed(s \o t, at) = Placed(s, at) \cup Placed(t, at + Len(s))
<1> DEFINE st == s \o t
<1> PICK m \in Nat : m = Len(s)
  OBVIOUS
<1> PICK n \in Nat : n = Len(t)
  OBVIOUS
<1>1. /\ Len(st) = m + n
      /\ \A i \in 1 .. m + n : st[i] = IF i <= m THEN s[i] ELSE t[i - m]
  BY ConcatProperties
<1> HIDE DEF st
<1>2. ASSUME NEW i \in 1 .. m + n
      PROVE  <<at + i - 1, st[i]>> \in Placed(s, at) \cup Placed(t, at + m)
  <2>1. CASE i <= m
    <3>1. i \in 1 .. m /\ st[i] = s[i]
      BY <1>1, <2>1
    <3> QED BY <3>1 DEF Placed
  <2>2. CASE ~ i <= m
    <3> PICK k \in Nat : k = i
      OBVIOUS
    <3>0. k - m \in 1 .. n
      BY <2>2
    <3> PICK j \in 1 .. n : j = k - m
      BY <3>0
    <3>1. st[i] = t[j] /\ at + i - 1 = (at + m) + j - 1
      BY <1>1, <2>2
    <3> QED BY <3>1 DEF Placed
  <2> QED BY <2>1, <2>2
<1>3. ASSUME NEW i \in 1 .. m
      PROVE  <<at + i - 1, s[i]>> \in Placed(st, at)
  <2>1. i \in 1 .. m + n /\ st[i] = s[i]
    BY <1>1
  <2> QED BY <1>1, <2>1 DEF Placed
<1>4. ASSUME NEW j \in 1 .. n
      PROVE  <<(at + m) + j - 1, t[j]>> \in Placed(st, at)
  <2> PICK i \in 1 .. m + n : i = m + j
    OBVIOUS
  <2>1. st[i] = t[j] /\ at + i - 1 = (at + m) + j - 1
    BY <1>1
  <2> QED BY <1>1, <2>1 DEF Placed
<1>5. Placed(st, at) = Placed(s, at) \cup Placed(t, at + m)
  <2>1. Placed(st, at) = {<<at + i - 1, st[i]>> : i \in 1 .. m + n}
    BY <1>1 DEF Placed
  <2>2. Placed(s, at) = {<<at + i - 1, s[i]>> : i \in 1 .. m}
    BY DEF Placed
  <2>3. Placed(t, at + m) = {<<(at + m) + j - 1, t[j]>> : j \in 1 .. n}
    BY DEF Placed
  <2>4. Placed(st, at) \subseteq Placed(s, at) \cup Placed(t, at + m)
    BY <1>2, <2>1
  <2>5. Placed(s, at) \subseteq Placed(st, at)
    BY <1>3, <2>2
  <2>6. Placed(t, at + m) \subseteq Placed(st, at)
    BY <1>4, <2>3
  <2> QED BY <2>4, <2>5, <2>6
<1> QED BY <1>5 DEF st

\* The context of a head, part by part.
LEMMA PlacedContext ==
  ASSUME TypeOK, NEW h \in req.mask
  PROVE  Placed(Context(h), 0) =
           Placed(req.cold, 0) \cup Placed(req.hot, Len(req.cold))
             \cup Placed(<<OpenId[h]>>, NTotal) \cup Placed(gen[h], NTotal + 1)
<1>0. NTotal \in Nat
  BY DEF TypeOK, NTotal
<1> DEFINE ch == req.cold \o req.hot
           cho == ch \o <<OpenId[h]>>
<1>1. /\ req.cold \in Seq(Token) /\ req.hot \in Seq(Token)
      /\ gen[h] \in Seq(Token) /\ OpenId[h] \in Token
  BY OpenIdAssumption DEF TypeOK
<1>2. ch \in Seq(Token) /\ Len(ch) = NTotal /\ NTotal \in Nat
  <2>1. ch \in Seq(Token)
    BY <1>1
  <2>2. Len(ch) = NTotal
    BY <1>1, ConcatProperties DEF NTotal
  <2> QED BY <1>0, <2>1, <2>2
<1>3. <<OpenId[h]>> \in Seq(Token) /\ Len(<<OpenId[h]>>) = 1
  BY <1>1
<1> HIDE DEF ch
<1>4. cho \in Seq(Token) /\ Len(cho) = NTotal + 1
  BY <1>2, <1>3, ConcatProperties
<1>5. Placed(ch, 0) = Placed(req.cold, 0) \cup Placed(req.hot, Len(req.cold))
  <2>1. 0 + Len(req.cold) = Len(req.cold)
    BY <1>1
  <2> QED BY <1>1, <2>1, PlacedConcat DEF ch
<1>6. Placed(cho, 0) = Placed(ch, 0) \cup Placed(<<OpenId[h]>>, NTotal)
  <2>1. 0 + Len(ch) = NTotal
    BY <1>2
  <2> DEFINE tag == <<OpenId[h]>>
  <2>2. tag \in Seq(Token) /\ 0 \in Nat
    BY <1>3
  <2> HIDE DEF tag
  <2>3. Placed(ch \o tag, 0) = Placed(ch, 0) \cup Placed(tag, 0 + Len(ch))
    BY <1>2, <2>2, PlacedConcat
  <2> QED BY <2>1, <2>3 DEF tag
<1>7. Placed(cho \o gen[h], 0) = Placed(cho, 0) \cup Placed(gen[h], NTotal + 1)
  <2> HIDE DEF cho
  <2>1. 0 + Len(cho) = NTotal + 1
    BY <1>2, <1>4
  <2> QED BY <1>1, <1>4, <2>1, PlacedConcat
<1>8. Context(h) = cho \o gen[h]
  BY DEF Context, ch
<1> HIDE DEF cho
<1> QED BY <1>5, <1>6, <1>7, <1>8

\* What a head attends to of each batch.
LEMMA AttendedCold ==
  ASSUME TypeOK, NEW h \in Heads
  PROVE  Attended(ColdBatch(0), h) = Placed(req.cold, 0)
<1> PICK n \in Nat : n = Len(req.cold)
  BY DEF TypeOK
<1>1. ASSUME NEW p \in 0 .. n - 1
      PROVE  <<p, req.cold[p + 1]>> \in Placed(req.cold, 0)
  <2> PICK i \in 1 .. n : i = p + 1
    OBVIOUS
  <2>1. 0 + i - 1 = p
    OBVIOUS
  <2> QED BY <2>1 DEF Placed
<1>2. ASSUME NEW i \in 1 .. n
      PROVE  <<0 + i - 1, req.cold[i]>> \in Attended(ColdBatch(0), h)
  <2> PICK p \in 0 .. n - 1 : p + 1 = i /\ p = 0 + i - 1
    OBVIOUS
  <2>1. [pos |-> p, tok |-> req.cold[p + 1], seqs |-> Heads] \in ColdBatch(0)
    BY DEF ColdBatch
  <2> QED BY <2>1 DEF Attended
<1>3. ASSUME NEW c \in ColdBatch(0)
      PROVE  <<c.pos, c.tok>> \in Placed(req.cold, 0)
  BY <1>1 DEF ColdBatch
<1> QED BY <1>2, <1>3 DEF Attended, Placed

LEMMA AttendedHot ==
  ASSUME TypeOK, NEW h \in req.mask
  PROVE  Attended(HotBatch, h) = Placed(req.hot, Len(req.cold))
<1> PICK n \in Nat : n = Len(req.hot)
  BY DEF TypeOK
<1> PICK m \in Nat : m = Len(req.cold)
  BY DEF TypeOK
<1>1. ASSUME NEW p \in 0 .. n - 1
      PROVE  <<m + p, req.hot[p + 1]>> \in Placed(req.hot, m)
  <2> PICK i \in 1 .. n : i = p + 1
    OBVIOUS
  <2>1. m + i - 1 = m + p
    OBVIOUS
  <2> QED BY <2>1 DEF Placed
<1>2. ASSUME NEW i \in 1 .. n
      PROVE  <<m + i - 1, req.hot[i]>> \in Attended(HotBatch, h)
  <2> PICK p \in 0 .. n - 1 : p + 1 = i /\ m + p = m + i - 1
    OBVIOUS
  <2>1. [pos |-> m + p, tok |-> req.hot[p + 1], seqs |-> req.mask] \in HotBatch
    BY DEF HotBatch
  <2> DEFINE cell == [pos |-> m + p, tok |-> req.hot[p + 1], seqs |-> req.mask]
  <2>2. <<cell.pos, cell.tok>> = <<m + i - 1, req.hot[i]>> /\ h \in cell.seqs
    OBVIOUS
  <2> HIDE DEF cell
  <2>3. <<cell.pos, cell.tok>> \in Attended(HotBatch, h)
    BY <2>1, <2>2 DEF Attended, cell
  <2> QED BY <2>2, <2>3
<1>3. ASSUME NEW c \in HotBatch
      PROVE  <<c.pos, c.tok>> \in Placed(req.hot, m)
  <2>1. PICK p \in 0 .. n - 1 :
           c = [pos |-> m + p, tok |-> req.hot[p + 1], seqs |-> req.mask]
    BY DEF HotBatch
  <2>2. <<c.pos, c.tok>> = <<m + p, req.hot[p + 1]>>
    BY <2>1
  <2> QED BY <1>1, <2>2
<1>4. Attended(HotBatch, h) \subseteq Placed(req.hot, m)
  BY <1>3 DEF Attended
<1>5. Placed(req.hot, m) \subseteq Attended(HotBatch, h)
  BY <1>2 DEF Placed
<1> QED BY <1>4, <1>5

LEMMA AttendedOwn ==
  ASSUME TypeOK, NEW h \in req.mask, Fed(h) = Len(gen[h]) + 1
  PROVE  Attended(UNION {HeadCells(k) : k \in req.mask}, h) =
           Placed(<<OpenId[h]>>, NTotal) \cup Placed(gen[h], NTotal + 1)
<1> DEFINE cell(i) == [pos |-> NTotal + i,
                       tok |-> IF i = 0 THEN OpenId[h] ELSE gen[h][i],
                       seqs |-> {h}]
           all == UNION {HeadCells(k) : k \in req.mask}
           own == Placed(<<OpenId[h]>>, NTotal) \cup Placed(gen[h], NTotal + 1)
<1> PICK n \in Nat : n = Len(gen[h])
  BY DEF TypeOK
<1> PICK m \in Nat : m = NTotal
  BY DEF TypeOK, NTotal
<1>1. HeadCells(h) = {cell(i) : i \in 0 .. n}
  <2>1. 0 .. Fed(h) - 1 = 0 .. n
    OBVIOUS
  <2> QED BY <2>1 DEF HeadCells
<1>2. ASSUME NEW c \in all, h \in c.seqs
      PROVE  c \in HeadCells(h)
  <2> PICK k \in req.mask : c \in HeadCells(k)
    OBVIOUS
  <2>1. c.seqs = {k}
    BY DEF HeadCells
  <2> QED BY <1>2, <2>1
<1>3. <<m, OpenId[h]>> \in own /\ Placed(<<OpenId[h]>>, m) = {<<m, OpenId[h]>>}
  <2>1. Len(<<OpenId[h]>>) = 1 /\ <<OpenId[h]>>[1] = OpenId[h] /\ m + 1 - 1 = m
    OBVIOUS
  <2>2. 1 .. 1 = {1}
    OBVIOUS
  <2> QED BY <2>1, <2>2 DEF Placed
<1>4. ASSUME NEW i \in 1 .. n
      PROVE  <<m + i, gen[h][i]>> \in own
  <2>1. (m + 1) + i - 1 = m + i
    OBVIOUS
  <2> QED BY <2>1 DEF Placed
<1>5. ASSUME NEW c \in HeadCells(h)
      PROVE  <<c.pos, c.tok>> \in own
  <2> PICK i \in 0 .. n : c = cell(i)
    BY <1>1
  <2>1. CASE i = 0
    BY <1>3, <2>1
  <2>2. CASE i # 0
    <3>1. i \in 1 .. n
      BY <2>2
    <3> QED BY <1>4, <2>2, <3>1
  <2> QED BY <2>1, <2>2
<1>6. ASSUME NEW x \in own
      PROVE  x \in Attended(all, h)
  <2>1. CASE x \in Placed(<<OpenId[h]>>, m)
    <3>1. cell(0) \in HeadCells(h) /\ x = <<cell(0).pos, cell(0).tok>>
      <4>1. 0 \in 0 .. n /\ m + 0 = m
        OBVIOUS
      <4> QED BY <1>1, <1>3, <2>1, <4>1
    <3> QED BY <3>1 DEF Attended
  <2>2. CASE x \in Placed(gen[h], m + 1)
    <3> PICK i \in 1 .. n : x = <<(m + 1) + i - 1, gen[h][i]>>
      BY <2>2 DEF Placed
    <3>1. i \in 0 .. n /\ i # 0 /\ (m + 1) + i - 1 = m + i
      OBVIOUS
    <3>2. cell(i) \in HeadCells(h)
      BY <1>1, <3>1
    <3>3. x = <<cell(i).pos, cell(i).tok>>
      BY <3>1
    <3> QED BY <3>2, <3>3 DEF Attended
  <2> QED BY <2>1, <2>2
<1> QED BY <1>2, <1>5, <1>6 DEF Attended

\* The logits of a live head were computed on cold, hot, its open tag and its
\* own tokens, and on nothing an earlier request or another head left.
THEOREM ContextAlwaysExact == Spec => []ContextExact
<1>1. TypeOK /\ StepInv /\ PoolExact => ContextExact
  <2> SUFFICES ASSUME TypeOK, StepInv, PoolExact, pc = "sample", NEW h \in live
               PROVE  Attended(cells, h) =
                        {<<i - 1, Context(h)[i]>> : i \in 1 .. Len(Context(h))}
    BY DEF ContextExact
  <2> DEFINE own == UNION {HeadCells(k) : k \in req.mask}
  <2>1. h \in req.mask /\ h \in Heads
    BY DEF TypeOK
  <2>2. Attended(ColdBatch(0) \cup HotBatch \cup own, h) =
          Attended(ColdBatch(0), h) \cup Attended(HotBatch, h) \cup Attended(own, h)
    BY DEF Attended
  <2>3. cells = ColdBatch(0) \cup HotBatch \cup own
    BY DEF PoolExact
  <2>4. Fed(h) = Len(gen[h]) + 1
    BY DEF Fed
  <2>5. Attended(cells, h) = Placed(Context(h), 0)
    BY <2>1, <2>2, <2>3, <2>4, AttendedCold, AttendedHot, AttendedOwn, PlacedContext
  <2>6. Placed(Context(h), 0) =
          {<<i - 1, Context(h)[i]>> : i \in 1 .. Len(Context(h))}
    BY DEF Placed
  <2> QED BY <2>5, <2>6
<1> QED
  BY <1>1, TypeCorrect, PoolAlwaysExact, PTL
=============================================================================
