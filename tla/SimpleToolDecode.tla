-------------------------- MODULE SimpleToolDecode --------------------------
(***************************************************************************)
(* The simpletool port of llama.cpp/fused_server.cpp: run_simpletool_v2    *)
(* and ensure_cold_cache over the KV pool of ctx_simpletool.               *)
(*                                                                         *)
(* A request carries a cold prompt, a hot prompt, a mask of heads and a    *)
(* generation limit.  The cold prompt is kept in the KV pool from one      *)
(* request to the next (ColdCache); the hot prompt and what the heads      *)
(* generate are dropped by the next request.  The heads of the mask are    *)
(* decoded in parallel, each on its own sequence.                          *)
(*                                                                         *)
(* Requests are served one at a time under mtx_simpletool, so that a       *)
(* request is a program of its own: pc is the stage it is at, and every    *)
(* llama_decode is one step, which may fail.  The result of argmax over    *)
(* the logits is any outcome at all.                                       *)
(***************************************************************************)
EXTENDS KVCache, Sequences

CONSTANTS
  OpenId,        \* OpenId[h] is the token of the open tag of head h
  GenToken,      \* ordinary tokens argmax may pick
  ColdPrompts,   \* token sequences requests carry as cold prompt
  HotPrompts,    \* and as hot prompt
  MaxGenBytes,   \* values of the max_gen byte of a request
  NCtx,          \* s.n_ctx
  MaxCold,       \* s.max_cold_tokens, -1 resolved; negative if n_ctx < 256
  DefaultGen     \* 64, what max_gen_tokens = 0 stands for

ASSUME OpenIdAssumption == OpenId \in [Heads -> Token]
ASSUME GenTokenAssumption == GenToken \subseteq Token
ASSUME PromptAssumption ==
  ColdPrompts \subseteq Seq(Token) /\ HotPrompts \subseteq Seq(Token)
ASSUME LimitsAssumption ==
  /\ NCtx \in Nat /\ MaxCold \in Int
  /\ MaxGenBytes \subseteq 0 .. 255
  /\ DefaultGen \in 1 .. 255
\* total_ctx = n_ctx * 2 (fused_server.cpp:936), which the library may round up;
\* --n-ctx takes 128 and more (:877), for eight heads.
ASSUME PoolAssumption == NCells >= 2 * NCtx /\ NHeads <= NCtx

VARIABLES
  cells,       \* the KV pool
  coldTokens,  \* s.cold_cache.tokens (n_cached is its length and never read)
  pc,          \* stage of the request being served
  req,         \* the request being served, or the last one
  live,        \* active[]: heads of the mask still generating
  gen,         \* results[].gen_ids, by head
  nulls,       \* heads whose result is_null
  step,        \* number of tokens sampled by each live head
  reply        \* the last reply

vars == <<cells, coldTokens, pc, req, live, gen, nulls, step, reply>>

Request ==
  [cold : ColdPrompts, hot : HotPrompts, mask : SUBSET Heads, gen : Nat]

Stage == {"idle", "cold", "drop", "hot", "signal", "sample", "decode"}

\* Outcomes of a sampling step which end the head.
Ends == {"close", "null", "eog"}

\* The ColdAction of the reply, "none" while undecided or on an error.
Action == {"none", "HIT", "EXTEND", "RESET"}

Reply ==
  [status : {"none", "ok", "error"}, stage : Stage,
   rc : {"ok", "limits", "inconsistent", "full", "failed"}, action : Action]

NoReply == [status |-> "none", stage |-> "idle", rc |-> "ok", action |-> "none"]

-----------------------------------------------------------------------------
(* The batches run_simpletool_v2 and ensure_cold_cache build. *)

NTotal == Len(req.cold) + Len(req.hot)

\* Mutant of ColdBatch: a cell for every head instead of a shared one.
ColdBatchUnshared(n) ==
  {[pos |-> p, tok |-> req.cold[p + 1], seqs |-> {h}] :
     p \in n .. Len(req.cold) - 1, h \in Heads}

\* The cold tokens from position n on, each in one cell shared by all heads.
ColdBatch(n) ==
  {[pos |-> p, tok |-> req.cold[p + 1], seqs |-> Heads] :
     p \in n .. Len(req.cold) - 1}

HotBatch ==
  {[pos |-> Len(req.cold) + p, tok |-> req.hot[p + 1], seqs |-> req.mask] :
     p \in 0 .. Len(req.hot) - 1}

\* One token per head, all at the same position.
HeadBatch(heads, tok, pos) ==
  {[pos |-> pos, tok |-> tok[h], seqs |-> {h}] : h \in heads}

LastGen == [h \in live |-> gen[h][Len(gen[h])]]

-----------------------------------------------------------------------------
(* How a request ends. *)

Answer(action) ==
  /\ pc' = "idle"
  /\ reply' = [status |-> "ok", stage |-> pc, rc |-> "ok", action |-> action]

\* return false: handle_simpletool_request sends status -2.
Fail(rc) ==
  /\ pc' = "idle"
  /\ reply' = [status |-> "error", stage |-> pc, rc |-> rc, action |-> "none"]

\* llama_decode of a batch at the current stage, then the next stage.
Run(kv, batch, next) ==
  \E d \in Decode(kv, batch) :
    /\ cells' = d.kv
    /\ \/ d.rc = "ok" /\ pc' = next /\ UNCHANGED reply
       \/ d.rc # "ok" /\ Fail(d.rc)

-----------------------------------------------------------------------------
(* A request arrives and passes the length checks, or is refused by them.
   The checks come before anything is touched. *)

EffectiveGen(byte) == IF byte = 0 THEN DefaultGen ELSE byte

\* Mutant of Refused: the generated tokens are not counted.
RefusedOnPrompts(r) ==
  \/ Len(r.cold) > MaxCold
  \/ Len(r.cold) + Len(r.hot) >= NCtx

Refused(r) ==
  \/ Len(r.cold) > MaxCold
  \/ Len(r.cold) + Len(r.hot) + r.gen >= NCtx

Receive(cold, hot, mask, byte) ==
  LET r == [cold |-> cold, hot |-> hot, mask |-> mask,
            gen |-> EffectiveGen(byte)]
  IN  /\ pc = "idle"
      /\ req' = r
      /\ live' = {} /\ gen' = [h \in mask |-> <<>>] /\ nulls' = {} /\ step' = 0
      /\ IF Refused(r) THEN Fail("limits") ELSE pc' = "cold" /\ reply' = NoReply
      /\ UNCHANGED <<cells, coldTokens>>

-----------------------------------------------------------------------------
(* ensure_cold_cache *)

UNCHANGED_REQUEST == UNCHANGED <<req, live, gen, nulls, step>>

\* Mutant of Hit: the lengths are compared and the memcmp is missing.
HitByLength == Len(req.cold) = Len(coldTokens)

Hit == req.cold = coldTokens

\* Mutant of Extension: the memcmp is missing.
ExtensionByLength == coldTokens # <<>> /\ Len(coldTokens) < Len(req.cold)

Extension ==
  /\ coldTokens # <<>>
  /\ Len(coldTokens) < Len(req.cold)
  /\ \A i \in 1 .. Len(coldTokens) : req.cold[i] = coldTokens[i]

ColdHit ==
  /\ pc = "cold" /\ Hit
  /\ pc' = "drop"
  /\ reply' = [reply EXCEPT !.action = "HIT"]
  /\ UNCHANGED <<cells, coldTokens>> /\ UNCHANGED_REQUEST

\* Mutant of ColdExtend: the last cached token is prefilled once more.
ColdExtendOverlap ==
  /\ pc = "cold" /\ ~Hit /\ Extension
  /\ \E d \in Decode(cells, ColdBatch(Len(coldTokens) - 1)) :
       /\ cells' = d.kv
       /\ \/ d.rc = "ok" /\ coldTokens' = req.cold
             /\ pc' = "drop" /\ reply' = [reply EXCEPT !.action = "EXTEND"]
          \/ d.rc # "ok" /\ Fail(d.rc) /\ UNCHANGED coldTokens
  /\ UNCHANGED_REQUEST

\* The new tokens are prefilled behind the cached ones.  What the previous
\* request left behind them has not been dropped yet.
ColdExtend ==
  /\ pc = "cold" /\ ~Hit /\ Extension
  /\ \E d \in Decode(cells, ColdBatch(Len(coldTokens))) :
       /\ cells' = d.kv
       /\ \/ /\ d.rc = "ok"
             /\ coldTokens' = req.cold
             /\ pc' = "drop"
             /\ reply' = [reply EXCEPT !.action = "EXTEND"]
          \/ /\ d.rc # "ok"
             /\ Fail(d.rc)
             /\ UNCHANGED coldTokens
  /\ UNCHANGED_REQUEST

\* ColdReset with the pool it decodes on and the cache a failure leaves.
ResetFrom(kv, kept) ==
  /\ pc = "cold" /\ ~Hit /\ ~Extension
  /\ \E d \in IF req.cold = <<>> THEN {[rc |-> "ok", kv |-> kv]}
              ELSE Decode(kv, ColdBatch(0)) :
       /\ cells' = d.kv
       /\ \/ d.rc = "ok" /\ coldTokens' = req.cold
             /\ pc' = "drop" /\ reply' = [reply EXCEPT !.action = "RESET"]
          \/ d.rc # "ok" /\ Fail(d.rc) /\ coldTokens' = kept
  /\ UNCHANGED_REQUEST

\* Mutants of ColdReset: the cache record survives a failed prefill; the pool
\* is not cleared.
ResetKeepsTokens == ResetFrom({}, coldTokens)
ResetKeepsCells == ResetFrom(cells, <<>>)

\* The pool and the cache are cleared first; an empty cold prompt needs no
\* prefill, and a failed prefill leaves the cache empty.
ColdReset == ResetFrom({}, <<>>)

-----------------------------------------------------------------------------
(* run_simpletool_v2 after the cold cache *)

\* Mutants of DropLeftovers: a hit drops nothing; a priming request is left
\* without its answer.
DropUnlessHit ==
  /\ pc = "drop"
  /\ cells' = IF reply.action = "HIT" THEN cells
              ELSE SeqRmAll(cells, Len(req.cold))
  /\ IF req.mask = {} THEN Answer(reply.action)
     ELSE pc' = (IF req.hot = <<>> THEN "signal" ELSE "hot") /\ UNCHANGED reply
  /\ UNCHANGED coldTokens /\ UNCHANGED_REQUEST

DropWithoutAnswer ==
  /\ pc = "drop"
  /\ cells' = SeqRmAll(cells, Len(req.cold))
  /\ pc' = IF req.mask = {} THEN "drop" ELSE IF req.hot = <<>> THEN "signal" ELSE "hot"
  /\ UNCHANGED <<coldTokens, reply>> /\ UNCHANGED_REQUEST

\* Drop what the previous request left behind the cold prompt.  With no head
\* in the mask the caller only wanted the cache primed.
DropLeftovers ==
  /\ pc = "drop"
  /\ cells' = SeqRmAll(cells, Len(req.cold))
  /\ IF req.mask = {} THEN Answer(reply.action)
     ELSE /\ pc' = IF req.hot = <<>> THEN "signal" ELSE "hot"
          /\ UNCHANGED reply
  /\ UNCHANGED coldTokens /\ UNCHANGED_REQUEST

HotPrefill ==
  /\ pc = "hot"
  /\ Run(cells, HotBatch, "signal")
  /\ UNCHANGED coldTokens /\ UNCHANGED_REQUEST

\* Mutant of Signal: every head is marked active, also those not asked for.
SignalEveryHead ==
  /\ pc = "signal"
  /\ Run(cells, HeadBatch(req.mask, OpenId, NTotal), "sample")
  /\ live' = IF pc' = "sample" THEN Heads ELSE live
  /\ UNCHANGED <<coldTokens, req, gen, nulls, step>>

\* Every head of the mask is started with its open tag.
Signal ==
  /\ pc = "signal"
  /\ Run(cells, HeadBatch(req.mask, OpenId, NTotal), "sample")
  /\ live' = IF pc' = "sample" THEN req.mask ELSE live
  /\ UNCHANGED <<coldTokens, req, gen, nulls, step>>

\* argmax of every live head; then the loop goes on, or the request is done.
Sample ==
  /\ pc = "sample"
  /\ \E pick \in [live -> GenToken \cup Ends] :
       LET on == {h \in live : pick[h] \in GenToken}
       IN  /\ live' = on
           /\ gen' = [h \in req.mask |-> IF h \in on THEN Append(gen[h], pick[h])
                                         ELSE gen[h]]
           /\ nulls' = nulls \cup {h \in live : pick[h] = "null"}
           /\ step' = step + 1
           /\ IF step + 1 < req.gen /\ on # {}
              THEN pc' = "decode" /\ UNCHANGED reply
              ELSE Answer(reply.action)
  /\ UNCHANGED <<cells, coldTokens, req>>

\* Feed back the token each live head picked.
DecodeStep ==
  /\ pc = "decode"
  /\ Run(cells, HeadBatch(live, LastGen, NTotal + step), "sample")
  /\ UNCHANGED coldTokens /\ UNCHANGED_REQUEST

-----------------------------------------------------------------------------

Init ==
  /\ cells = {} /\ coldTokens = <<>>
  /\ pc = "idle"
  /\ req = [cold |-> <<>>, hot |-> <<>>, mask |-> {}, gen |-> 0]
  /\ live = {} /\ gen = <<>> /\ nulls = {} /\ step = 0
  /\ reply = NoReply

\* The server works on the request it has read.
Serve ==
  \/ ColdHit \/ ColdExtend \/ ColdReset
  \/ DropLeftovers \/ HotPrefill \/ Signal \/ Sample \/ DecodeStep

Next ==
  \/ \E cold \in ColdPrompts, hot \in HotPrompts, mask \in SUBSET Heads,
        byte \in MaxGenBytes : Receive(cold, hot, mask, byte)
  \/ Serve

Spec == Init /\ [][Next]_vars

\* The thread that has read a request runs it to its end: every step returns.
FairSpec == Spec /\ WF_vars(Serve)

-----------------------------------------------------------------------------
(* Properties *)

\* Everything has its type.
TypeOK ==
  /\ cells \in SUBSET Cell
  /\ coldTokens \in Seq(Token)
  /\ pc \in Stage
  /\ req \in [cold : Seq(Token), hot : Seq(Token), mask : SUBSET Heads, gen : Nat]
  /\ live \in SUBSET req.mask /\ nulls \in SUBSET req.mask
  /\ gen \in [req.mask -> Seq(Token)]
  /\ step \in Nat
  /\ reply \in Reply

\* The cache record (cold_cache.tokens, what the next request is compared
\* with) and the KV pool agree at every step, also after any step failed: each
\* cached position is held by exactly one cell, with the recorded token, shared
\* by every head.  A HIT or an EXTEND relies on nothing else.
ColdCell(p) == [pos |-> p, tok |-> coldTokens[p + 1], seqs |-> Heads]

CacheCoherent ==
  \A p \in 0 .. Len(coldTokens) - 1 : {c \in cells : c.pos = p} = {ColdCell(p)}

\* The logits a live head is sampled from were computed on the tokens of this
\* request and nothing else: cold, hot, the open tag and what the head picked
\* so far.  Neither the previous request nor another head can be seen.
Context(h) == req.cold \o req.hot \o <<OpenId[h]>> \o gen[h]

ContextExact ==
  pc = "sample" =>
    \A h \in live :
      Attended(cells, h) =
        {<<i - 1, Context(h)[i]>> : i \in 1 .. Len(Context(h))}

\* The pool of a request past its leftovers, cell by cell: the cold tokens shared
\* by all heads, the hot tokens shared by the heads of the mask, and for each of
\* these its open tag and the tokens fed back so far, in cells of its own.
Fed(h) == IF pc = "decode" /\ h \in live THEN Len(gen[h]) ELSE Len(gen[h]) + 1

HeadCells(h) ==
  {[pos |-> NTotal + i, tok |-> IF i = 0 THEN OpenId[h] ELSE gen[h][i],
    seqs |-> {h}] : i \in 0 .. Fed(h) - 1}

PoolExact ==
  /\ pc = "hot" => cells = ColdBatch(0)
  /\ pc = "signal" => cells = ColdBatch(0) \cup HotBatch
  /\ pc \in {"sample", "decode"} =>
       cells = ColdBatch(0) \cup HotBatch \cup UNION {HeadCells(h) : h \in req.mask}

\* Once the leftovers are dropped no batch of the request can be refused for
\* its positions: rc -1 comes from extending the cold cache only.
OnlyExtendRefused == reply.rc = "inconsistent" => reply.stage = "cold"

\* The length check bounds one context, and the pool is shared by all heads: where
\* n_ctx is too short for what the heads may generate, the pool fills up, but only
\* in the decode loop.  No prefill and no open tag is ever turned away, since
\* leftovers are dropped first.
FullOnlyInTheLoop == reply.rc = "full" => reply.stage = "decode"

\* A reset does not depend on what is in the pool: it can fail only in the
\* graph computation, so that a mismatching cold prompt always recovers.
ResetRecovers ==
  [][pc = "cold" /\ ~Hit /\ ~Extension => reply'.rc \in {"ok", "failed"}]_vars

\* After an answered priming request (no head in the mask) the pool holds the
\* cold prompt and nothing else, and the next longer cold prompt is never
\* refused for its positions.
PrimedThenExtends ==
  [][pc = "cold" /\ ~Hit /\ Extension
       /\ (\A c \in cells : c.pos < Len(coldTokens))
     => reply'.rc # "inconsistent"]_vars

\* No head ever writes at or behind position n_ctx, and none returns more than
\* max_gen tokens.
WithinContext ==
  /\ \A c \in cells : c.pos < NCtx
  /\ \A h \in req.mask : Len(gen[h]) <= req.gen

\* COLD_EXTEND as its comment states it: when the cache is a true prefix of the
\* new cold prompt the rest is prefilled (fused_server.cpp:360), unless the
\* computation fails or an earlier one did.
ExtendPrefillsTheRest ==
  [][pc = "cold" /\ ~Hit /\ Extension /\ (\A c \in cells : c.tok # Spoilt)
     => coldTokens' = req.cold \/ reply'.rc = "failed"]_vars

\* The stages of a request as a server without a cache goes through them, and
\* what its last pass was computed on.
StatelessPhase ==
  CASE pc = "idle" -> "idle" [] pc = "sample" -> "looking" [] OTHER -> "working"

StatelessAttended ==
  IF pc = "sample" THEN [h \in live |-> Attended(cells, h)] ELSE <<>>

\* The cache is invisible: requests are answered as a server would that keeps
\* nothing between them and computes every pass from the request's own tokens.
Stateless == INSTANCE StatelessDecode WITH
  phase     <- StatelessPhase,
  attended  <- StatelessAttended,
  status    <- reply.status,
  GenLimits <- {EffectiveGen(byte) : byte \in MaxGenBytes}

ImplementsStateless == Stateless!Spec

\* Every request read is answered.
EveryRequestAnswered == pc # "idle" ~> pc = "idle"
=============================================================================
