--------------------- MODULE SimpleToolRefinement_proofs ---------------------
(***************************************************************************)
(* The simpletool port with its cold cache implements the server that      *)
(* keeps nothing between requests.                                         *)
(***************************************************************************)
EXTENDS SimpleToolLimits_proofs

\* The decode loop goes on for as long as a head is live.
LoopInv == pc = "decode" => live # {}

LEMMA LoopInvariant == Spec => []LoopInv
<1>1. Init => LoopInv
  BY DEF Init, LoopInv
<1>2. LoopInv /\ [Next]_vars => LoopInv'
  <2> SUFFICES ASSUME LoopInv, [Next]_vars PROVE LoopInv'
    OBVIOUS
  <2> USE DEF LoopInv
  <2>1. ASSUME NEW cold \in ColdPrompts, NEW hot \in HotPrompts,
               NEW mask \in SUBSET Heads, NEW byte \in MaxGenBytes,
               Receive(cold, hot, mask, byte)
        PROVE  LoopInv'
    BY <2>1 DEF Receive, Fail
  <2>2. CASE ColdHit \/ ColdExtend \/ ColdReset \/ DropLeftovers
    BY <2>2 DEF ColdHit, ColdExtend, ColdReset, ResetFrom, DropLeftovers, Fail, Answer
  <2>3. CASE HotPrefill \/ Signal \/ DecodeStep
    BY <2>3 DEF HotPrefill, Signal, DecodeStep, Run, Fail
  <2>4. CASE Sample
    BY <2>4 DEF Sample, Answer
  <2>5. CASE UNCHANGED vars
    BY <2>5 DEF vars
  <2> QED
    BY <2>1, <2>2, <2>3, <2>4, <2>5 DEF Next, Serve
<1> QED
  BY <1>1, <1>2, PTL DEF Spec

-----------------------------------------------------------------------------

\* The values of the mapping, stage by stage.
LEMMA Mapping ==
  /\ pc = "idle" => StatelessPhase = "idle"
  /\ pc = "sample" => /\ StatelessPhase = "looking"
                      /\ StatelessAttended = [h \in live |-> Attended(cells, h)]
  /\ pc \notin {"idle", "sample"} => StatelessPhase = "working"
  /\ pc # "sample" => StatelessAttended = <<>>
  BY DEF StatelessPhase, StatelessAttended

LEMMA MappingNext ==
  /\ pc' = "idle" => StatelessPhase' = "idle"
  /\ pc' = "sample" => /\ StatelessPhase' = "looking"
                       /\ StatelessAttended' = [h \in live' |-> Attended(cells', h)]
  /\ pc' \notin {"idle", "sample"} => StatelessPhase' = "working"
  /\ pc' # "sample" => StatelessAttended' = <<>>
  BY DEF StatelessPhase, StatelessAttended, Attended

\* The contexts of both modules are the same set of tokens and positions.
LEMMA SameContext ==
  ASSUME TypeOK, NEW h \in req.mask
  PROVE  Stateless!Placed(Stateless!Context(h)) =
           {<<i - 1, Context(h)[i]>> : i \in 1 .. Len(Context(h))}
<1>1. Stateless!Context(h) = Context(h)
  BY DEF Stateless!Context, Context
<1>2. Context(h) \in Seq(Token)
  <2>1. /\ req.cold \in Seq(Token) /\ req.hot \in Seq(Token)
        /\ gen[h] \in Seq(Token) /\ <<OpenId[h]>> \in Seq(Token)
    BY OpenIdAssumption DEF TypeOK
  <2> QED BY <2>1, ConcatProperties DEF Context
<1> DEFINE s == Context(h)
<1>3. DOMAIN s = 1 .. Len(s)
  BY <1>2
<1> HIDE DEF s
<1>4. Stateless!Placed(s) = {<<i - 1, s[i]>> : i \in 1 .. Len(s)}
  BY <1>3 DEF Stateless!Placed
<1> QED BY <1>1, <1>4 DEF s

-----------------------------------------------------------------------------
(* What the steps are in the server without a cache. *)

\* A stage that only prepares a pass changes nothing.
LEMMA Prepares ==
  ASSUME pc \notin {"idle", "sample"}, pc' \notin {"idle", "sample"},
         reply'.status = reply.status, UNCHANGED <<req, live, gen, nulls>>
  PROVE  UNCHANGED Stateless!vars
  BY Mapping, MappingNext DEF Stateless!vars

\* A stage that fails aborts the request.
LEMMA Aborts ==
  ASSUME pc \notin {"idle", "sample"}, NEW rc, Fail(rc),
         UNCHANGED <<req, live, gen, nulls>>
  PROVE  Stateless!Abort
  BY Mapping, MappingNext DEF Fail, Stateless!Abort

\* A decode that leads to sampling is a pass over the heads then live.
LEMMA Passes ==
  ASSUME TypeOK, TypeOK', ContextExact', pc \notin {"idle", "sample"}, pc' = "sample",
         UNCHANGED <<req, gen, nulls, reply>>
  PROVE  Stateless!Pass(live')
<1>1. live' \subseteq req.mask
  BY DEF TypeOK
<1>2. ASSUME NEW h \in live'
      PROVE  Attended(cells', h) = Stateless!Placed(Stateless!Context(h))
  <2>1. Attended(cells', h) =
          {<<i - 1, Context(h)[i]>> : i \in 1 .. Len(Context(h))}
    <3>1. Context(h)' = Context(h)
      BY DEF Context
    <3>2. Attended(cells', h) =
            {<<i - 1, Context(h)'[i]>> : i \in 1 .. Len(Context(h)')}
      BY DEF ContextExact
    <3> QED BY <3>1, <3>2
  <2> QED BY <1>1, <2>1, SameContext
<1>3. StatelessAttended' =
        [h \in live' |-> Stateless!Placed(Stateless!Context(h))]
  BY <1>2, MappingNext
<1> QED BY <1>3, Mapping, MappingNext DEF Stateless!Pass

\* Sampling is a pick; that one head may go on is that the loop goes on.
LEMMA Picks ==
  ASSUME TypeOK, TypeOK', StepInv, StepInv', Sample
  PROVE  Stateless!Pick
<1> PICK pick \in [live -> GenToken \cup Ends] :
      LET on == {h \in live : pick[h] \in GenToken}
      IN  /\ live' = on
          /\ gen' = [h \in req.mask |-> IF h \in on THEN Append(gen[h], pick[h])
                                        ELSE gen[h]]
          /\ nulls' = nulls \cup {h \in live : pick[h] = "null"}
          /\ step' = step + 1
          /\ IF step + 1 < req.gen /\ on # {}
             THEN pc' = "decode" /\ UNCHANGED reply
             ELSE Answer(reply.action)
  BY DEF Sample
<1> DEFINE on == {h \in live : pick[h] \in GenToken}
<1>0. pc = "sample" /\ req' = req /\ on \subseteq req.mask
  BY DEF Sample, TypeOK
<1>1. ASSUME NEW h \in on
      PROVE  Len(gen'[h]) = step + 1
  <2>1. gen[h] \in Seq(Token) /\ Len(gen[h]) = step
    BY <1>0 DEF TypeOK, StepInv
  <2>2. gen'[h] = Append(gen[h], pick[h])
    BY <1>0
  <2>3. Len(gen'[h]) = Len(gen[h]) + 1
    BY <2>1, <2>2
  <2> QED BY <2>1, <2>3
<1>2. (\E h \in on : Len(gen'[h]) < req.gen) <=> (step + 1 < req.gen /\ on # {})
  <2> HIDE DEF on
  <2> QED BY <1>1
<1>3. StatelessPhase = "looking" /\ StatelessAttended' = <<>>
  <2>1. pc' # "sample"
    BY DEF Answer
  <2> QED BY <1>0, <2>1, Mapping, MappingNext
<1>4. IF step + 1 < req.gen /\ on # {}
      THEN StatelessPhase' = "working" /\ reply' = reply
      ELSE StatelessPhase' = "idle" /\ reply'.status = "ok"
  BY MappingNext DEF Answer
<1>5. IF \E h \in on : Len(gen'[h]) < req.gen
      THEN StatelessPhase' = "working" /\ UNCHANGED reply.status
      ELSE StatelessPhase' = "idle" /\ reply'.status = "ok"
  BY <1>2, <1>4
<1> QED BY <1>0, <1>3, <1>5 DEF Stateless!Pick

\* Every behaviour of the port is one of the server that keeps nothing: what is
\* cached, shared and left behind by failures cannot be told from the answers.
THEOREM CacheIsInvisible == Spec => ImplementsStateless
<1>1. Init => Stateless!Init
  <2> SUFFICES ASSUME Init PROVE Stateless!Init
    OBVIOUS
  <2>1. StatelessPhase = "idle" /\ StatelessAttended = <<>>
    BY Mapping DEF Init
  <2> QED BY <2>1 DEF Init, NoReply, Stateless!Init
<1>2. TypeOK /\ TypeOK' /\ StepInv /\ StepInv' /\ LoopInv /\ ContextExact'
        /\ [Next]_vars => [Stateless!Next]_Stateless!vars
  <2> SUFFICES ASSUME TypeOK, TypeOK', StepInv, StepInv', LoopInv, ContextExact',
                      [Next]_vars
               PROVE  Stateless!Next \/ UNCHANGED Stateless!vars
    OBVIOUS
  <2>1. ASSUME NEW cold \in ColdPrompts, NEW hot \in HotPrompts,
               NEW mask \in SUBSET Heads, NEW byte \in MaxGenBytes,
               Receive(cold, hot, mask, byte)
        PROVE  Stateless!Next
    <3> DEFINE r == [cold |-> cold, hot |-> hot, mask |-> mask,
                     gen |-> EffectiveGen(byte)]
    <3>1. /\ pc = "idle" /\ req' = r
          /\ live' = {} /\ gen' = [h \in r.mask |-> <<>>] /\ nulls' = {}
      BY <2>1 DEF Receive
    <3>2. \/ pc' = "cold" /\ reply'.status = "none"
          \/ pc' = "idle" /\ reply'.status = "error"
      BY <2>1 DEF Receive, Fail, NoReply
    <3>3. Stateless!Receive(r)
      BY <3>1, <3>2, Mapping, MappingNext DEF Stateless!Receive
    <3> QED BY <3>3 DEF Stateless!Next
  <2>2. CASE ColdHit
    <3>1. reply'.status = reply.status
      BY <2>2 DEF ColdHit, TypeOK, Reply
    <3> QED BY <2>2, <3>1, Prepares DEF ColdHit, UNCHANGED_REQUEST
  <2>3. CASE ColdExtend \/ ColdReset
    <3>1. UNCHANGED <<req, live, gen, nulls>> /\ pc = "cold"
      BY <2>3 DEF ColdExtend, ColdReset, ResetFrom, UNCHANGED_REQUEST
    <3>2. \/ pc' = "drop" /\ \E a \in Action : reply' = [reply EXCEPT !.action = a]
          \/ \E rc : Fail(rc)
      BY <2>3 DEF ColdExtend, ColdReset, ResetFrom, Action
    <3>3. CASE pc' = "drop" /\ \E a \in Action : reply' = [reply EXCEPT !.action = a]
      <4>1. reply'.status = reply.status
        BY <3>3 DEF TypeOK, Reply
      <4> QED BY <3>1, <3>3, <4>1, Prepares
    <3>4. CASE \E rc : Fail(rc)
      BY <3>1, <3>4, Aborts DEF Stateless!Next
    <3> QED BY <3>2, <3>3, <3>4
  <2>4. CASE DropLeftovers
    <3>1. UNCHANGED <<req, live, gen, nulls>> /\ pc = "drop"
      BY <2>4 DEF DropLeftovers, UNCHANGED_REQUEST
    <3>2. CASE req.mask = {}
      <4>1. pc' = "idle" /\ reply'.status = "ok"
        BY <2>4, <3>2 DEF DropLeftovers, Answer
      <4>2. Stateless!Prime
        BY <3>1, <3>2, <4>1, Mapping, MappingNext DEF Stateless!Prime
      <4> QED BY <4>2 DEF Stateless!Next
    <3>3. CASE req.mask # {}
      <4>1. pc' \in {"hot", "signal"} /\ reply' = reply
        BY <2>4, <3>3 DEF DropLeftovers
      <4> QED BY <3>1, <4>1, Prepares
    <3> QED BY <3>2, <3>3
  <2>5. CASE HotPrefill
    <3>1. UNCHANGED <<req, live, gen, nulls>> /\ pc = "hot"
      BY <2>5 DEF HotPrefill, UNCHANGED_REQUEST
    <3>2. (pc' = "signal" /\ reply' = reply) \/ \E rc : Fail(rc)
      BY <2>5 DEF HotPrefill, Run
    <3>3. CASE pc' = "signal" /\ reply' = reply
      BY <3>1, <3>3, Prepares
    <3>4. CASE \E rc : Fail(rc)
      BY <3>1, <3>4, Aborts DEF Stateless!Next
    <3> QED BY <3>2, <3>3, <3>4
  <2>6. CASE Signal
    <3>1. UNCHANGED <<req, gen, nulls>> /\ pc = "signal"
      BY <2>6 DEF Signal
    <3>2. (pc' = "sample" /\ reply' = reply) \/ \E rc : Fail(rc)
      BY <2>6 DEF Signal, Run
    <3>3. CASE pc' = "sample" /\ reply' = reply
      <4>1. live' = req.mask /\ live = {} /\ req.mask # {}
        BY <2>6, <3>1, <3>3 DEF Signal, StepInv
      <4>2. Stateless!Pass(req.mask)
        BY <3>1, <3>3, <4>1, Passes
      <4> QED BY <4>1, <4>2 DEF Stateless!First, Stateless!Next
    <3>4. CASE \E rc : Fail(rc)
      <4>1. live' = live
        BY <2>6, <3>4 DEF Signal, Fail
      <4> QED BY <3>1, <3>4, <4>1, Aborts DEF Stateless!Next
    <3> QED BY <3>2, <3>3, <3>4
  <2>7. CASE Sample
    BY <2>7, Picks DEF Stateless!Next
  <2>8. CASE DecodeStep
    <3>1. UNCHANGED <<req, live, gen, nulls>> /\ pc = "decode" /\ live # {}
      BY <2>8 DEF DecodeStep, UNCHANGED_REQUEST, LoopInv
    <3>2. (pc' = "sample" /\ reply' = reply) \/ \E rc : Fail(rc)
      BY <2>8 DEF DecodeStep, Run
    <3>3. CASE pc' = "sample" /\ reply' = reply
      <4>1. Stateless!Pass(live)
        BY <3>1, <3>3, Passes
      <4> QED BY <3>1, <4>1 DEF Stateless!Again, Stateless!Next
    <3>4. CASE \E rc : Fail(rc)
      BY <3>1, <3>4, Aborts DEF Stateless!Next
    <3> QED BY <3>2, <3>3, <3>4
  <2>9. CASE UNCHANGED vars
    BY <2>9 DEF vars, Stateless!vars, StatelessPhase, StatelessAttended, Attended
  <2> QED
    BY <2>1, <2>2, <2>3, <2>4, <2>5, <2>6, <2>7, <2>8, <2>9 DEF Next, Serve
<1> QED
  BY <1>1, <1>2, TypeCorrect, LoopInvariant, ContextAlwaysExact, PTL
     DEF Spec, ImplementsStateless, Stateless!Spec
=============================================================================
