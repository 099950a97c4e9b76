--------------------------- MODULE StatelessDecode ---------------------------
(***************************************************************************)
(* What the simpletool port promises, with no cache and no memory: every   *)
(* head of a request is decoded greedily from the request's own tokens,    *)
(*                                                                         *)
(*     cold \o hot \o <<open tag>> \o <<what the head picked so far>>      *)
(*                                                                         *)
(* until it ends or max_gen tokens are picked.  A request may fail, and a  *)
(* failed request returns nothing.  Which requests came before, and how    *)
(* they ended, cannot be told from an answer.                              *)
(***************************************************************************)
EXTENDS Naturals, Sequences

CONSTANTS Heads, OpenId, GenToken, Ends, ColdPrompts, HotPrompts, GenLimits

VARIABLES
  phase,    \* "idle", "working", or "looking" at the logits of a pass
  req,      \* the request
  live,     \* heads still generating
  gen,      \* what each head picked
  nulls,    \* heads which answered null
  attended, \* what the last pass of each live head was computed on
  status    \* of the last answer

vars == <<phase, req, live, gen, nulls, attended, status>>

Context(h) == req.cold \o req.hot \o <<OpenId[h]>> \o gen[h]

\* A context as the set of its tokens with their positions.
Placed(s) == {<<i - 1, s[i]>> : i \in DOMAIN s}

Receive(r) ==
  /\ phase = "idle"
  /\ req' = r
  /\ live' = {} /\ gen' = [h \in r.mask |-> <<>>] /\ nulls' = {}
  /\ \/ phase' = "working" /\ status' = "none"
     \/ phase' = "idle" /\ status' = "error"
  /\ UNCHANGED attended

Pass(heads) ==
  /\ phase = "working"
  /\ phase' = "looking"
  /\ live' = heads
  /\ attended' = [h \in heads |-> Placed(Context(h))]
  /\ UNCHANGED <<req, gen, nulls, status>>

First == live = {} /\ req.mask # {} /\ Pass(req.mask)

Again == live # {} /\ Pass(live)

Pick ==
  /\ phase = "looking"
  /\ \E pick \in [live -> GenToken \cup Ends] :
       LET on == {h \in live : pick[h] \in GenToken}
       IN  /\ live' = on
           /\ gen' = [h \in req.mask |-> IF h \in on THEN Append(gen[h], pick[h])
                                         ELSE gen[h]]
           /\ nulls' = nulls \cup {h \in live : pick[h] = "null"}
           /\ IF \E h \in on : Len(gen'[h]) < req.gen
              THEN phase' = "working" /\ UNCHANGED status
              ELSE phase' = "idle" /\ status' = "ok"
  /\ attended' = <<>>
  /\ UNCHANGED req

\* Nothing was asked for: the caller only primes the server.
Prime ==
  /\ phase = "working" /\ req.mask = {}
  /\ phase' = "idle" /\ status' = "ok"
  /\ UNCHANGED <<req, live, gen, nulls, attended>>

Abort ==
  /\ phase = "working"
  /\ phase' = "idle" /\ status' = "error"
  /\ UNCHANGED <<req, live, gen, nulls, attended>>

Init ==
  /\ phase = "idle" /\ status = "none"
  /\ req = [cold |-> <<>>, hot |-> <<>>, mask |-> {}, gen |-> 0]
  /\ live = {} /\ gen = <<>> /\ nulls = {} /\ attended = <<>>

Next ==
  \/ \E cold \in ColdPrompts, hot \in HotPrompts, mask \in SUBSET Heads,
        limit \in GenLimits :
       Receive([cold |-> cold, hot |-> hot, mask |-> mask, gen |-> limit])
  \/ First \/ Again \/ Pick \/ Prime \/ Abort

Spec == Init /\ [][Next]_vars
=============================================================================
