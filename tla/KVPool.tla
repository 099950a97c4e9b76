------------------------------- MODULE KVPool -------------------------------
(***************************************************************************)
(* What the KV cache of a llama.cpp context promises to the code above it: *)
(* the pool of KVCache and its three operations, with no cell numbers, no  *)
(* search and no bookkeeping.  A batch is computed in parts, and one that  *)
(* fails on the way keeps the parts computed before.                       *)
(***************************************************************************)
EXTENDS KVCache, Sequences

CONSTANTS
  Batches,   \* batches that may be decoded: sequences of tokens
  NPos       \* positions

VARIABLES
  kv,   \* the pool
  rc    \* what the last llama_decode returned, "none" after another call

TypeOK == kv \subseteq Cell /\ rc \in {"none", "ok", "inconsistent", "full", "failed"}

Part(batch, i, j) == {batch[k] : k \in i .. j}

\* KVCache!Decode is this for a batch computed in one part.
Outcomes(batch) ==
  LET n   == Len(batch)
      all == Part(batch, 1, n)
  IN  IF ~Consistent(kv, all) THEN {[rc |-> "inconsistent", kv |-> kv]}
      ELSE IF ~HasRoom(kv, all) THEN {[rc |-> "full", kv |-> kv]}
      ELSE {[rc |-> "ok", kv |-> kv \cup all], [rc |-> "failed", kv |-> kv]}
             \cup UNION {{[rc |-> "failed",
                           kv |-> kv \cup Part(batch, 1, i) \cup LeftBehind(Part(batch, i + 1, j))] :
                            j \in i + 1 .. n} : i \in 0 .. n - 1}

DecodeBatch ==
  \E batch \in Batches : \E d \in Outcomes(batch) : kv' = d.kv /\ rc' = d.rc

Drop == \E p \in 0 .. NPos : kv' = SeqRmAll(kv, p) /\ rc' = "none"

Clear == kv' = {} /\ rc' = "none"

Init == kv = {} /\ rc = "none"

Next == DecodeBatch \/ Drop \/ Clear

Spec == Init /\ [][Next]_<<kv, rc>>
=============================================================================
