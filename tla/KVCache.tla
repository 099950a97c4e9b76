------------------------------ MODULE KVCache ------------------------------
(***************************************************************************)
(* The attention memory of a llama.cpp context, as ctx_simpletool uses it: *)
(* one unified pool of cells shared by several sequences (kv_unified).     *)
(*                                                                         *)
(* A cell holds one token at one position and belongs to a set of          *)
(* sequences; a cell nobody owns is free and is not represented.  The pool *)
(* is therefore a set of records                                           *)
(*                                                                         *)
(*     [pos : Nat, tok : Token, seqs : nonempty SUBSET Heads]              *)
(*                                                                         *)
(* The K and V tensors of a cell are abstracted to the token they were     *)
(* computed from; Spoilt stands for tensors a failed graph left behind.    *)
(* The operators are pure: they take a pool and return a pool.             *)
(***************************************************************************)
EXTENDS Integers, FiniteSets

CONSTANTS
  NHeads,   \* MAX_HEADS sequences, numbered as in the code
  Token,    \* vocabulary
  Spoilt,   \* the contents of a cell whose graph computation failed
  NCells    \* size of the pool (cp.n_ctx of ctx_simpletool)

ASSUME HeadsAssumption == NHeads \in Nat \ {0}
ASSUME CellsAssumption == NCells \in Nat
ASSUME SpoiltAssumption == Spoilt \notin Token

Heads == 0 .. NHeads - 1

Cell ==
  [pos : Nat, tok : Token \cup {Spoilt}, seqs : (SUBSET Heads) \ {{}}]

-----------------------------------------------------------------------------
(* What a sequence holds. *)

Positions(kv, h) == {c.pos : c \in {d \in kv : h \in d.seqs}}

\* What the attention of sequence h sees: its tokens by position.
Attended(kv, h) == {<<c.pos, c.tok>> : c \in {d \in kv : h \in d.seqs}}

-----------------------------------------------------------------------------
(* Removing positions.  llama_memory_seq_rm(mem, h, p0, -1) takes sequence h
   off every cell from p0 on; done for every sequence it frees those cells. *)

\* Mutant of SeqRmAll: the position p0 itself is kept.
SeqRmBehind(kv, p0) == {c \in kv : c.pos <= p0}

SeqRmAll(kv, p0) == {c \in kv : c.pos < p0}

-----------------------------------------------------------------------------
(* Adding a batch, a set of cells to be. *)

\* The batch starts right behind what sequence h holds (Y = X + 1), or h is
\* empty: llama_batch_allocr::init checks nothing of an empty sequence.
Follows(kv, batch, h) ==
  LET held  == Positions(kv, h)
      added == Positions(batch, h)
  IN  \/ held = {}
      \/ \E last \in held :
           /\ \A p \in held : p <= last
           /\ last + 1 \in added
           /\ \A p \in added : last < p

\* seq_pos_min and seq_pos_max agree on two sequences.
SameSpan(kv, h1, h2) ==
  LET held1 == Positions(kv, h1)
      held2 == Positions(kv, h2)
  IN  \/ held1 = {} /\ held2 = {}
      \/ \E lo \in held1 \cap held2, hi \in held1 \cap held2 :
           \A p \in held1 \cup held2 : lo <= p /\ p <= hi

Consistent(kv, batch) ==
  \A b \in batch, h1 \in Heads :
    h1 \in b.seqs =>
      /\ Follows(kv, batch, h1)
      /\ \A h2 \in b.seqs : SameSpan(kv, h1, h2)

\* find_slot needs one free cell for every token of the batch.
HasRoom(kv, batch) == Cardinality(kv) + Cardinality(batch) <= NCells

\* A graph that fails after the cells were placed gives back the positions of
\* the FIRST sequence of each token only; the others keep a spoilt cell.
FirstSeq(c) == CHOOSE h \in c.seqs : \A k \in c.seqs : h <= k

LeftBehind(batch) ==
  {[pos |-> b.pos, tok |-> Spoilt, seqs |-> b.seqs \ {FirstSeq(b)}] :
     b \in {c \in batch : c.seqs # {FirstSeq(c)}}}

\* llama_decode: the return codes that differ, and the pool each one leaves.
\*   "ok"           0
\*   "inconsistent" -1, the batch is refused, nothing changes
\*   "full"         1, nothing changes
\*   "failed"       2, -2 or -3: before or after the cells were placed
Decode(kv, batch) ==
  IF ~Consistent(kv, batch) THEN {[rc |-> "inconsistent", kv |-> kv]}
  ELSE IF ~HasRoom(kv, batch) THEN {[rc |-> "full", kv |-> kv]}
  ELSE {[rc |-> "ok",     kv |-> kv \cup batch],
        [rc |-> "failed", kv |-> kv],
        [rc |-> "failed", kv |-> kv \cup LeftBehind(batch)]}
=============================================================================
