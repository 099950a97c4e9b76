---------------------------- MODULE LlamaContext ----------------------------
(***************************************************************************)
(* A llama.cpp context as fused_server.cpp uses its two: llama_decode over *)
(* the cells of KVCells, llama_memory_seq_rm for every sequence,           *)
(* llama_memory_clear, and the rows of the hidden layer that llama_decode  *)
(* copies out, which this repository adds to llama.cpp.                    *)
(*                                                                         *)
(* Each context has a mutex of its own in fused_server, so that a call is  *)
(* one step.  ctx_simpletool computes a batch at once (n_ubatch = n_batch) *)
(* on eight sequences; ctx_hidden has one sequence and the default         *)
(* n_ubatch, so that a longer prompt is computed in parts.                 *)
(***************************************************************************)
EXTENDS KVCells

CONSTANTS
  Batches,  \* batches decoded
  NBatch    \* n_batch: rows of the hidden layer there is room for

Tokens == [pos : 0 .. NPos - 1, tok : Token, seqs : (SUBSET Heads) \ {{}}]

ASSUME BatchesAssumption ==
  /\ NBatch \in Nat \ {0}
  /\ \A batch \in Batches : batch \in Seq(Tokens) /\ Len(batch) \in 1 .. NBatch

\* As fused_server fills its batches: tokens that share a sequence have all
\* sequences in common, and their positions ascend without a gap.
Regular(batch) ==
  \A j, k \in DOMAIN batch : batch[j].seqs \cap batch[k].seqs # {} =>
    /\ batch[j].seqs = batch[k].seqs
    /\ j < k => batch[j].pos < batch[k].pos
    /\ \A p \in batch[j].pos .. batch[k].pos :
         \E l \in DOMAIN batch : batch[l].seqs = batch[j].seqs /\ batch[l].pos = p

VARIABLES
  cells,     \* the KV cache
  hidden,    \* rows of the hidden layer: the token each was computed from
  nHidden,   \* n_hidden_tokens
  rc,        \* what llama_decode returned, "none" after another call
  done       \* the batch it decoded successfully, <<>> otherwise (history)

vars == <<cells, hidden, nHidden, rc, done>>

-----------------------------------------------------------------------------
(* llama_batch_allocr *)

FirstSeq(t) == Min(t.seqs)

\* Mutant of Accepts: a batch may start anywhere.
AcceptsAnywhere(batch) ==
  \A k \in DOMAIN batch, s \in Heads :
    s \in batch[k].seqs =>
      /\ PosMin(cells, s) = PosMin(cells, FirstSeq(batch[k]))
      /\ PosMax(cells, s) = PosMax(cells, FirstSeq(batch[k]))

\* init: each sequence goes on where the cache ends, without a gap, and the
\* sequences of a token hold the same span.  Its last two checks compare with
\* cur_seq_set and cur_seq_pos, which no token can fail, and refuse nothing.
Accepts(batch) ==
  LET new(s) == {batch[k].pos : k \in {j \in DOMAIN batch : s \in batch[j].seqs}}
  IN  /\ \A s \in Heads : new(s) # {} =>
           /\ PosMax(cells, s) >= 0 => Min(new(s)) = PosMax(cells, s) + 1
           /\ Max(new(s)) - Min(new(s)) + 1 <= Cardinality(new(s))
      /\ \A k \in DOMAIN batch : \A s \in batch[k].seqs :
           /\ PosMin(cells, s) = PosMin(cells, FirstSeq(batch[k]))
           /\ PosMax(cells, s) = PosMax(cells, FirstSeq(batch[k]))

\* split_simple: parts of n_ubatch tokens.
Split(batch) ==
  [k \in 1 .. (Len(batch) + NUbatch - 1) \div NUbatch |->
     SubSeq(batch, (k - 1) * NUbatch + 1, Min({k * NUbatch, Len(batch)}))]

-----------------------------------------------------------------------------
(* llama_context::decode *)

\* The tensors of a slot after its graph ran, or failed.
Computed(c, slot, ubatch, ok) ==
  [c EXCEPT !.data = [i \in Index |->
     IF i \notin Range(slot) THEN @[i] ELSE IF ok THEN ubatch[At(slot, i)].tok ELSE Spoilt]]

\* Ubatches 1 .. n are placed and computed.
Ran(ubatches, slots, n) ==
  LET run[k \in 0 .. n] ==
        IF k = 0 THEN cells
        ELSE Computed(Place(run[k - 1], slots[k], ubatches[k]), slots[k], ubatches[k], TRUE)
  IN  run[n]

\* A graph that fails: the positions of its ubatch are removed from the first
\* sequence of each token only.
GivenBack(c, ubatch) ==
  LET from(s) == {ubatch[k].pos : k \in {j \in DOMAIN ubatch : FirstSeq(ubatch[j]) = s}}
  IN  SeqRm(c, [s \in Heads |-> IF from(s) = {} THEN NPos ELSE Min(from(s))])

FailedAt(ubatches, slots, k) ==
  GivenBack(Computed(Place(Ran(ubatches, slots, k - 1), slots[k], ubatches[k]),
                     slots[k], ubatches[k], FALSE), ubatches[k])

Row(t) == <<FirstSeq(t), t.pos>>

\* Mutant of Copied: every ubatch is copied to the first rows.
CopiedToTheTop(ubatches, n) ==
  LET copy(rows, ubatch) ==
        [j \in 1 .. NBatch |-> IF j <= Len(ubatch) THEN Row(ubatch[j]) ELSE rows[j]]
  IN  FoldLeft(copy, hidden, SubSeq(ubatches, 1, n))

\* The rows of ubatches 1 .. n are copied behind each other (n_hidden_prev).
Copied(ubatches, n) ==
  LET rows == FlattenSeq(SubSeq(ubatches, 1, n))
  IN  [j \in 1 .. NBatch |-> IF j <= Len(rows) THEN Row(rows[j]) ELSE hidden[j]]

\* A call without a successful batch: the count of rows stays that of another one.
Returns(code, c, rows) ==
  /\ rc' = code /\ cells' = c /\ hidden' = rows
  /\ done' = <<>>
  /\ UNCHANGED nHidden

\* Return codes as in KVCache; "failed" before anything is placed stands for an
\* output buffer that cannot be had.
Decode(batch) ==
  LET ubatches == Split(batch)
      n        == Len(ubatches)
      prepared == Prepare(cells, ubatches)
      slots    == prepared.slots
  IN  \/ ~Accepts(batch) /\ Returns("inconsistent", cells, hidden)
      \/ /\ Accepts(batch) /\ ~prepared.fits
         /\ Returns("full", prepared.cells, hidden)
      \/ /\ Accepts(batch) /\ prepared.fits
         /\ \/ Returns("failed", prepared.cells, hidden)
            \/ \E k \in 1 .. n :
                 Returns("failed", FailedAt(ubatches, slots, k), Copied(ubatches, k - 1))
            \/ /\ rc' = "ok" /\ done' = batch
               /\ cells' = Ran(ubatches, slots, n)
               /\ hidden' = Copied(ubatches, n) /\ nHidden' = Len(batch)

-----------------------------------------------------------------------------
(* What else fused_server calls *)

\* llama_memory_seq_rm(mem, h, p, -1) for every sequence h.
DropFrom(p) == Returns("none", SeqRm(cells, [s \in Heads |-> p]), hidden)

Clear == Returns("none", NewCells, hidden)

Init ==
  /\ cells = NewCells
  /\ hidden = [j \in 1 .. NBatch |-> <<>>] /\ nHidden = 0
  /\ done = <<>> /\ rc = "none"

Next ==
  \/ \E batch \in Batches : Decode(batch)
  \/ \E p \in 0 .. NPos : DropFrom(p)
  \/ Clear

Spec == Init /\ [][Next]_vars

-----------------------------------------------------------------------------
(* Properties *)

\* Everything has its type; a counter that went below zero has not.
TypeOK ==
  /\ cells \in Cells
  /\ hidden \in [1 .. NBatch -> (Heads \X (0 .. NPos - 1)) \cup {<<>>}]
  /\ nHidden \in 0 .. NBatch
  /\ done \in Batches \cup {<<>>}
  /\ rc \in {"none", "ok", "inconsistent", "full", "failed"}

\* The bookkeeping beside the cells says what the cells say, however often
\* batches were placed, taken back and removed: the batch checks and the search
\* for free cells read nothing else.
Bookkeeping ==
  /\ cells.used = {i \in Index : cells.pos[i] # Empty}
  /\ \A i \in Index : cells.pos[i] = Empty <=> cells.seq[i] = {}
  /\ \A s \in Heads, p \in 0 .. NPos - 1 :
       cells.count[s][p] = Cardinality({i \in Index : s \in cells.seq[i] /\ cells.pos[i] = p})

\* "All positions between [pos_min, pos_max] for each sequence will be present in
\* the cache" (llama-kv-cache.cpp:1062), each in one cell: also after failures.
PositionsWhole ==
  \A s \in Heads : Held(cells, s) # {} =>
    \A p \in PosMin(cells, s) .. PosMax(cells, s) : cells.count[s][p] = 1

\* A batch that is turned away, at whichever of its ubatches the cache is full,
\* leaves no trace: prepare has placed and taken back the ones before.
FullLeavesNoTrace ==
  [][rc' = "full" => cells' = cells /\ hidden' = hidden]_vars

\* After a successful llama_decode the rows of the hidden layer are those of its
\* batch, token by token, whatever parts it was computed in and whatever an
\* earlier call left.
HiddenOfBatch ==
  rc = "ok" => nHidden = Len(done) /\ \A j \in 1 .. nHidden : hidden[j] = Row(done[j])

\* The cells, with the order they are searched and the counters beside them, are
\* the pool of KVCache.
Pool == INSTANCE KVPool WITH
  kv <- {[pos |-> cells.pos[i], tok |-> cells.data[i], seqs |-> cells.seq[i]] :
           i \in {j \in Index : cells.pos[j] # Empty}}

ImplementsPool == Pool!Spec
=============================================================================
