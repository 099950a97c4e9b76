------------------------------- MODULE KVCells ------------------------------
(***************************************************************************)
(* The unified KV cache of a llama.cpp context, index by index, as         *)
(* llama-kv-cells.h and llama-kv-cache.cpp keep it: a cell has a position  *)
(* and a set of sequences, and beside the cells the cache keeps which are  *)
(* used, how often each sequence holds each position (the smallest and     *)
(* largest of which the batch checks read), and a head where the search    *)
(* for free cells starts.  KVCache says what all this amounts to.          *)
(*                                                                         *)
(* One stream, no sliding window, no shifts.  A batch is a sequence of     *)
(* tokens [pos, tok, seqs], its sequences in ascending order.  The K and V *)
(* tensors of a cell in use are abstracted to the token they were computed *)
(* from, Spoilt where none was.                                            *)
(***************************************************************************)
EXTENDS Integers, SequencesExt

CONSTANTS
  NHeads,   \* sequences, n_seq_max
  NCells,   \* cells, n_ctx of the context
  NPos,     \* bound: positions a batch may have
  NUbatch,  \* n_ubatch: tokens computed at a time
  Token,    \* vocabulary
  Spoilt    \* the contents of a cell nothing was computed for

ASSUME SizesAssumption ==
  NHeads \in Nat \ {0} /\ NCells \in Nat \ {0} /\ NPos \in Nat /\ NUbatch \in Nat \ {0}
ASSUME SpoiltAssumption == Spoilt \notin Token

Heads == 0 .. NHeads - 1
Index == 0 .. NCells - 1
Empty == -1

\* The cache: the fields of llama_kv_cells, the tensors, and v_heads[0].
Cells ==
  [pos : [Index -> 0 .. NPos - 1 \cup {Empty}], seq : [Index -> SUBSET Heads],
   used : SUBSET Index, count : [Heads -> [0 .. NPos - 1 -> Nat]],
   data : [Index -> Token \cup {Spoilt}], head : 0 .. NCells]

\* seq_pos_min and seq_pos_max of a sequence, -1 if it holds nothing.
Held(c, s) == {p \in 0 .. NPos - 1 : c.count[s][p] > 0}
PosMin(c, s) == IF Held(c, s) = {} THEN -1 ELSE Min(Held(c, s))
PosMax(c, s) == IF Held(c, s) = {} THEN -1 ELSE Max(Held(c, s))

-----------------------------------------------------------------------------
(* Changing cells.  new gives the position and sequences of some cells:
   pos_set and seq_add, seq_rm, or set, each for one cell after the other. *)

\* Mutants of SetCells: freed cells stay in the used set; what is put into a
\* cell is not counted.
SetCellsStaysUsed(c, new) ==
  LET pos == [i \in Index |-> IF i \in DOMAIN new THEN new[i].pos ELSE c.pos[i]]
      seq == [i \in Index |-> IF i \in DOMAIN new THEN new[i].seqs ELSE c.seq[i]]
      times(q, r, s, p) == Cardinality({i \in DOMAIN new : s \in r[i] /\ q[i] = p})
  IN  [c EXCEPT !.pos = pos, !.seq = seq, !.used = @ \cup DOMAIN new,
                !.count = [s \in Heads |-> [p \in 0 .. NPos - 1 |->
                  @[s][p] - times(c.pos, c.seq, s, p) + times(pos, seq, s, p)]]]

SetCellsUncounted(c, new) ==
  LET pos == [i \in Index |-> IF i \in DOMAIN new THEN new[i].pos ELSE c.pos[i]]
      seq == [i \in Index |-> IF i \in DOMAIN new THEN new[i].seqs ELSE c.seq[i]]
      times(q, r, s, p) == Cardinality({i \in DOMAIN new : s \in r[i] /\ q[i] = p})
  IN  [c EXCEPT !.pos = pos, !.seq = seq,
                !.used = (@ \ DOMAIN new) \cup {i \in DOMAIN new : new[i].pos # Empty},
                !.count = [s \in Heads |-> [p \in 0 .. NPos - 1 |->
                  @[s][p] - times(c.pos, c.seq, s, p)]]]

\* What a cell held is counted off (seq_pos_dec), what it holds now counted on
\* (seq_pos_inc), and it is used unless it is empty.
SetCells(c, new) ==
  LET pos == [i \in Index |-> IF i \in DOMAIN new THEN new[i].pos ELSE c.pos[i]]
      seq == [i \in Index |-> IF i \in DOMAIN new THEN new[i].seqs ELSE c.seq[i]]
      times(q, r, s, p) == Cardinality({i \in DOMAIN new : s \in r[i] /\ q[i] = p})
  IN  [c EXCEPT !.pos = pos, !.seq = seq,
                !.used = (@ \ DOMAIN new) \cup {i \in DOMAIN new : new[i].pos # Empty},
                !.count = [s \in Heads |-> [p \in 0 .. NPos - 1 |->
                  @[s][p] - times(c.pos, c.seq, s, p) + times(pos, seq, s, p)]]]

\* llama_memory_seq_rm(s, from[s], -1) for one sequence after the other; nothing
\* is at NPos.  A cell nobody is left on is free, and the search starts at the
\* first cell freed if that is before the head.
SeqRm(c, from) ==
  LET left(i) == {s \in c.seq[i] : c.pos[i] < from[s]}
      hit     == {i \in Index : left(i) # c.seq[i]}
      freed   == {i \in hit : left(i) = {}}
      new     == [i \in hit |-> [pos  |-> IF i \in freed THEN Empty ELSE c.pos[i],
                                 seqs |-> left(i)]]
  IN  [SetCells(c, new) EXCEPT
         !.head = IF freed # {} /\ Min(freed) < @ THEN Min(freed) ELSE @]

\* llama_memory_clear, the tensors included.
NewCells ==
  [pos |-> [i \in Index |-> Empty], seq |-> [i \in Index |-> {}], used |-> {},
   count |-> [s \in Heads |-> [p \in 0 .. NPos - 1 |-> 0]],
   data |-> [i \in Index |-> Spoilt], head |-> 0]

-----------------------------------------------------------------------------
(* Placing *)

\* The cells a search from start on comes by, up to cell i.
Tested(start, i) ==
  IF start <= i THEN start .. i ELSE 0 .. i \cup start .. NCells - 1

\* Mutant of FindSlot: one cell too many is asked for.
FindSlotOneMore(c, n) ==
  LET start == IF c.head > Cardinality(c.used) + 2 * n THEN 0 ELSE c.head
      free  == {i \in Index : c.pos[i] = Empty}
  IN  IF Cardinality(free) <= n THEN <<>>
      ELSE [k \in 1 .. n |-> CHOOSE i \in free : Cardinality(Tested(start, i) \cap free) = k]

\* find_slot: the first n empty cells from the head on, around the end of the
\* cache; from the start of the cache if enough cells are free before the head.
FindSlot(c, n) ==
  LET start == IF c.head > Cardinality(c.used) + 2 * n THEN 0 ELSE c.head
      free  == {i \in Index : c.pos[i] = Empty}
  IN  IF Cardinality(free) < n THEN <<>>
      ELSE [k \in 1 .. n |-> CHOOSE i \in free : Cardinality(Tested(start, i) \cap free) = k]

\* The place of a cell in a slot.
At(slot, i) == CHOOSE k \in DOMAIN slot : slot[k] = i

\* apply_ubatch.
Place(c, slot, ubatch) ==
  [SetCells(c, [i \in Range(slot) |-> ubatch[At(slot, i)]]) EXCEPT !.head = Last(slot) + 1]

\* A placed ubatch is taken back: its cells, then the head.
TakeBack(state, c) == [SetCells(c, state.cells) EXCEPT !.head = state.head]

\* Backwards, so that the cache is as it was before the first.
TakeAllBack(states, c) == FoldRight(TakeBack, states, c)

\* One round of prepare: a slot is found, what it holds is saved, and the
\* ubatch is placed, so that the next one is searched a slot beside it.
PlaceNext(all, ubatch) ==
  LET slot == FindSlot(all.cells, Len(ubatch))
      save == [slot  |-> slot, head |-> all.cells.head,
               cells |-> [i \in Range(slot) |->
                           [pos |-> all.cells.pos[i], seqs |-> all.cells.seq[i]]]]
  IN  IF ~all.fits THEN all
      ELSE IF slot = <<>> THEN [all EXCEPT !.fits = FALSE]
      ELSE [fits |-> TRUE, cells |-> Place(all.cells, slot, ubatch),
            states |-> Append(all.states, save)]

Placed(c, ubatches) ==
  FoldLeft(PlaceNext, [fits |-> TRUE, cells |-> c, states |-> <<>>], ubatches)

\* Mutant of Prepare: what was placed is taken back only if all of it fits.
PrepareKeeps(c, ubatches) ==
  LET all == Placed(c, ubatches)
  IN  [cells |-> IF all.fits THEN TakeAllBack(all.states, all.cells) ELSE all.cells,
       fits |-> all.fits,
       slots |-> [k \in DOMAIN all.states |-> all.states[k].slot]]

\* prepare: a slot for every ubatch, with the cache put back backwards as it was.
Prepare(c, ubatches) ==
  LET all == Placed(c, ubatches)
  IN  [cells |-> TakeAllBack(all.states, all.cells), fits |-> all.fits,
       slots |-> [k \in DOMAIN all.states |-> all.states[k].slot]]
=============================================================================
