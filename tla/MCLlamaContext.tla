--------------------------- MODULE MCLlamaContext ---------------------------
(* A small context: prefills shared by all sequences or by some, single tokens
   of several sequences at one position, on more positions than fit. *)
EXTENDS LlamaContext

T(p, heads) == [pos |-> p, tok |-> "a", seqs |-> heads]
Span(p, n, heads) == SubSeq(<<T(p, heads), T(p + 1, heads), T(p + 2, heads)>>, 1, n)
MCBatches ==
  {Span(p, n, Heads) : <<p, n>> \in {x \in (0 .. 1) \X (1 .. NBatch) : x[1] + x[2] <= NPos}}
    \cup {Span(p, 1, {0}) : p \in 1 .. NPos - 1}
    \cup {<<T(p, {0}), T(p, {1})>> : p \in 1 .. NPos - 1}
ASSUME RegularAssumption == \A batch \in MCBatches : Regular(batch)

MCToken == {"a"}
=============================================================================
