----------------------------- MODULE T2MService -----------------------------
(***************************************************************************)
(* What the pipeline promises to whoever asks it for a motion: one answer  *)
(* per question, a clip only when the prompt can have one, and then the    *)
(* clip of that very prompt.  Nothing of sockets, locks or files.          *)
(***************************************************************************)
CONSTANTS Askers,      \* handlers of run_server and direct clients of t2m_infer
          Classes,     \* kinds of prompt
          None         \* no question, no answer

VARIABLES asked,       \* asker -> the class of the prompt it waits on, or None
          told         \* asker -> its last answer, or None

(* A clip is named by what it was made from. *)
Clip(w, c) == [by |-> w, class |-> c]

(* The answers a prompt of a class may get. *)
Allowed(w, c) ==
    CASE c = "bad"  -> {[status |-> "refused", clip |-> None]}
      [] c = "fits" -> {[status |-> "ok", clip |-> Clip(w, c)],
                        [status |-> "failed", clip |-> None]}
      [] OTHER      -> {[status |-> "failed", clip |-> None]}

Init == asked = [w \in Askers |-> None] /\ told = [w \in Askers |-> None]

Ask(w) ==
    /\ asked[w] = None
    /\ \E c \in Classes : asked' = [asked EXCEPT ![w] = c]
    /\ told' = [told EXCEPT ![w] = None]

Tell(w) ==
    /\ asked[w] # None
    /\ \E a \in Allowed(w, asked[w]) : told' = [told EXCEPT ![w] = a]
    /\ asked' = [asked EXCEPT ![w] = None]

(* An asker may also leave without its answer. *)
GiveUp(w) ==
    /\ asked[w] # None
    /\ asked' = [asked EXCEPT ![w] = None]
    /\ UNCHANGED told

Next == \E w \in Askers : Ask(w) \/ Tell(w) \/ GiveUp(w)

Spec == Init /\ [][Next]_<<asked, told>>
=============================================================================
