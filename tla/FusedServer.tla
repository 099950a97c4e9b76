---------------------------- MODULE FusedServer ----------------------------
(***************************************************************************)
(* The life of a fused_server process: its start, the two server threads,  *)
(* the stop signal and the end of main (fused_server.cpp).                 *)
(*                                                                         *)
(* on_signal may run on any thread, so it is a process beside them; it is  *)
(* installed for two signals, and its two runs may overlap.  A listening   *)
(* socket belongs to whoever took it out of its atomic: shutdown and close *)
(* are the only ways to wake or release it.  Requests are not looked into  *)
(* (SimpleToolDecode, T2MPipeline): a client holds a thread until it goes. *)
(* This is the POSIX build.                                                *)
(***************************************************************************)
EXTENDS Naturals, FiniteSets

CONSTANT ForeignPorts   \* ports another program of the machine may take

Ports == {"hidden", "simpletool"}
Signals == {"INT", "TERM"}

VARIABLES
  up,       \* the process: its phase
  stop,     \* g_stop
  slot,     \* which of g_srv_hidden and g_srv_simpletool hold a socket
  sock,     \* the listening socket of each thread
  thr,      \* where each server thread is
  raised,   \* signals sent and not yet handled
  sig,      \* where the run of on_signal for each signal is
  held,     \* s1 and s2 of that run: the sockets it took
  foreign   \* ports another program listens on

fusedVars == <<up, stop, slot, sock, thr, raised, sig, held, foreign>>

Phase == {"off", "exec", "loading", "serving", "dead"}
SockState == {"none", "open", "shut", "closed"}
ThreadAt == {"none", "bind", "listening", "test", "accept", "serve", "leave", "gone"}
HandlerAt == {"idle", "store", "hidden", "simpletool", "shut"}

Alive == up \notin {"off", "dead"}
Listens(p) == up = "serving" /\ sock[p] = "open"

FusedInit ==
  /\ up = "off" /\ stop = FALSE
  /\ slot = [p \in Ports |-> FALSE]
  /\ sock = [p \in Ports |-> "none"]
  /\ thr = [p \in Ports |-> "none"]
  /\ raised = {}
  /\ sig = [g \in Signals |-> "idle"]
  /\ held = [g \in Signals |-> {}]
  /\ foreign = {}

-----------------------------------------------------------------------------
(* main *)

Exec ==
  /\ up = "off" /\ up' = "exec"
  /\ UNCHANGED <<stop, slot, sock, thr, raised, sig, held, foreign>>

\* std::signal, twice: from here on both signals are handled.
Install ==
  /\ up = "exec" /\ up' = "loading"
  /\ UNCHANGED <<stop, slot, sock, thr, raised, sig, held, foreign>>

\* The model is loaded and warmed up, and the threads begin; g_stop is not
\* looked at before.
Loaded ==
  /\ up = "loading" /\ up' = "serving"
  /\ thr' = [p \in Ports |-> "bind"]
  /\ UNCHANGED <<stop, slot, sock, raised, sig, held, foreign>>

\* No model, no context or a token that is missing: main returns.
LoadFails ==
  /\ up = "loading" /\ up' = "dead"
  /\ UNCHANGED <<stop, slot, sock, thr, raised, sig, held, foreign>>

\* Both threads are joined and main returns.
Joined ==
  /\ up = "serving" /\ \A p \in Ports : thr[p] = "gone"
  /\ up' = "dead"
  /\ UNCHANGED <<stop, slot, sock, thr, raised, sig, held, foreign>>

-----------------------------------------------------------------------------
(* The two server threads *)

Goes(p, from, to) == up = "serving" /\ thr[p] = from /\ thr' = [thr EXCEPT ![p] = to]

Bind(p) ==
  /\ p \notin foreign
  /\ Goes(p, "bind", "listening")
  /\ sock' = [sock EXCEPT ![p] = "open"]
  /\ UNCHANGED <<up, stop, slot, raised, sig, held, foreign>>

\* The port is taken: the thread returns, and the process goes on without it.
BindFails(p) ==
  /\ p \in foreign
  /\ Goes(p, "bind", "gone")
  /\ UNCHANGED <<up, stop, slot, sock, raised, sig, held, foreign>>

Store(p) ==
  /\ Goes(p, "listening", "test")
  /\ slot' = [slot EXCEPT ![p] = TRUE]
  /\ UNCHANGED <<up, stop, sock, raised, sig, held, foreign>>

\* Mutant of Test: the loop tests g_stop after the first client only.
TestLater(p) ==
  /\ Goes(p, "test", "accept")
  /\ UNCHANGED <<up, stop, slot, sock, raised, sig, held, foreign>>

Test(p) ==
  /\ Goes(p, "test", IF stop THEN "leave" ELSE "accept")
  /\ UNCHANGED <<up, stop, slot, sock, raised, sig, held, foreign>>

\* A client is there, perhaps only the launcher that tries the port.
Accept(p) ==
  /\ sock[p] = "open"
  /\ Goes(p, "accept", "serve")
  /\ UNCHANGED <<up, stop, slot, sock, raised, sig, held, foreign>>

\* accept fails on the socket the handler has shut down.
AcceptFails(p) ==
  /\ sock[p] = "shut"
  /\ Goes(p, "accept", IF stop THEN "leave" ELSE "test")
  /\ UNCHANGED <<up, stop, slot, sock, raised, sig, held, foreign>>

\* The client closes its connection; nothing else ends the inner loop.
ClientLeaves(p) ==
  /\ Goes(p, "serve", "test")
  /\ UNCHANGED <<up, stop, slot, sock, raised, sig, held, foreign>>

\* The exchange, and the close if the handler has not taken the socket.
Leave(p) ==
  /\ Goes(p, "leave", "gone")
  /\ slot' = [slot EXCEPT ![p] = FALSE]
  /\ sock' = [sock EXCEPT ![p] = IF slot[p] THEN "closed" ELSE @]
  /\ UNCHANGED <<up, stop, raised, sig, held, foreign>>

-----------------------------------------------------------------------------
(* Signals *)

\* kill -TERM, or Ctrl-C at the terminal of the launcher.  Before Install a TERM
\* ends the process, and an INT is ignored as in every job of a script.
Raise(g) ==
  /\ raised' = IF up \in {"loading", "serving"} THEN raised \cup {g} ELSE raised
  /\ up' = IF up = "exec" /\ g = "TERM" THEN "dead" ELSE up
  /\ UNCHANGED <<stop, slot, sock, thr, sig, held, foreign>>

Kill ==
  /\ up' = IF Alive THEN "dead" ELSE up
  /\ UNCHANGED <<stop, slot, sock, thr, raised, sig, held, foreign>>

Handles(g, from, to) ==
  /\ up \in {"loading", "serving"} /\ sig[g] = from /\ sig' = [sig EXCEPT ![g] = to]

\* A signal is blocked while its own handler runs.
Deliver(g) ==
  /\ g \in raised /\ raised' = raised \ {g}
  /\ Handles(g, "idle", "store")
  /\ UNCHANGED <<up, stop, slot, sock, thr, held, foreign>>

SetStop(g) ==
  /\ Handles(g, "store", "hidden")
  /\ stop' = TRUE
  /\ UNCHANGED <<up, slot, sock, thr, raised, held, foreign>>

\* Mutant of Take: the handler reads the atomics and leaves the socket in.
TakeByLoad(g, p) ==
  /\ Handles(g, p, IF p = "hidden" THEN "simpletool" ELSE "shut")
  /\ held' = [held EXCEPT ![g] = IF slot[p] THEN @ \cup {p} ELSE @]
  /\ UNCHANGED <<up, stop, slot, sock, thr, raised, foreign>>

\* The exchange of one of the atomics.
Take(g, p) ==
  /\ Handles(g, p, IF p = "hidden" THEN "simpletool" ELSE "shut")
  /\ slot' = [slot EXCEPT ![p] = FALSE]
  /\ held' = [held EXCEPT ![g] = IF slot[p] THEN @ \cup {p} ELSE @]
  /\ UNCHANGED <<up, stop, sock, thr, raised, foreign>>

\* shutdown of a socket taken, that of the hidden port first.
Shutdown(g, p) ==
  /\ p \in held[g] /\ (p = "hidden" \/ "hidden" \notin held[g])
  /\ Handles(g, "shut", "shut")
  /\ held' = [held EXCEPT ![g] = @ \ {p}]
  /\ sock' = [sock EXCEPT ![p] = "shut"]
  /\ UNCHANGED <<up, stop, slot, thr, raised, foreign>>

HandlerReturns(g) ==
  /\ held[g] = {}
  /\ Handles(g, "shut", "idle")
  /\ UNCHANGED <<up, stop, slot, sock, thr, raised, held, foreign>>

-----------------------------------------------------------------------------

\* Another program listens on a port that is free.
ForeignTakes(p) ==
  /\ p \in ForeignPorts \ foreign
  /\ p \in Ports => ~Listens(p)
  /\ foreign' = foreign \cup {p}
  /\ UNCHANGED <<up, stop, slot, sock, thr, raised, sig, held>>

ForeignLeaves(p) ==
  /\ p \in foreign /\ foreign' = foreign \ {p}
  /\ UNCHANGED <<up, stop, slot, sock, thr, raised, sig, held>>

MainStep == Install \/ Loaded \/ Joined

ThreadStep(p) ==
  Bind(p) \/ BindFails(p) \/ Store(p) \/ Test(p) \/ AcceptFails(p) \/ Leave(p)

HandlerStep(g) ==
  \/ Deliver(g) \/ SetStop(g) \/ HandlerReturns(g)
  \/ \E p \in Ports : Take(g, p) \/ Shutdown(g, p)

\* What the process does by itself once it is started.
Runs ==
  \/ MainStep \/ LoadFails
  \/ \E p \in Ports : ThreadStep(p) \/ Accept(p) \/ ClientLeaves(p)
  \/ \E g \in Signals : HandlerStep(g)

FusedNext ==
  \/ Exec \/ Runs \/ Kill
  \/ \E g \in Signals : Raise(g)
  \/ \E p \in ForeignPorts : ForeignTakes(p)
  \/ \E p \in foreign : ForeignLeaves(p)

FusedSpec == FusedInit /\ [][FusedNext]_fusedVars

-----------------------------------------------------------------------------
(* Properties *)

FusedTypeOK ==
  /\ up \in Phase /\ stop \in BOOLEAN
  /\ slot \in [Ports -> BOOLEAN]
  /\ sock \in [Ports -> SockState]
  /\ thr \in [Ports -> ThreadAt]
  /\ raised \in SUBSET Signals
  /\ sig \in [Signals -> HandlerAt]
  /\ held \in [Signals -> SUBSET Ports]
  /\ foreign \in SUBSET ForeignPorts

\* A listening socket has one owner: the atomic, or one run of the handler that
\* took it out, whatever the order of both runs and of the threads that leave.
\* So it is never shut down after its thread has closed it (its number could be
\* that of another file by then), nor closed while a run is about to shut it
\* down, and never twice.
OneOwner ==
  \A p \in Ports :
    /\ slot[p] => sock[p] = "open" /\ thr[p] # "gone"
    /\ \A g \in Signals :
         p \in held[g] =>
           /\ ~slot[p] /\ sock[p] = "open" /\ stop
           /\ \A h \in Signals \ {g} : p \notin held[h]

\* Once stopped, however the signal fell between listen, the store, the test and
\* accept, the process ends unless a client that stays keeps a thread.
StopEnds == stop ~> ~Alive \/ \E p \in Ports : thr[p] = "serve"
=============================================================================
