--------------------------- MODULE Launcher_proofs ---------------------------
(***************************************************************************)
(* Theorems about FusedServer and Launcher.  The sockets of fused_server   *)
(* have one owner, whatever the order of the two threads, the two runs of  *)
(* the handler and the rest of the machine; what the launcher does to      *)
(* fused_server is what any user could do to it, and it leaves no server   *)
(* behind.                                                                 *)
(***************************************************************************)
EXTENDS Launcher, TLAPS

-----------------------------------------------------------------------------
(* The sockets of fused_server *)

\* Where a thread that has not stored its socket yet is, nobody else knows it.
Unstored(p) ==
  /\ ~slot[p]
  /\ \A g \in Signals : p \notin held[g]

\* What the positions of the threads and of the handler say about the sockets.
ThreadInv ==
  \A p \in Ports :
    /\ thr[p] \in {"none", "bind", "listening"} => Unstored(p)
    /\ thr[p] = "listening" => sock[p] = "open"
    /\ thr[p] = "gone" => ~slot[p]

\* What a run of the handler has taken so far.
HandlerInv ==
  \A g \in Signals :
    /\ sig[g] \in {"idle", "store", "hidden"} => held[g] = {}
    /\ sig[g] = "simpletool" => held[g] \subseteq {"hidden"}
    /\ sig[g] \notin {"idle", "store"} => stop

\* Before the model is loaded there are no threads.
Starting == up \in {"off", "exec", "loading"}
StartInv == Starting => \A p \in Ports : thr[p] = "none"

IInv == FusedTypeOK /\ StartInv /\ OneOwner /\ ThreadInv /\ HandlerInv

\* Another program takes a port, or gives it up.
ForeignStep ==
  \/ \E p \in ForeignPorts : ForeignTakes(p)
  \/ \E p \in foreign : ForeignLeaves(p)

LEMMA InitInv == FusedInit => IInv
<1> SUFFICES ASSUME FusedInit PROVE IInv
  OBVIOUS
<1>1. FusedTypeOK
  BY DEF FusedInit, FusedTypeOK, Phase, SockState, ThreadAt, HandlerAt, Ports, Signals
<1>2. StartInv
  BY DEF FusedInit, StartInv
<1>3. OneOwner
  BY DEF FusedInit, OneOwner
<1>4. ThreadInv
  BY DEF FusedInit, ThreadInv, Unstored
<1>5. HandlerInv
  BY DEF FusedInit, HandlerInv
<1> QED BY <1>1, <1>2, <1>3, <1>4, <1>5 DEF IInv

\* Every step keeps the type.
LEMMA TypeStep == FusedTypeOK /\ [FusedNext]_fusedVars => FusedTypeOK'
<1> SUFFICES ASSUME FusedTypeOK, [FusedNext]_fusedVars PROVE FusedTypeOK'
  OBVIOUS
<1> USE DEF FusedTypeOK
<1>1. CASE Exec \/ Install \/ Joined \/ LoadFails \/ Kill
  BY <1>1 DEF Exec, Install, Joined, LoadFails, Kill, Phase
<1>2. CASE Loaded
  BY <1>2 DEF Loaded, Phase, ThreadAt
<1>3. ASSUME NEW p \in Ports, ThreadStep(p) \/ Accept(p) \/ ClientLeaves(p)
      PROVE  FusedTypeOK'
  <2>1. thr' \in [Ports -> ThreadAt]
    BY <1>3 DEF ThreadStep, Bind, BindFails, Store, Test, AcceptFails, Leave, Accept,
                ClientLeaves, Goes, ThreadAt
  <2>2. CASE Bind(p)
    BY <2>1, <2>2 DEF Bind, Goes, SockState
  <2>3. CASE Store(p)
    BY <2>1, <2>3 DEF Store, Goes
  <2>4. CASE Leave(p)
    BY <2>1, <2>4 DEF Leave, Goes, SockState
  <2>5. CASE BindFails(p) \/ Test(p) \/ AcceptFails(p) \/ Accept(p) \/ ClientLeaves(p)
    BY <2>1, <2>5 DEF BindFails, Test, AcceptFails, Accept, ClientLeaves, Goes
  <2> QED BY <1>3, <2>2, <2>3, <2>4, <2>5 DEF ThreadStep
<1>4. ASSUME NEW g \in Signals, HandlerStep(g) PROVE FusedTypeOK'
  <2>1. sig' \in [Signals -> HandlerAt]
    BY <1>4 DEF HandlerStep, Deliver, SetStop, HandlerReturns, Take, Shutdown, Handles,
                HandlerAt
  <2>2. CASE Deliver(g)
    BY <2>1, <2>2 DEF Deliver, Handles
  <2>3. CASE SetStop(g) \/ HandlerReturns(g)
    BY <2>1, <2>3 DEF SetStop, HandlerReturns, Handles
  <2>4. ASSUME NEW p \in Ports, Take(g, p) PROVE FusedTypeOK'
    BY <2>1, <2>4 DEF Take, Handles
  <2>5. ASSUME NEW p \in Ports, Shutdown(g, p) PROVE FusedTypeOK'
    BY <2>1, <2>5 DEF Shutdown, Handles, SockState
  <2> QED BY <1>4, <2>2, <2>3, <2>4, <2>5 DEF HandlerStep
<1>5. ASSUME NEW g \in Signals, Raise(g) PROVE FusedTypeOK'
  BY <1>5 DEF Raise, Phase
<1>6. CASE ForeignStep
  BY <1>6 DEF ForeignStep, ForeignTakes, ForeignLeaves
<1>7. CASE UNCHANGED fusedVars
  BY <1>7 DEF fusedVars
<1> QED BY <1>1, <1>2, <1>3, <1>4, <1>5, <1>6, <1>7 DEF FusedNext, ForeignStep, Runs, MainStep

\* The threads begin once everything is loaded.
LEMMA StartStep == StartInv /\ [FusedNext]_fusedVars => StartInv'
<1> SUFFICES ASSUME StartInv, [FusedNext]_fusedVars PROVE StartInv'
  OBVIOUS
<1> USE DEF StartInv, Starting
<1>1. CASE Exec \/ MainStep \/ LoadFails \/ Kill \/ UNCHANGED fusedVars
  BY <1>1 DEF Exec, MainStep, Install, Loaded, Joined, LoadFails, Kill, fusedVars
<1>2. ASSUME NEW p \in Ports, ThreadStep(p) \/ Accept(p) \/ ClientLeaves(p)
      PROVE  StartInv'
  BY <1>2 DEF ThreadStep, Bind, BindFails, Store, Test, AcceptFails, Leave, Accept,
              ClientLeaves, Goes
<1>3. ASSUME NEW g \in Signals, HandlerStep(g) \/ Raise(g) PROVE StartInv'
  BY <1>3 DEF HandlerStep, Deliver, SetStop, HandlerReturns, Take, Shutdown, Raise
<1>4. CASE ForeignStep
  BY <1>4 DEF ForeignStep, ForeignTakes, ForeignLeaves
<1> QED BY <1>1, <1>2, <1>3, <1>4 DEF FusedNext, ForeignStep, Runs

\* A step that leaves the sockets, the threads and the handlers alone.
LEMMA QuietStep ==
  ASSUME IInv, UNCHANGED <<stop, slot, sock, thr, sig, held>>
  PROVE  (OneOwner /\ ThreadInv /\ HandlerInv)'
  BY DEF IInv, OneOwner, ThreadInv, Unstored, HandlerInv

\* A run of the handler begins, sets the flag or returns.
LEMMA HandlerKeeps ==
  ASSUME IInv, NEW g \in Signals, Deliver(g) \/ SetStop(g) \/ HandlerReturns(g)
  PROVE  (OneOwner /\ ThreadInv /\ HandlerInv)'
  BY DEF Deliver, SetStop, HandlerReturns, Handles,
         IInv, FusedTypeOK, OneOwner, ThreadInv, Unstored, HandlerInv

\* A step of a thread.
LEMMA ThreadKeeps ==
  ASSUME IInv, NEW p \in Ports, ThreadStep(p) \/ Accept(p) \/ ClientLeaves(p)
  PROVE  (OneOwner /\ ThreadInv /\ HandlerInv)'
<1> USE DEF IInv, FusedTypeOK, OneOwner, ThreadInv, Unstored, HandlerInv, Goes
<1>1. CASE Bind(p)
  BY <1>1 DEF Bind
<1>2. CASE Store(p)
  BY <1>2 DEF Store
<1>3. CASE BindFails(p) \/ Test(p) \/ AcceptFails(p) \/ Accept(p) \/ ClientLeaves(p)
  BY <1>3 DEF BindFails, Test, AcceptFails, Accept, ClientLeaves
<1>4. CASE Leave(p)
  BY <1>4 DEF Leave
<1> QED BY <1>1, <1>2, <1>3, <1>4 DEF ThreadStep

\* The handler takes a socket out of its atomic.
LEMMA TakeKeeps ==
  ASSUME IInv, NEW g \in Signals, NEW p \in Ports, Take(g, p)
  PROVE  (OneOwner /\ ThreadInv /\ HandlerInv)'
<1> USE DEF IInv, FusedTypeOK, Take, Handles
<1>1. OneOwner'
  BY DEF OneOwner, HandlerInv, Ports, Signals
<1>2. ThreadInv'
  BY DEF ThreadInv, Unstored
<1>3. HandlerInv'
  BY DEF HandlerInv, Ports, Signals
<1> QED BY <1>1, <1>2, <1>3

\* It shuts one down that it took.
LEMMA ShutdownKeeps ==
  ASSUME IInv, NEW g \in Signals, NEW p \in Ports, Shutdown(g, p)
  PROVE  (OneOwner /\ ThreadInv /\ HandlerInv)'
<1> USE DEF IInv, FusedTypeOK, Shutdown, Handles
<1>1. OneOwner'
  BY DEF OneOwner
<1>2. ThreadInv'
  BY DEF OneOwner, ThreadInv, Unstored
<1>3. HandlerInv'
  BY DEF HandlerInv
<1> QED BY <1>1, <1>2, <1>3

LEMMA StepKeeps == IInv /\ [FusedNext]_fusedVars => IInv'
<1> SUFFICES ASSUME IInv, [FusedNext]_fusedVars PROVE IInv'
  OBVIOUS
<1>1. FusedTypeOK' /\ StartInv'
  BY TypeStep, StartStep DEF IInv
<1>2. (OneOwner /\ ThreadInv /\ HandlerInv)'
  <2>1. CASE Exec \/ Install \/ Joined \/ LoadFails \/ Kill \/ UNCHANGED fusedVars
    <3>1. UNCHANGED <<stop, slot, sock, thr, sig, held>>
      BY <2>1 DEF Exec, Install, Joined, LoadFails, Kill, fusedVars
    <3> QED BY <3>1, QuietStep
  <2>2. CASE Loaded
    BY <2>2 DEF Loaded, IInv, StartInv, Starting, OneOwner, ThreadInv, Unstored, HandlerInv
  <2>3. ASSUME NEW p \in Ports, ThreadStep(p) \/ Accept(p) \/ ClientLeaves(p)
        PROVE  (OneOwner /\ ThreadInv /\ HandlerInv)'
    BY <2>3, ThreadKeeps
  <2>4. ASSUME NEW g \in Signals, HandlerStep(g) \/ Raise(g)
        PROVE  (OneOwner /\ ThreadInv /\ HandlerInv)'
    <3>1. CASE Raise(g)
      <4>1. UNCHANGED <<stop, slot, sock, thr, sig, held>>
        BY <3>1 DEF Raise
      <4> QED BY <4>1, QuietStep
    <3> QED BY <2>4, <3>1, HandlerKeeps, TakeKeeps, ShutdownKeeps DEF HandlerStep
  <2>5. CASE ForeignStep
    <3>1. UNCHANGED <<stop, slot, sock, thr, sig, held>>
      BY <2>5 DEF ForeignStep, ForeignTakes, ForeignLeaves
    <3> QED BY <3>1, QuietStep
  <2> QED BY <2>1, <2>2, <2>3, <2>4, <2>5 DEF FusedNext, ForeignStep, Runs, MainStep
<1> QED BY <1>1, <1>2 DEF IInv

\* No listening socket of fused_server is shut down or closed by two of its
\* threads and handler runs, or once it is closed, in any order of events.
THEOREM AlwaysOneOwner == FusedSpec => []OneOwner
<1>1. IInv => OneOwner
  BY DEF IInv
<1> QED BY InitInv, StepKeeps, <1>1, PTL DEF FusedSpec

-----------------------------------------------------------------------------
(* fused_server, started by the launcher, is still FusedServer *)

LEMMA StepIsFused == [Next]_vars => [FusedNext]_fusedVars
<1> SUFFICES ASSUME [Next]_vars PROVE [FusedNext]_fusedVars
  OBVIOUS
<1> USE DEF FusedNext
<1>1. CASE Launch
  BY <1>1 DEF Launch, Preflight, ForkFused, Pid, File, Wait, Check, ForkT2M, Monitor, External
<1>2. CASE CleanUp
  BY <1>2 DEF CleanUp, CleanTerm, Term, Grace, CleanKill, KillHard, Remove, External, Signals
<1>3. ASSUME NEW g \in Signals, Interrupt(g) \/ ByHand(g) PROVE [FusedNext]_fusedVars
  BY <1>3 DEF Interrupt, ByHand, Signals
<1>4. CASE Crash \/ FusedRuns \/ T2MListens \/ T2MFails \/ Foreign \/ StopStarts
  BY <1>4 DEF Crash, FusedRuns, T2MListens, T2MFails, Foreign, StopStarts, External
<1>5. CASE StopLook
  <2>1. CASE UNCHANGED fusedVars
    BY <2>1
  <2>2. CASE Raise("TERM")
    BY <2>2 DEF Signals
  <2>3. CASE ForeignLeaves(Target)
    BY <2>3 DEF ForeignLeaves
  <2> QED BY <1>5, <2>1, <2>2, <2>3 DEF StopLook, Term
<1>6. CASE StopWait
  BY <1>6 DEF StopWait, KillHard
<1>7. CASE UNCHANGED vars
  BY <1>7 DEF vars
<1> QED BY <1>1, <1>2, <1>3, <1>4, <1>5, <1>6, <1>7 DEF Next

\* Beside the launcher, stop_servers and whoever sends it signals, fused_server
\* takes no step it would not take by itself.
THEOREM RunsFusedServer == Spec => FusedSpec
<1>1. Init => FusedInit
  BY DEF Init
<1> QED BY <1>1, StepIsFused, PTL DEF Spec, FusedSpec

\* The sockets of fused_server have one owner while the scripts start and stop it.
THEOREM OneOwnerUnderLauncher == Spec => []OneOwner
  BY RunsFusedServer, AlwaysOneOwner, PTL

-----------------------------------------------------------------------------
(* The type of the launcher's state *)

LEMMA TypeInit == Init => TypeOK
<1> SUFFICES ASSUME Init PROVE TypeOK
  OBVIOUS
<1>1. FusedTypeOK
  BY InitInv DEF Init, IInv
<1>2. stopper \in [at : NotStarted .. Done, whom : Servers \cup {"nobody", "foreign"},
                  there : SUBSET Servers]
  BY DEF Init, NotStarted, Done, Targets
<1> QED BY <1>1, <1>2 DEF Init, TypeOK, Path

\* Beyond what a step does to fused_server, which has its own theorem: a step of
\* anything but the script and stop_servers.
LEMMA T2MTypeStep ==
  ASSUME TypeOK, FusedTypeOK', UNCHANGED <<launchVars, stopper>>,
         t2m' \in {t2m, "dead", "listening"}
  PROVE  TypeOK'
  BY DEF TypeOK, launchVars

\* cleanup comes back to a command of the script, or to its end.
LEMMA CleanUpThenType ==
  ASSUME TypeOK, NEW l \in Path \cup {"gone"}, CleanUpThen(l)
  PROVE  /\ at' \in Path \cup Cleaning \cup {"gone"} /\ ret' \in Path \cup {"gone"}
         /\ down' \in BOOLEAN
  BY DEF TypeOK, CleanUpThen, Cleaning

LEMMA ExitType ==
  ASSUME TypeOK, FusedTypeOK', Exit, External PROVE TypeOK'
  BY CleanUpThenType DEF TypeOK, Exit, External

LEMMA GotoType ==
  ASSUME TypeOK, FusedTypeOK', NEW l \in Path \cup Cleaning, Goto(l), UNCHANGED stopper,
         t2m' \in {t2m, "dead", "loading"}
  PROVE  TypeOK'
  BY DEF TypeOK, Goto

LEMMA LaunchTypeStep == TypeOK /\ FusedTypeOK' /\ Launch => TypeOK'
<1> SUFFICES ASSUME TypeOK, FusedTypeOK', Launch PROVE TypeOK'
  OBVIOUS
<1>1. CASE Preflight
  BY <1>1, ExitType, GotoType DEF Preflight, Path, External
<1>2. CASE ForkFused \/ ForkT2M
  BY <1>2, GotoType DEF ForkFused, ForkT2M, Path
<1>3. ASSUME NEW s \in Servers, NEW here, NEW there \in Path,
             Pid(s, here, there) \/ File(s, here, there)
      PROVE  TypeOK'
  BY <1>3 DEF Pid, File, External, TypeOK
<1>4. ASSUME NEW p, NEW here, NEW there \in Path,
             Wait(p, here, there) \/ Check(p, here, there)
      PROVE  TypeOK'
  BY <1>4, ExitType, GotoType DEF Wait, Check, External
<1>5. CASE Monitor
  BY <1>5, ExitType DEF Monitor
<1> QED BY <1>1, <1>2, <1>3, <1>4, <1>5 DEF Launch, Servers, Path

LEMMA CleanUpTypeStep == TypeOK /\ FusedTypeOK' /\ CleanUp => TypeOK'
<1> SUFFICES ASSUME TypeOK, FusedTypeOK', CleanUp PROVE TypeOK'
  OBVIOUS
<1>1. ASSUME NEW s, NEW here, NEW there \in Cleaning,
             CleanTerm(s, here, there) \/ CleanKill(s, here, there)
      PROVE  TypeOK'
  BY <1>1, GotoType DEF CleanTerm, CleanKill, Term, KillHard
<1>2. CASE Grace
  BY <1>2, GotoType DEF Grace, External, Cleaning
<1>3. CASE Remove
  BY <1>3 DEF Remove, External, TypeOK
<1> QED BY <1>1, <1>2, <1>3 DEF CleanUp, Cleaning

\* stop_servers goes from one target to the next, up to the end.
LEMMA NextTargetType ==
  ASSUME TypeOK, FusedTypeOK', NextTarget, stopper.at \in 1 .. Len(Targets),
         t2m' \in {t2m, "dead"}
  PROVE  TypeOK'
<1>1. stopper' \in [at : NotStarted .. Done, whom : Servers \cup {"nobody", "foreign"},
                   there : SUBSET Servers]
  <2> DEFINE whoms == Servers \cup {"nobody", "foreign"}
  <2>1. stopper \in [at : NotStarted .. Done, whom : whoms, there : SUBSET Servers]
    BY DEF TypeOK
  <2>2. stopper.at + 1 \in NotStarted .. Done
    BY DEF NotStarted, Done, Targets
  <2>3. stopper' = [stopper EXCEPT !.at = @ + 1, !.whom = "nobody"] /\ "nobody" \in whoms
    BY DEF NextTarget
  <2> HIDE DEF whoms
  <2>4. stopper' \in [at : NotStarted .. Done, whom : whoms, there : SUBSET Servers]
    BY <2>1, <2>2, <2>3
  <2> QED BY <2>4 DEF whoms
<1>2. files' \in SUBSET Servers
  BY DEF TypeOK, NextTarget
<1> QED BY <1>1, <1>2 DEF TypeOK, NextTarget

LEMMA StopperTypeStep == TypeOK /\ FusedTypeOK' /\ (StopStarts \/ StopLook \/ StopWait) => TypeOK'
<1> SUFFICES ASSUME TypeOK, FusedTypeOK', StopStarts \/ StopLook \/ StopWait PROVE TypeOK'
  OBVIOUS
<1>1. CASE StopStarts
  BY <1>1 DEF StopStarts, InSight, TypeOK, launchVars, NotStarted, Done, Targets
<1>2. CASE StopWait
  BY <1>2, NextTargetType DEF StopWait, KillHard
<1>3. CASE StopLook
  <2>1. CASE NextTarget /\ UNCHANGED <<fusedVars, t2m>>
    BY <1>3, <2>1, NextTargetType DEF StopLook
  <2>2. ASSUME NEW s \in Found, stopper' = [stopper EXCEPT !.whom = s], UNCHANGED launchVars,
               t2m' \in {t2m, "dead"}
        PROVE  TypeOK'
    <3>1. s \in Servers \cup {"foreign"}
      BY DEF Found, ByFile
    <3> QED BY <2>2, <3>1 DEF TypeOK, launchVars
  <2> QED BY <1>3, <2>1, <2>2 DEF StopLook, Term
<1> QED BY <1>1, <1>2, <1>3

\* The launcher, stop_servers and both servers are in a state of their types,
\* however their steps, the signals and the failures interleave.
THEOREM LauncherTypeCorrect == Spec => []TypeOK
<1>1. TypeOK /\ [Next]_vars => TypeOK'
  <2> SUFFICES ASSUME TypeOK, [Next]_vars PROVE TypeOK'
    OBVIOUS
  <2>0. FusedTypeOK'
    BY StepIsFused, TypeStep DEF TypeOK
  <2>1. CASE Launch \/ CleanUp \/ StopStarts \/ StopLook \/ StopWait
    BY <2>0, <2>1, LaunchTypeStep, CleanUpTypeStep, StopperTypeStep
  <2>2. CASE Crash
    BY <2>0, <2>2 DEF Crash, External, TypeOK
  <2>3. ASSUME NEW g \in Signals, Interrupt(g) PROVE TypeOK'
    BY <2>0, <2>3, CleanUpThenType DEF Interrupt, Moment, TypeOK
  <2>4. CASE FusedRuns \/ T2MListens \/ T2MFails \/ Foreign \/ \E g \in Signals : ByHand(g)
    BY <2>0, <2>4, T2MTypeStep DEF FusedRuns, T2MListens, T2MFails, Foreign, ByHand
  <2>5. CASE UNCHANGED vars
    BY <2>0, <2>5, T2MTypeStep DEF vars
  <2> QED BY <2>1, <2>2, <2>3, <2>4, <2>5 DEF Next
<1> QED BY TypeInit, <1>1, PTL DEF Spec

-----------------------------------------------------------------------------
(* What the launcher knows and leaves *)

\* Where the script may go on after a cleanup that knew every server.
Later == {"waitFused", "checkFused", "waitT2M", "checkT2M", "monitor", "gone"}
Resumed(l) ==
  \/ l \in Later
  \/ came = "stale" /\ l \in {"fileFused", "fileT2M"}

\* Every server that runs is one the script knows, or one it has just forked.
Held ==
  \A s \in Servers :
    Running(s) => \/ s \in known
                  \/ ~down /\ at = (IF s = "fused" THEN "pidFused" ELSE "pidT2M")

\* What cleanup has done so far.
Cleaned ==
  /\ at \in Cleaning => Resumed(ret)
  /\ at \in {"killFused", "remove"} => ~Running("t2m")
  /\ at = "remove" => ~Running("fused")

\* And when it is done.
Empty ==
  down /\ at \notin Cleaning =>
    /\ Resumed(at)
    /\ \A s \in Servers : ~Running(s)
    /\ came # "stale" => files = {}

LInv ==
  /\ at \in Cleaning => down
  /\ came # "no" => down
  /\ crashed = "no" => (at = "gone" => down)
  /\ crashed = "no" /\ came # "blind" => Held /\ Cleaned /\ Empty

\* No server comes to life.
Fades == \A s \in Servers : Running(s)' => Running(s)

LEMMA InvInit == Init => LInv
  BY DEF Init, FusedInit, LInv, Held, Cleaned, Empty, Running, Alive, Servers, Cleaning

LEMMA FusedFades ==
  ASSUME Runs \/ Kill \/ (\E g \in Signals : Raise(g))
           \/ (\E p \in ForeignPorts : ForeignTakes(p)) \/ UNCHANGED fusedVars
  PROVE  Alive' => Alive
<1> USE DEF Alive
<1>1. CASE MainStep \/ LoadFails \/ Kill
  BY <1>1 DEF MainStep, Install, Loaded, Joined, LoadFails, Kill
<1>2. ASSUME NEW p \in Ports, ThreadStep(p) \/ Accept(p) \/ ClientLeaves(p)
      PROVE  Alive' => Alive
  BY <1>2 DEF ThreadStep, Bind, BindFails, Store, Test, AcceptFails, Leave, Accept,
              ClientLeaves, Goes
<1>3. ASSUME NEW g \in Signals, HandlerStep(g) \/ Raise(g) PROVE Alive' => Alive
  BY <1>3 DEF HandlerStep, Deliver, SetStop, HandlerReturns, Take, Shutdown, Raise
<1>4. CASE (\E p \in ForeignPorts : ForeignTakes(p)) \/ UNCHANGED fusedVars
  BY <1>4 DEF ForeignTakes, fusedVars
<1> QED BY <1>1, <1>2, <1>3, <1>4 DEF Runs

\* What is sent to one server wakes none, and ends it if it is killed.
LEMMA TermFades ==
  ASSUME NEW s \in Servers, Term(s) PROVE Fades
  BY FusedFades DEF Term, Fades, Running, Servers, Signals, fusedVars, Raise, Alive

LEMMA KillFades ==
  ASSUME NEW s \in Servers, KillHard(s) PROVE Fades /\ ~Running(s)'
  BY DEF KillHard, Fades, Running, Servers, fusedVars, Kill, Alive

LEMMA StillFades ==
  ASSUME UNCHANGED <<fusedVars, t2m>>
  PROVE  Fades /\ \A s \in Servers : Running(s)' = Running(s)
  BY DEF Fades, Running, Alive, fusedVars

\* A step of something else than the script.
LEMMA OtherStep ==
  ASSUME LInv, Fades, UNCHANGED <<at, ret, known, down, came, crashed>>,
         files' \subseteq files
  PROVE  LInv'
  BY DEF LInv, Held, Cleaned, Empty, Resumed, Fades, Servers

\* exit.
LEMMA ExitStep ==
  ASSUME LInv, Exit, External, at \in Later \cup {"preflight"}
  PROVE  LInv'
<1>1. Fades
  BY StillFades DEF External
<1> QED BY <1>1
  DEF LInv, Held, Cleaned, Empty, Resumed, Fades, Servers, Exit, CleanUpThen, Later, Cleaning

\* What the step of the script that continues at a later command needs.
LEMMA GoStep ==
  ASSUME LInv, External, NEW l, Goto(l), at \in Path, l \in Path,
         at \notin {"pidFused", "pidT2M"},
         l \notin {"pidFused", "pidT2M"},
         down /\ came # "blind" /\ crashed = "no" => l \in Later
  PROVE  LInv'
<1>1. Fades
  BY StillFades DEF External
<1> QED BY <1>1
  DEF LInv, Held, Cleaned, Empty, Resumed, Fades, Servers, Goto, Path, Cleaning

LEMMA LaunchStep == LInv /\ Launch => LInv'
<1> SUFFICES ASSUME LInv, Launch PROVE LInv'
  OBVIOUS
\* After a cleanup that knew every server nothing is forked any more.
<1>0. ASSUME crashed = "no", came # "blind", down, at \in Path
      PROVE  Resumed(at) /\ \A s \in Servers : ~Running(s)
  BY <1>0 DEF LInv, Empty, Path, Cleaning
<1>1. CASE Preflight
  <2>1. CASE Exit
    BY <1>1, <2>1, ExitStep DEF Preflight
  <2>2. CASE Goto("forkFused")
    <3>1. down => came = "blind" \/ crashed # "no"
      BY <1>0, <1>1 DEF Preflight, Resumed, Later, Path
    <3> QED BY <1>1, <2>2, <3>1, GoStep DEF Preflight, Path
  <2> QED BY <1>1, <2>1, <2>2 DEF Preflight
<1>2. CASE ForkFused
  <2>1. down => came = "blind" \/ crashed # "no"
    BY <1>0, <1>2 DEF ForkFused, Resumed, Later, Path
  <2>2. Running("t2m")' => Running("t2m")
    BY <1>2 DEF ForkFused, Running
  <2> QED BY <1>2, <2>1, <2>2
    DEF ForkFused, Goto, LInv, Held, Cleaned, Empty, Servers, Cleaning
<1>3. CASE ForkT2M
  <2>1. down => came = "blind" \/ crashed # "no"
    BY <1>0, <1>3 DEF ForkT2M, Resumed, Later, Path
  <2>2. Running("fused")' => Running("fused")
    BY <1>3 DEF ForkT2M, Running, Alive, fusedVars
  <2> QED BY <1>3, <2>1, <2>2
    DEF ForkT2M, Goto, LInv, Held, Cleaned, Empty, Servers, Cleaning
<1>4. ASSUME NEW s \in Servers, NEW here, NEW there, Pid(s, here, there),
             \/ s = "fused" /\ here = "pidFused" /\ there = "fileFused"
             \/ s = "t2m" /\ here = "pidT2M" /\ there = "fileT2M"
      PROVE  LInv'
  <2>1. down => came = "blind" \/ crashed # "no"
    BY <1>0, <1>4 DEF Pid, Resumed, Later, Path
  <2>2. Fades
    BY <1>4, StillFades DEF Pid, External
  <2> QED BY <1>4, <2>1, <2>2
    DEF Pid, LInv, Held, Cleaned, Empty, Fades, Servers, Cleaning
<1>5. ASSUME NEW s \in Servers, NEW here, NEW there, File(s, here, there),
             \/ here = "fileFused" /\ there = "waitFused"
             \/ here = "fileT2M" /\ there = "waitT2M"
      PROVE  LInv'
  <2>1. down => came \in {"blind", "stale"} \/ crashed # "no"
    BY <1>0, <1>5 DEF File, Resumed, Later, Path
  <2>2. Fades
    BY <1>5, StillFades DEF File, External
  <2> QED BY <1>5, <2>1, <2>2
    DEF File, LInv, Held, Cleaned, Empty, Resumed, Later, Fades, Servers, Cleaning
<1>6. ASSUME NEW p, NEW here, NEW there, Wait(p, here, there),
             \/ here = "waitFused" /\ there = "checkFused"
             \/ here = "waitT2M" /\ there = "checkT2M"
      PROVE  LInv'
  <2>1. CASE Exit
    BY <1>6, <2>1, ExitStep DEF Wait, Later
  <2>2. CASE Goto(there)
    BY <1>6, <2>2, GoStep DEF Wait, Path, Later
  <2> QED BY <1>6, <2>1, <2>2 DEF Wait
<1>7. ASSUME NEW s \in Servers, NEW here, NEW there, Check(s, here, there),
             \/ here = "checkFused" /\ there = "forkT2M"
             \/ here = "checkT2M" /\ there = "monitor"
      PROVE  LInv'
  <2>1. CASE Exit
    BY <1>7, <2>1, ExitStep DEF Check, Later
  <2>2. CASE Running(s) /\ Goto(there)
    <3>1. down => came = "blind" \/ crashed # "no"
      BY <1>0, <1>7, <2>2 DEF Check, Path
    <3> QED BY <1>7, <2>2, <3>1, GoStep DEF Check, Path
  <2> QED BY <1>7, <2>1, <2>2 DEF Check
<1>8. CASE Monitor
  BY <1>8, ExitStep DEF Monitor, Later
<1> QED BY <1>1, <1>2, <1>3, <1>4, <1>5, <1>6, <1>7, <1>8 DEF Launch, Servers

LEMMA CleanUpStep == LInv /\ CleanUp => LInv'
<1> SUFFICES ASSUME LInv, CleanUp PROVE LInv'
  OBVIOUS
<1> USE DEF LInv, Held, Cleaned, Empty, Resumed, Servers, Cleaning, Goto
<1>1. ASSUME NEW s \in Servers, NEW here, NEW there, CleanTerm(s, here, there),
             \/ here = "termT2M" /\ there = "termFused"
             \/ here = "termFused" /\ there = "grace"
      PROVE  LInv'
  <2>1. Fades
    BY <1>1, TermFades, StillFades DEF CleanTerm
  <2> QED BY <1>1, <2>1 DEF CleanTerm, Fades
<1>2. CASE Grace
  <2>1. Fades
    BY <1>2, StillFades DEF Grace, External
  <2> QED BY <1>2, <2>1 DEF Grace, Fades
<1>3. CASE CleanKill("t2m", "killT2M", "killFused")
  <2>1. Fades /\ ("t2m" \in known => ~Running("t2m")')
    BY <1>3, KillFades, StillFades DEF CleanKill
  <2> QED BY <1>3, <2>1 DEF CleanKill, Fades
<1>4. CASE CleanKill("fused", "killFused", "remove")
  <2>1. Fades /\ ("fused" \in known => ~Running("fused")')
    BY <1>4, KillFades, StillFades DEF CleanKill
  <2> QED BY <1>4, <2>1 DEF CleanKill, Fades
<1>5. CASE Remove
  <2>1. Fades
    BY <1>5, StillFades DEF Remove, External
  <2> QED BY <1>5, <2>1 DEF Remove, Fades, Later
<1> QED BY <1>1, <1>2, <1>3, <1>4, <1>5 DEF CleanUp

LEMMA InterruptStep ==
  ASSUME LInv, NEW g \in Signals, Interrupt(g) PROVE LInv'
<1>1. Fades
  BY FusedFades DEF Interrupt, Fades, Running, Servers, fusedVars
<1> QED BY <1>1
  DEF Interrupt, CleanUpThen, Moment, LInv, Held, Cleaned, Empty, Resumed, Fades, Servers,
      Later, Path, Cleaning

LEMMA CrashStep == LInv /\ Crash => LInv'
  BY DEF LInv, Crash, Cleaning

LEMMA AloneStep ==
  ASSUME LInv, FusedRuns \/ T2MListens \/ T2MFails \/ Foreign \/ StopStarts
                 \/ (\E g \in Signals : ByHand(g)) \/ UNCHANGED vars
  PROVE  LInv'
<1>1. UNCHANGED launchVars
  BY DEF FusedRuns, T2MListens, T2MFails, Foreign, StopStarts, ByHand, vars
<1>2. Fades
  BY FusedFades
  DEF FusedRuns, T2MListens, T2MFails, Foreign, StopStarts, ByHand, vars, Fades, Running, Servers
<1> QED BY <1>1, <1>2, OtherStep DEF launchVars

LEMMA StopperStep == LInv /\ (StopLook \/ StopWait) => LInv'
<1> SUFFICES ASSUME LInv, StopLook \/ StopWait PROVE LInv'
  OBVIOUS
<1>1. UNCHANGED <<at, ret, known, down, came, crashed>> /\ files' \subseteq files
  BY DEF StopLook, StopWait, NextTarget, launchVars
<1>2. Fades
  <2>1. ASSUME NEW p, ForeignLeaves(p), UNCHANGED t2m PROVE Fades
    BY <2>1 DEF ForeignLeaves, Fades, Running, Alive
  <2>2. CASE StopLook
    <3>1. Found \subseteq Servers \cup {"foreign"}
      BY DEF Found, ByFile
    <3> QED BY <2>1, <2>2, <3>1, TermFades, StillFades DEF StopLook
  <2>3. CASE StopWait /\ stopper.whom = "foreign"
    BY <2>3, StillFades DEF StopWait
  <2>4. CASE StopWait /\ stopper.whom # "foreign"
    <3>1. ASSUME stopper.whom \in Servers PROVE Fades
      BY <2>4, <3>1, KillFades DEF StopWait
    <3>2. ASSUME stopper.whom # "fused" PROVE Alive' => Alive
      BY <2>4, <3>2 DEF StopWait, KillHard, fusedVars, Alive
    <3>3. ASSUME stopper.whom # "fused" PROVE Running("t2m")' => Running("t2m")
      BY <2>4, <3>3 DEF StopWait, KillHard, Running
    <3> QED BY <3>1, <3>2, <3>3 DEF Fades, Running, Servers
  <2> QED BY <2>2, <2>3, <2>4
<1> QED BY <1>1, <1>2, OtherStep

\* The launcher leaves no server and no pid file behind, for any set of signals
\* it may get, any stop script beside it and any failure of a server.
THEOREM AlwaysLeavesNothing == Spec => []LeavesNothing
<1>1. LInv /\ [Next]_vars => LInv'
  BY LaunchStep, CleanUpStep, InterruptStep, CrashStep, AloneStep, StopperStep DEF Next
<1>2. LInv => LeavesNothing
  BY DEF LInv, Empty, LeavesNothing, Cleaning
<1> QED BY InvInit, <1>1, <1>2, PTL DEF Spec
=============================================================================
