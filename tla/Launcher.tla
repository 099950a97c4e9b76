------------------------------ MODULE Launcher ------------------------------
(***************************************************************************)
(* scripts/start_servers.sh and scripts/stop_servers.sh around the two     *)
(* servers they start and stop.                                            *)
(*                                                                         *)
(* The launcher is one bash process.  A trapped signal runs cleanup        *)
(* between two of its commands and the script then goes on where it was;   *)
(* exit runs cleanup as well, which does its work once.  stop_servers may  *)
(* be started at any time, also while the launcher still runs, and the     *)
(* launcher may be killed by a signal no trap sees.  t2m_infer has no      *)
(* handler of its own: a TERM ends it, and it ignores the terminal's INT   *)
(* as every background job of a script does.                               *)
(*                                                                         *)
(* One generation of servers, so a pid names one process.                  *)
(***************************************************************************)
EXTENDS FusedServer, Sequences

CONSTANTS
  Interrupts,     \* signals the launcher may get, and where: <<signal, command>>
  HandSignals,    \* signals a user may send to fused_server while all run
  CrashAt,        \* where the launcher may be killed outright
  StopAt          \* where stop_servers may be started

VARIABLES
  t2m,      \* the t2m_infer process
  at,       \* the command the launcher is about to run
  ret,      \* where it goes on after cleanup
  known,    \* servers whose pid it holds (FUSED_PID, T2M_PID)
  files,    \* servers that have a pid file
  down,     \* SHUTTING_DOWN
  came,     \* whether an interrupt came, and at what moment (history)
  crashed,  \* the launcher was killed, alone or beside stop_servers (history)
  stopper   \* stop_servers: the target it looks for, whom it stops, and the
            \* servers it could see when it was started (there, history)

launchVars == <<at, ret, known, files, down, came, crashed>>
vars == <<fusedVars, t2m, launchVars, stopper>>

Servers == {"fused", "t2m"}
Path == {"preflight", "forkFused", "pidFused", "fileFused", "waitFused", "checkFused",
         "forkT2M", "pidT2M", "fileT2M", "waitT2M", "checkT2M", "monitor"}
Cleaning == {"termT2M", "termFused", "grace", "killT2M", "killFused", "remove"}

\* What stop_servers goes through: two pid files, then three ports.
Targets == <<"fused", "t2m", "hidden", "simpletool", "t2mPort">>
NotStarted == 0
Done == Len(Targets) + 1

Running(s) == IF s = "fused" THEN Alive ELSE t2m \in {"loading", "listening"}
Answers(s) == IF s = "fused" THEN \E p \in Ports : Listens(p) ELSE t2m = "listening"
PortOpen(p) ==
  \/ p \in foreign
  \/ p \in Ports /\ Listens(p)
  \/ p = "t2mPort" /\ t2m = "listening"

-----------------------------------------------------------------------------
(* Signals to a server *)

Term(s) ==
  IF s = "fused" THEN Raise("TERM") /\ UNCHANGED t2m
  ELSE /\ t2m' = IF Running("t2m") THEN "dead" ELSE t2m
       /\ UNCHANGED fusedVars

KillHard(s) ==
  IF s = "fused" THEN Kill /\ UNCHANGED t2m
  ELSE /\ t2m' = IF Running("t2m") THEN "dead" ELSE t2m
       /\ UNCHANGED fusedVars

-----------------------------------------------------------------------------
(* t2m_infer *)

T2MListens ==
  /\ t2m = "loading"
  /\ t2m' = IF "t2mPort" \in foreign THEN "dead" ELSE "listening"
  /\ UNCHANGED <<fusedVars, launchVars, stopper>>

\* A model that is missing, or a run that fails outright.
T2MFails ==
  /\ Running("t2m") /\ t2m' = "dead"
  /\ UNCHANGED <<fusedVars, launchVars, stopper>>

-----------------------------------------------------------------------------
(* start_servers.sh *)

Goto(l) == at' = l /\ UNCHANGED <<ret, known, files, down, came, crashed>>

\* The function cleanup, then on to l.
CleanUpThen(l) ==
  IF down THEN at' = l /\ UNCHANGED <<ret, down>>
  ELSE at' = "termT2M" /\ ret' = l /\ down' = TRUE

\* exit: the EXIT trap runs cleanup.
Exit == CleanUpThen("gone") /\ UNCHANGED <<known, files, came, crashed>>

External == UNCHANGED <<fusedVars, t2m, stopper>>

Preflight ==
  /\ at = "preflight"
  /\ IF \E p \in Ports \cup {"t2mPort"} : PortOpen(p) THEN Exit ELSE Goto("forkFused")
  /\ External

ForkFused == at = "forkFused" /\ Exec /\ Goto("pidFused") /\ UNCHANGED <<t2m, stopper>>

ForkT2M ==
  /\ at = "forkT2M" /\ t2m' = "loading" /\ Goto("pidT2M")
  /\ UNCHANGED <<fusedVars, stopper>>

\* FUSED_PID=$!
Pid(s, here, there) ==
  /\ at = here /\ at' = there /\ known' = known \cup {s}
  /\ UNCHANGED <<ret, files, down, came, crashed>> /\ External

\* echo "$FUSED_PID" > "$LOG_DIR/fused_server.pid"
File(s, here, there) ==
  /\ at = here /\ at' = there /\ files' = files \cup {s}
  /\ UNCHANGED <<ret, known, down, came, crashed>> /\ External

\* wait_for_port: a listener answers, or the time is up.
Wait(p, here, there) ==
  /\ at = here
  /\ IF PortOpen(p) THEN Goto(there) ELSE Exit
  /\ External

\* Mutant of Check: the port that answers is taken for the server's.
TrustThePort(s, here, there) ==
  /\ at = here /\ Goto(there) /\ External

\* kill -0
Check(s, here, there) ==
  /\ at = here
  /\ IF Running(s) THEN Goto(there) ELSE Exit
  /\ External

\* monitor_loop: a server it knows of is dead.
Monitor ==
  /\ at = "monitor" /\ \E s \in known : ~Running(s)
  /\ Exit /\ External

CleanTerm(s, here, there) ==
  /\ at = here /\ Goto(there)
  /\ IF s \in known /\ Running(s) THEN Term(s) ELSE UNCHANGED <<fusedVars, t2m>>
  /\ UNCHANGED stopper

\* Three seconds, or less when all are gone.
Grace == at = "grace" /\ Goto("killT2M") /\ External

\* Mutant of CleanKill: t2m_infer only.
CleanKillT2M(s, here, there) ==
  /\ at = here /\ Goto(there)
  /\ IF s = "t2m" /\ s \in known THEN KillHard(s) ELSE UNCHANGED <<fusedVars, t2m>>
  /\ UNCHANGED stopper

CleanKill(s, here, there) ==
  /\ at = here /\ Goto(there)
  /\ IF s \in known THEN KillHard(s) ELSE UNCHANGED <<fusedVars, t2m>>
  /\ UNCHANGED stopper

\* The pid files go, and the script goes on where cleanup was called.
Remove ==
  /\ at = "remove" /\ at' = ret /\ ret' = "gone" /\ files' = {}
  /\ UNCHANGED <<known, down, came, crashed>> /\ External

\* The script is blind where a server is still to be forked, or is and its pid
\* not yet assigned: cleanup then knows nothing of it, and the script, which
\* cleans up once, goes on and starts or keeps it.  Where the pid file is about
\* to be written, it is written after cleanup removed it.
Moment(l) ==
  IF l \in {"preflight", "forkFused", "pidFused", "forkT2M", "pidT2M"} THEN "blind"
  ELSE IF l \in {"fileFused", "fileT2M"} THEN "stale" ELSE "seen"

\* A signal between two commands: the trap runs cleanup and the script goes on.
\* Ctrl-C reaches the servers of the terminal too.  Bound: one interrupt (the trap
\* returns at once for a second one), and not beside stop_servers.
Interrupt(g) ==
  /\ at \in Path /\ <<g, at>> \in Interrupts
  /\ came = "no" /\ stopper.at = NotStarted
  /\ CleanUpThen(at)
  /\ came' = Moment(at)
  /\ IF g = "INT" THEN Raise("INT") ELSE UNCHANGED fusedVars
  /\ UNCHANGED <<known, files, crashed, t2m, stopper>>

\* kill -9, or the end of the machine's session without a trap.
Crash ==
  /\ at \in CrashAt /\ at' = "gone"
  /\ crashed' = IF stopper.at = NotStarted THEN "alone" ELSE "beside"
  /\ UNCHANGED <<ret, known, files, down, came>> /\ External

Launch ==
  \/ Preflight
  \/ ForkFused \/ Pid("fused", "pidFused", "fileFused") \/ File("fused", "fileFused", "waitFused")
  \/ Wait("hidden", "waitFused", "checkFused") \/ Check("fused", "checkFused", "forkT2M")
  \/ ForkT2M \/ Pid("t2m", "pidT2M", "fileT2M") \/ File("t2m", "fileT2M", "waitT2M")
  \/ Wait("t2mPort", "waitT2M", "checkT2M") \/ Check("t2m", "checkT2M", "monitor")
  \/ Monitor

CleanUp ==
  \/ CleanTerm("t2m", "termT2M", "termFused") \/ CleanTerm("fused", "termFused", "grace")
  \/ Grace
  \/ CleanKill("t2m", "killT2M", "killFused") \/ CleanKill("fused", "killFused", "remove")
  \/ Remove

-----------------------------------------------------------------------------
(* stop_servers.sh *)

Target == Targets[stopper.at]
ByFile == Target \in Servers

\* Who a target is: the process named in the file, or the one on the port.
Found ==
  IF ByFile THEN IF Target \in files THEN {Target} ELSE {}
  ELSE {s \in Servers : IF s = "fused" THEN Target \in Ports /\ Listens(Target)
                        ELSE Target = "t2mPort" /\ t2m = "listening"}
         \cup (IF Target \in foreign THEN {"foreign"} ELSE {})

\* Mutant of NextTarget: a target that is gone takes the next one with it.
SkipTarget ==
  /\ stopper' = [stopper EXCEPT !.at = @ + (IF Found = {} THEN 2 ELSE 1), !.whom = "nobody"]
  /\ files' = IF ByFile THEN files \ {Target} ELSE files
  /\ UNCHANGED <<at, ret, known, down, came, crashed>>

\* The next target, and the pid file of this one is removed.
NextTarget ==
  /\ stopper' = [stopper EXCEPT !.at = @ + 1, !.whom = "nobody"]
  /\ files' = IF ByFile THEN files \ {Target} ELSE files
  /\ UNCHANGED <<at, ret, known, down, came, crashed>>

\* The servers that run and have a pid file or a port that answers.
InSight == {s \in Servers : Running(s) /\ (s \in files \/ Answers(s))}

StopStarts ==
  /\ stopper.at = NotStarted /\ at \in StopAt /\ came = "no"
  /\ stopper' = [at |-> 1, whom |-> "nobody", there |-> InSight]
  /\ UNCHANGED <<fusedVars, t2m, launchVars>>

\* kill_pid: a process that is there gets a TERM.
StopLook ==
  /\ stopper.at \in 1 .. Len(Targets) /\ stopper.whom = "nobody"
  /\ LET found == {s \in Found : s = "foreign" \/ Running(s)}
     IN  IF found = {} THEN NextTarget /\ UNCHANGED <<fusedVars, t2m>>
         ELSE \E s \in found :
                /\ stopper' = [stopper EXCEPT !.whom = s]
                /\ IF s = "foreign"
                   THEN ForeignLeaves(Target) /\ UNCHANGED t2m
                   ELSE Term(s)
                /\ UNCHANGED launchVars

\* Mutant of StopWait: no kill after the three seconds.
StopWaitTermOnly ==
  /\ stopper.at \in 1 .. Len(Targets) /\ stopper.whom # "nobody"
  /\ NextTarget
  /\ UNCHANGED <<fusedVars, t2m>>

\* It is gone, or it is killed after three seconds.
StopWait ==
  /\ stopper.at \in 1 .. Len(Targets) /\ stopper.whom # "nobody"
  /\ NextTarget
  /\ IF stopper.whom = "foreign" THEN UNCHANGED <<fusedVars, t2m>> ELSE KillHard(stopper.whom)

-----------------------------------------------------------------------------

Init ==
  /\ FusedInit /\ t2m = "off"
  /\ at = "preflight" /\ ret = "gone" /\ known = {} /\ files = {} /\ down = FALSE
  /\ came = "no" /\ crashed = "no"
  /\ stopper = [at |-> NotStarted, whom |-> "nobody", there |-> {}]

\* kill, at another terminal.
ByHand(g) ==
  /\ g \in HandSignals /\ at = "monitor" /\ came = "no" /\ stopper.at = NotStarted
  /\ Raise(g)
  /\ UNCHANGED <<t2m, launchVars, stopper>>

FusedRuns == Runs /\ UNCHANGED <<t2m, launchVars, stopper>>

\* Bound: only while the launcher waits for the first port, before stop_servers.
Foreign ==
  /\ at = "waitFused" /\ stopper.at = NotStarted
  /\ \E p \in ForeignPorts : ForeignTakes(p) /\ (p = "t2mPort" => t2m # "listening")
  /\ UNCHANGED <<t2m, launchVars, stopper>>

Next ==
  \/ Launch \/ CleanUp \/ Crash
  \/ \E g \in Signals : Interrupt(g) \/ ByHand(g)
  \/ FusedRuns \/ T2MListens \/ T2MFails \/ Foreign
  \/ StopStarts \/ StopLook \/ StopWait

\* Programs run; signals, faults, clients and the other program need not come.
Spec ==
  /\ Init /\ [][Next]_vars
  /\ WF_vars(Launch \/ CleanUp)
  /\ WF_vars(StopLook \/ StopWait)
  /\ WF_vars(T2MListens)
  /\ WF_vars(MainStep /\ UNCHANGED <<t2m, launchVars, stopper>>)
  /\ \A p \in Ports : WF_vars(ThreadStep(p) /\ UNCHANGED <<t2m, launchVars, stopper>>)
  /\ \A g \in Signals : WF_vars(HandlerStep(g) /\ UNCHANGED <<t2m, launchVars, stopper>>)

-----------------------------------------------------------------------------
(* Properties *)

TypeOK ==
  /\ FusedTypeOK
  /\ t2m \in {"off", "loading", "listening", "dead"}
  /\ at \in Path \cup Cleaning \cup {"gone"} /\ ret \in Path \cup {"gone"}
  /\ known \in SUBSET Servers /\ files \in SUBSET Servers
  /\ down \in BOOLEAN /\ crashed \in {"no", "alone", "beside"} /\ came \in {"no", "seen", "stale", "blind"}
  /\ stopper \in [at : NotStarted .. Done, whom : Servers \cup {"nobody", "foreign"},
                 there : SUBSET Servers]

\* A launcher that ends leaves no server and no pid file behind, however it came
\* to end: a failed start, a server that died, a signal at any moment but the
\* blind ones, or two, stop_servers at work beside it.
LeavesNothing ==
  at = "gone" /\ crashed = "no" =>
    /\ came # "blind" => \A s \in Servers : ~Running(s)
    /\ came \in {"no", "seen"} => files = {}

\* An interrupt outside the blind moments ends the launcher, whatever command it
\* came at: cleanup returns to the script, which must find out that what it
\* waits for or watches is gone.
InterruptEnds == came \in {"seen", "stale"} ~> at = "gone"

\* stop_servers stops every server that it could see when it was started, one
\* with a pid file or a port that answers, at whatever stage of their start the
\* servers are and whether or not a client holds them.  And when it could see
\* one, everything ends: the launcher beside it finds a server dead and takes
\* the rest down, unless it is killed itself.  A server that was forked but has
\* neither file nor port yet, or is forked later, is none of its business: the
\* launcher goes on with its start when stop_servers saw nothing.
StopScriptStops ==
  stopper.at = Done ~>
    /\ \A s \in stopper.there : ~Running(s)
    /\ stopper.there # {} /\ crashed = "no" => \A s \in Servers : ~Running(s)
=============================================================================
