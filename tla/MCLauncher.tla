----------------------------- MODULE MCLauncher -----------------------------
(* A small instance of Launcher: one TERM at any command, or a Ctrl-C while  *)
(* it watches its servers; stop_servers at two moments of the start and      *)
(* after the end; a kill -9 with and without a pid file.                     *)
EXTENDS Launcher

MCInterrupts == ({"TERM"} \X Path) \cup {<<"INT", "monitor">>}
MCCrashAt == {"pidFused", "waitFused", "pidT2M"}
MCStopAt == {"waitFused", "forkT2M", "gone"}
=============================================================================
