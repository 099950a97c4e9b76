---------------------------- MODULE MCStreamPage ----------------------------
(* Small instances of StreamPage: the frame counts of index.html divided by
   about fifteen, one clip shorter than the transition. *)
EXTENDS StreamPage

MCClips == {"walk", "nod"}
MCClipLen == [c \in MCClips \cup {"idle"} |->
                CASE c = "walk" -> 4 [] c = "nod" -> 1 [] OTHER -> 2]
Config(n, m, d) == [n |-> n, m |-> m, d |-> d]
MCConfigs == {Config(3, 2, 1)}
MCChanging == {Config(3, 2, 1), Config(4, 1, 2), Config(1, 3, 1)}
MCEmptied == {Config(3, 1, 1), Config(NaN, 1, 1), Config(3, NaN, 1), Config(3, 1, NaN)}
MCFiles == {<<"walk", "nod">>}
MCLong == {<<"walk", "walk">>}
MCRunning == {1, 3}
=============================================================================
