---------------------------- MODULE StreamEngine ----------------------------
(***************************************************************************)
(* class StreamEngine of index.html: the buffer of frames the avatar plays *)
(* and the operations on it, as operators from an engine to an engine.     *)
(*                                                                         *)
(* An engine is a record                                                   *)
(*   buffer   frames, played from cursor on; position 0 is buffer[1]       *)
(*   cursor   position of the frame on screen                              *)
(*   held     tags that listeners wait for                                 *)
(*   acc      time not played yet, in units of 1 / (Sub * fps) seconds     *)
(*   emitted  tag and source of the last segmentStart, or NoneEmitted      *)
(*   config   n lookaheadFrames, m transitionFrames, d scheduleDelayFrames *)
(*                                                                         *)
(* A frame is known by its segment's tag, its source, the clip it samples  *)
(* and its index `at' in the segment; the pose itself is left out.  Tags   *)
(* are only ever compared for equality, so that clipTagCounter, which is   *)
(* incremented for every segment, becomes the least tag nobody knows: not  *)
(* in the buffer, not announced last, and not waited for.                  *)
(***************************************************************************)
EXTENDS Integers, Sequences, FiniteSets

CONSTANTS
  Clips, Idle,   \* clips to schedule, and the idle clip of the engine
  ClipLen,       \* frames of each clip at fps
  HistoryMax,    \* 60: when the cursor passes it the past is dropped,
  HistoryKeep,   \* 30: but for this many frames
  StepsMax,      \* 4 frames played by one tick at most
  BacklogMax,    \* 6 frames of time owed at most
  TopUpGuard,    \* 32 idle segments appended by one top-up at most
  Sub,           \* clock units per frame
  NaN            \* parseInt of an input field that is empty

ASSUME ClipAssumption ==
  /\ Idle \notin Clips
  /\ ClipLen \in [Clips \cup {Idle} -> Nat \ {0}]
ASSUME LimitAssumption ==
  /\ HistoryMax \in Nat /\ HistoryKeep \in 0 .. HistoryMax
  /\ {StepsMax, BacklogMax, TopUpGuard, Sub} \subseteq Nat \ {0}
ASSUME NaNAssumption == NaN \notin Int

Source == {"idle", "transition", "action"}

Frame == [src : Source, tag : Nat \ {0}, clip : Clips \cup {Idle}, at : Nat]

Sig(frame) == [tag |-> frame.tag, src |-> frame.src]

NoneEmitted == [tag |-> 0, src |-> "none"]

\* JavaScript's a < b where either may be NaN.
Less(a, b) == a # NaN /\ b # NaN /\ a < b

Larger(a, b) == IF a < b THEN b ELSE a

Lookahead(e) == Len(e.buffer) - e.cursor

\* e.buffer[e.cursor] is defined.
HasCurrent(e) == e.cursor < Len(e.buffer)

Current(e) == e.buffer[e.cursor + 1]

\* The tags of the next segments (clipTagCounter + 1, + 2, ...): the n-th
\* unknown one.
KnownTags(e) ==
  {e.buffer[k].tag : k \in 1 .. Len(e.buffer)} \cup {e.emitted.tag} \cup e.held

NextTag(e, n) ==
  LET known == KnownTags(e)
  IN  CHOOSE t \in 1 .. Cardinality(known) + n :
        t \notin known /\ Cardinality(1 .. t \ known) = n

-----------------------------------------------------------------------------
(* Idle segments *)

\* The frames of `times' idle segments appended one after the other: only the
\* first is blended in, and only behind something else than idle; a segment
\* no longer than its transition makes the next one blend again.
IdleFrames(e, times, joins) ==
  LET len == ClipLen[Idle]
      blends(n) == ~joins /\ (n = 0 \/ ~Less(e.config.m, len))
  IN  [k \in 1 .. times * len |->
         LET n  == (k - 1) \div len
             at == (k - 1) % len
         IN  [src |-> IF blends(n) /\ Less(at, e.config.m) THEN "transition" ELSE "idle",
              tag |-> NextTag(e, n + 1), clip |-> Idle, at |-> at]]

\* Mutant of AppendIdle: no transition after an action.
AppendIdlePlain(e, times) ==
  [e EXCEPT !.buffer = @ \o IdleFrames(e, times, TRUE)]

\* _appendIdleSegment, `times' times.
AppendIdle(e, times) ==
  LET joins == e.buffer = <<>> \/ e.buffer[Len(e.buffer)].src = "idle"
  IN  [e EXCEPT !.buffer = @ \o IdleFrames(e, times, joins)]

\* How often a loop appends while the lookahead is short of `frames'.
Missing(e, frames) ==
  IF Less(Lookahead(e), frames)
  THEN (frames - Lookahead(e) + ClipLen[Idle] - 1) \div ClipLen[Idle]
  ELSE 0

\* Mutant of TopUp: one segment at a time.
TopUpOnce(e) ==
  AppendIdle(e, IF Less(Lookahead(e), e.config.n) THEN 1 ELSE 0)

\* _topUp
TopUp(e) ==
  LET times == Missing(e, e.config.n)
  IN  AppendIdle(e, IF times < TopUpGuard THEN times ELSE TopUpGuard)

\* The loop at the head of schedule.
Fill(e, frames) == AppendIdle(e, Missing(e, frames))

-----------------------------------------------------------------------------
(* Playing *)

\* Mutants of Advance: the past is never dropped; the cursor is not moved back
\* with the dropped frames.
AdvanceKeepsPast(e) == [e EXCEPT !.cursor = @ + 1]

AdvanceKeepsCursor(e) ==
  LET c == e.cursor + 1
  IN  IF c <= HistoryMax THEN [e EXCEPT !.cursor = c]
      ELSE [e EXCEPT !.cursor = c,
                     !.buffer = SubSeq(@, c - HistoryKeep + 1, Len(@))]

\* _advance
Advance(e) ==
  LET c == e.cursor + 1
  IN  IF c <= HistoryMax THEN [e EXCEPT !.cursor = c]
      ELSE [e EXCEPT !.cursor = HistoryKeep,
                     !.buffer = SubSeq(@, c - HistoryKeep + 1, Len(@))]

\* Frames played by a tick that finds this much time owed.
Steps(owed) == IF owed \div Sub < StepsMax THEN owed \div Sub ELSE StepsMax

\* Mutants of Play: the backlog is not bounded; the buffer is topped up before
\* the cursor moves.
PlayUncapped(e, elapsed) ==
  LET owed == e.acc + elapsed
      after[k \in 0 .. Steps(owed)] ==
        IF k = 0 THEN e ELSE TopUp(Advance(after[k - 1]))
  IN  [after[Steps(owed)] EXCEPT !.acc = owed - Steps(owed) * Sub]

PlayTopUpFirst(e, elapsed) ==
  LET owed == IF e.acc + elapsed < BacklogMax * Sub THEN e.acc + elapsed
              ELSE BacklogMax * Sub
      after[k \in 0 .. Steps(owed)] ==
        IF k = 0 THEN e ELSE Advance(TopUp(after[k - 1]))
      played == [after[Steps(owed)] EXCEPT !.acc = owed - Steps(owed) * Sub]
  IN  IF Steps(owed) = 0 /\ e.buffer = <<>> THEN TopUp(played) ELSE played

\* tick without its events: play the frames that are due.
Play(e, elapsed) ==
  LET owed == IF e.acc + elapsed < BacklogMax * Sub THEN e.acc + elapsed
              ELSE BacklogMax * Sub
      after[k \in 0 .. Steps(owed)] ==
        IF k = 0 THEN e ELSE TopUp(Advance(after[k - 1]))
      played == [after[Steps(owed)] EXCEPT !.acc = owed - Steps(owed) * Sub]
  IN  IF Steps(owed) = 0 /\ e.buffer = <<>> THEN TopUp(played) ELSE played

-----------------------------------------------------------------------------
(* Scheduling *)

\* schedule returns, or throws on a NaN it meets: before it has changed any
\* frame with d = NaN, and with m = NaN when it sets the length of the buffer.
Accepts(e) == e.config.d # NaN /\ e.config.m # NaN

\* The clip as frames to play: padded to the m frames of its transition.
Action(clip, tag, m) ==
  [k \in 1 .. Larger(ClipLen[clip], m) |->
     [src |-> IF k <= m THEN "transition" ELSE "action",
      tag |-> tag, clip |-> clip, at |-> k - 1]]

\* Mutant of Schedule: the delay is ignored.
ScheduleNow(e, clip) ==
  LET m == e.config.m
      f == Fill(e, m + 1)
  IN  IF ~Accepts(e) THEN e
      ELSE [f EXCEPT !.buffer = SubSeq(@, 1, f.cursor) \o Action(clip, NextTag(f, 1), m)]

\* Mutant of Schedule: the rest of the old timeline is kept behind the clip.
ScheduleKeepsTail(e, clip) ==
  LET m     == e.config.m
      start == e.cursor + e.config.d
      f     == Fill(e, e.config.d + m + 1)
  IN  IF ~Accepts(e) THEN e
      ELSE [f EXCEPT !.buffer = SubSeq(@, 1, start) \o Action(clip, NextTag(f, 1), m)
                                  \o SubSeq(@, start + m + 1, Len(@))]

\* From d frames ahead of the cursor on, the timeline is replaced by m frames
\* of transition and the rest of the clip.
Schedule(e, clip) ==
  LET m     == e.config.m
      start == e.cursor + e.config.d
      f     == Fill(e, e.config.d + m + 1)
  IN  IF ~Accepts(e) THEN e
      ELSE [f EXCEPT !.buffer = SubSeq(@, 1, start) \o Action(clip, NextTag(f, 1), m)]

\* The tag schedule returned: the clip it placed is the last of the buffer.
ScheduledTag(e) == e.buffer[Len(e.buffer)].tag

-----------------------------------------------------------------------------

Blank(config) ==
  [buffer |-> <<>>, cursor |-> 0, acc |-> 0, held |-> {},
   emitted |-> NoneEmitted, config |-> config]

\* reset: what is owed to the clock stays owed.
ResetEngine(e) == TopUp([Blank(e.config) EXCEPT !.acc = e.acc])

\* A new engine and its first tick(0), which announces the idle segment.
Started(config) ==
  LET e == Play(Blank(config), 0)
  IN  IF HasCurrent(e) THEN [e EXCEPT !.emitted = Sig(Current(e))] ELSE e
=============================================================================
