----------------------------- MODULE StreamPage -----------------------------
(***************************************************************************)
(* The page of index.html around its StreamEngine: the refresh callback,   *)
(* the buttons, clips dropped on the page or generated from a prompt, and  *)
(* the replacement of the model.                                           *)
(*                                                                         *)
(* JavaScript runs one callback at a time; an action is one callback.  The *)
(* drop handler is a loop with awaits, so it is a process: it loads a      *)
(* clip, schedules it, and waits for a segmentEnd event of the clip's tag  *)
(* before it goes on.  "0 then 1" leaves a listener that schedules the     *)
(* second clip inside the event itself.                                    *)
(***************************************************************************)
EXTENDS StreamEngine

CONSTANTS
  Configs,    \* what the three inputs of the page may hold
  Elapsed,    \* time between two refreshes, in clock units
  First, Second,  \* anim0 and anim1 of "0 then 1"
  Files,      \* sequences of clips that may be dropped on the page
  MaxSeq,     \* bound: listeners of "0 then 1" at a time
  MaxEpoch,   \* bound: resets
  UserActs    \* which of the user's actions an instance has

ASSUME ConfigAssumption ==
  Configs \subseteq [n : Nat \cup {NaN}, m : Nat \cup {NaN}, d : Nat \cup {NaN}]
ASSUME InputAssumption ==
  /\ Elapsed \subseteq Nat /\ {First, Second} \subseteq Clips
  /\ Files \subseteq Seq(Clips) \ {<<>>}

VARIABLES
  engine,   \* the engine the page refreshes
  seqs,     \* listeners of "0 then 1": the tag one waits for, and since when
  drop,     \* the drop handler: its stage, the clips to go, the tag awaited
  epoch     \* number of resets so far (history)

vars == <<engine, seqs, drop, epoch>>

DropStage == {"idle", "loading", "waiting"}

NoDrop == [stage |-> "idle", todo |-> <<>>, tag |-> 0]

\* The loop is done with its first clip.
NextFile(dr) ==
  [dr EXCEPT !.todo = Tail(@),
             !.stage = IF Len(dr.todo) = 1 THEN "idle" ELSE "loading"]

\* A listener is registered for the clip just scheduled.
Awaited(e) ==
  IF Accepts(e) THEN [e EXCEPT !.held = @ \cup {ScheduledTag(e)}] ELSE e

-----------------------------------------------------------------------------
(* The refresh callback *)

\* The listeners of segmentEnd that an ended segment wakes.
Wakes(ended, tag) == ended = [tag |-> tag, src |-> "action"]

\* and no longer holds its tag.
Released(held, ended) == held \ {t \in held : Wakes(ended, t)}

\* The second clip is scheduled once for every listener woken.
ScheduleSecond(e, times) ==
  LET after[k \in 0 .. times] ==
        IF k = 0 THEN e ELSE Schedule(after[k - 1], Second)
  IN  after[times]

\* Mutant of Announce: the source is not part of the comparison.
AnnounceByTag(e) ==
  IF ~HasCurrent(e) \/ Current(e).tag = e.emitted.tag
  THEN engine' = e /\ UNCHANGED <<seqs, drop>>
  ELSE LET woken == {l \in seqs : Wakes(e.emitted, l.tag)}
       IN  /\ engine' = [ScheduleSecond(e, Cardinality(woken)) EXCEPT
                           !.emitted = Sig(Current(e)), !.held = Released(@, e.emitted)]
           /\ seqs' = seqs \ woken
           /\ drop' = IF drop.stage = "waiting" /\ Wakes(e.emitted, drop.tag)
                      THEN NextFile(drop) ELSE drop

\* _emitSegmentEventsIfNeeded: the frame announced is the one read before the
\* listeners ran.
Announce(e) ==
  IF ~HasCurrent(e) \/ Sig(Current(e)) = e.emitted
  THEN engine' = e /\ UNCHANGED <<seqs, drop>>
  ELSE LET woken == {l \in seqs : Wakes(e.emitted, l.tag)}
       IN  /\ engine' = [ScheduleSecond(e, Cardinality(woken)) EXCEPT
                           !.emitted = Sig(Current(e)), !.held = Released(@, e.emitted)]
           /\ seqs' = seqs \ woken
           /\ drop' = IF drop.stage = "waiting" /\ Wakes(e.emitted, drop.tag)
                      THEN NextFile(drop) ELSE drop

\* rafTick: the inputs are read, then the engine ticks.
Refresh(config, elapsed) ==
  /\ Announce(Play([engine EXCEPT !.config = config], elapsed))
  /\ UNCHANGED epoch

\* The page becomes visible again: the time it was hidden is not owed.
Visible ==
  /\ engine' = [engine EXCEPT !.acc = 0]
  /\ UNCHANGED <<seqs, drop, epoch>>

-----------------------------------------------------------------------------
(* The user *)

\* A button, or a clip that came back for a prompt.
ScheduleAnim(clip) ==
  /\ "schedule" \in UserActs
  /\ engine' = Schedule(engine, clip)
  /\ UNCHANGED <<seqs, drop, epoch>>

\* "0 then 1": without a schedule there is no listener.
ScheduleSeq ==
  /\ "seq" \in UserActs /\ Cardinality(seqs) < MaxSeq
  /\ engine' = Awaited(Schedule(engine, First))
  /\ seqs' = IF Accepts(engine)
             THEN seqs \cup {[tag |-> ScheduledTag(engine'), epoch |-> epoch]} ELSE seqs
  /\ UNCHANGED <<drop, epoch>>

\* Listeners stay: the tags they wait for are counted anew.
ResetPos ==
  /\ "reset" \in UserActs /\ epoch < MaxEpoch
  /\ engine' = ResetEngine(engine)
  /\ epoch' = epoch + 1
  /\ UNCHANGED <<seqs, drop>>

\* replaceVRM: a new engine, without the listeners and the buffer of the old
\* one.  A drop handler that waits on the old engine waits forever.
ReplaceVRM(config) ==
  /\ "replace" \in UserActs
  /\ engine' = Started(config)
  /\ seqs' = {}
  /\ drop' = IF drop.stage = "waiting" THEN [drop EXCEPT !.tag = 0] ELSE drop
  /\ UNCHANGED epoch

DropFiles(files) ==
  /\ "drop" \in UserActs /\ drop.stage = "idle"
  /\ drop' = [drop EXCEPT !.stage = "loading", !.todo = files]
  /\ UNCHANGED <<engine, seqs, epoch>>

\* Mutant of DropLoaded: the handler goes on without waiting.
DropLoadedNoWait ==
  /\ drop.stage = "loading"
  /\ engine' = Schedule(engine, Head(drop.todo))
  /\ drop' = [NextFile(drop) EXCEPT !.tag = ScheduledTag(engine')]
  /\ UNCHANGED <<seqs, epoch>>

\* Mutant of DropLoaded: it waits for a clip that was not scheduled, too.
DropLoadedWaits ==
  /\ drop.stage = "loading"
  /\ engine' = Awaited(Schedule(engine, Head(drop.todo)))
  /\ drop' = [drop EXCEPT !.stage = "waiting", !.tag = ScheduledTag(engine')]
  /\ UNCHANGED <<seqs, epoch>>

\* The clip is loaded: it is scheduled and its end awaited, or schedule throws
\* and the handler goes on to the next file.
DropLoaded ==
  /\ drop.stage = "loading"
  /\ engine' = Awaited(Schedule(engine, Head(drop.todo)))
  /\ drop' = IF Accepts(engine)
             THEN [drop EXCEPT !.stage = "waiting", !.tag = ScheduledTag(engine')]
             ELSE [NextFile(drop) EXCEPT !.tag = 0]
  /\ UNCHANGED <<seqs, epoch>>

\* The file holds no animation.
DropFailed ==
  /\ drop.stage = "loading"
  /\ drop' = [NextFile(drop) EXCEPT !.tag = 0]
  /\ UNCHANGED <<engine, seqs, epoch>>

-----------------------------------------------------------------------------

Init ==
  /\ \E config \in Configs : engine = Started(config)
  /\ seqs = {} /\ drop = NoDrop /\ epoch = 0

Frames == \E config \in Configs, elapsed \in Elapsed : Refresh(config, elapsed)

Next ==
  \/ Frames
  \/ Visible
  \/ \E clip \in Clips : ScheduleAnim(clip)
  \/ ScheduleSeq
  \/ ResetPos
  \/ \E config \in Configs : ReplaceVRM(config)
  \/ \E files \in Files : DropFiles(files)
  \/ DropLoaded \/ DropFailed

Spec == Init /\ [][Next]_vars

\* The browser keeps refreshing a visible page (a refresh is always possible, so
\* that fairness says it happens again and again), and a dropped file is read.
FairSpec ==
  /\ Spec
  /\ []<><<Frames>>_vars
  /\ WF_vars(DropFailed \/ DropLoaded)

-----------------------------------------------------------------------------
(* Properties *)

\* Everything has its type.
TypeOK ==
  /\ engine.buffer \in Seq(Frame)
  /\ engine.cursor \in 0 .. HistoryMax
  /\ engine.held \in SUBSET Nat
  /\ engine.acc \in 0 .. BacklogMax * Sub
  /\ engine.emitted \in [tag : Nat, src : Source \cup {"none"}]
  /\ engine.config \in Configs
  /\ seqs \in SUBSET [tag : Nat, epoch : Nat]
  /\ drop \in [stage : DropStage, todo : Seq(Clips), tag : Nat]
  /\ epoch \in Nat

Buffer == engine.buffer

\* However clips were scheduled over each other, a segment in the buffer begins
\* at its first frame and goes on frame by frame, with one run per tag: what a
\* later clip cuts off is its end only, and the dropped past the buffer's start.
SegmentsWhole ==
  \A j, k \in 1 .. Len(Buffer) :
    /\ Buffer[j].tag = Buffer[k].tag =>
         /\ Buffer[k].at - Buffer[j].at = k - j
         /\ Buffer[k].clip = Buffer[j].clip
    /\ k = j + 1 /\ Buffer[j].tag # Buffer[k].tag => Buffer[k].at = 0

\* Idle joins idle directly and everything else is blended in (the comment at
\* index.html:443), for a transition of at least one frame.
BlendExactlyAtSwitches ==
  \A k \in 2 .. Len(Buffer) :
    Buffer[k - 1].tag # Buffer[k].tag =>
      (Buffer[k].src = "idle" <=> Buffer[k - 1].src = "idle" /\ Buffer[k].clip = Idle)

\* There is a frame to show: the top-up of every played frame outruns the
\* cursor, and no schedule leaves the buffer shorter than the cursor.
AlwaysAFrame == HasCurrent(engine)

\* The buffer is bounded by what is kept of the past and the longest timeline
\* one top-up or one schedule leaves ahead.
LongestAhead ==
  {0} \cup {c.n - 1 + ClipLen[Idle] : c \in {x \in Configs : x.n # NaN}}
    \cup {c.d + Larger(ClipLen[clip], c.m) :
             c \in {x \in Configs : x.d # NaN /\ x.m # NaN}, clip \in Clips}

BufferBounded == \E n \in LongestAhead : Len(Buffer) <= HistoryMax + n

\* With a delay of at least one frame, the last segment announced is the one on
\* screen, between refreshes as well as after the listeners of the event have
\* rescheduled the timeline.
AnnouncedIsShown ==
  engine.emitted # NoneEmitted => engine.emitted = Sig(Current(engine))

\* What is on screen moves along its segment, by no more frames than one tick
\* plays, or to the first frames of another one; unless the engine restarts.
SmoothPlayback ==
  [][LET x == Current(engine)
         y == Current(engine')
     IN  \/ engine'.cursor = 0
         \/ x.tag = y.tag /\ x.at <= y.at /\ y.at <= x.at + StepsMax
         \/ x.tag # y.tag /\ y.at < StepsMax]_vars

\* The frames a schedule must not touch, shown as protected on the timeline, are
\* not touched, however short of frames the timeline is: only a refresh or a
\* restart changes the next d frames, and a schedule that throws changes none.
ProtectedFrames ==
  [][\/ Frames \/ epoch' # epoch \/ \E config \in Configs : ReplaceVRM(config)
     \/ \A k \in 1 .. Len(Buffer) :
          (Accepts(engine) => k <= engine.cursor + engine.config.d) =>
            k <= Len(engine'.buffer) /\ engine'.buffer[k] = Buffer[k]]_vars

\* The drop handler goes on to the next file only when no frame under the tag it
\* waits for is still to be shown as action: of the clip it scheduled, or, when
\* the tags were restarted meanwhile, of the clip that got its tag anew.
DropOneAtATime ==
  [][Len(drop'.todo) < Len(drop.todo) /\ drop'.tag # 0
       => \A k \in engine'.cursor + 1 .. Len(engine'.buffer) :
            Sig(engine'.buffer[k]) # [tag |-> drop'.tag, src |-> "action"]]_vars

\* A starved engine (an emptied N field) recovers with the first frame that is
\* played once the field holds a number again.
RecoversFromNaN ==
  [][engine'.config.n # NaN /\ engine'.cursor # engine.cursor
       => HasCurrent(engine')]_vars

\* replaceVRM keeps the scheduled queue, as its comment states (index.html:870).
ReplaceKeepsQueue ==
  [][(\E config \in Configs : ReplaceVRM(config)) =>
       \A k \in engine.cursor + 1 .. Len(Buffer) :
         Buffer[k].src = "action" =>
           \E j \in 1 .. Len(engine'.buffer) : engine'.buffer[j].clip = Buffer[k].clip]_vars

\* With nobody else scheduling, a dropped clip whose action is longer than one
\* tick plays is seen to end, and the handler goes on: also when the inputs are
\* emptied while it plays, if N holds a number again and again.
DropGoesOn ==
  []<>(engine.config.n # NaN) => (drop.stage = "waiting" ~> drop.stage # "waiting")
=============================================================================
