----------------------------- MODULE Playback -----------------------------
(***************************************************************************)
(* The transport: PreviewController paces pictures, AudioEngine plays the  *)
(* sound that is the master clock, AudioPlaybackDriver keeps the engine    *)
(* with the transport by the rules of AudioTransportSync, and              *)
(* ScrubAudioController takes the engine over while the playhead is        *)
(* dragged.  All of them run on the user-interface thread: the preview     *)
(* timer, the driver's timer and the user's input take turns, and only     *)
(* the device and the wall clock go on during a turn.                      *)
(*                                                                         *)
(* Time is counted in ticks.  A picture shown is its presentation time;    *)
(* whether a render goes by the GPU or the CPU is left out: it fails only  *)
(* when both do.  The silence mixed for a missing device keeps the clock   *)
(* of the engine going just as sound does, so the two are not told apart.  *)
(***************************************************************************)
EXTENDS Integers, FiniteSets, TLC

CONSTANTS
    Rates,             \* the frame intervals a project may have, in ticks
    Lengths,           \* the timeline durations a project may have, in ticks
    Positions,         \* where the user may move the playhead to
    MaxFramesPerPump,  \* PreviewOptions::maxFramesPerPump
    Quantum,           \* one pump of the audio engine, in ticks
    TargetLead,        \* AudioTransportSyncOptions::targetLead
    MaxQuanta,         \* AudioTransportSyncOptions::maxQuantaPerCycle
    SeekTolerance,     \* AudioTransportSyncOptions::seekTolerance
    Costs,             \* how long the composite of one picture may take
    MaxLate,           \* bound: lateness is not counted further than this
    MaxInputs          \* bound: what the user does in one run

ASSUME PlaybackAssumption ==
    /\ Rates \subseteq Nat \ {0} /\ Rates # {}
    /\ Lengths \subseteq Nat \ {0} /\ Lengths # {}
    /\ Positions \subseteq Nat
    /\ MaxFramesPerPump \in Nat \ {0}
    /\ Quantum \in Nat \ {0}
    /\ TargetLead \in Nat /\ MaxQuanta \in Nat
    /\ SeekTolerance \in Nat /\ SeekTolerance > TargetLead
    /\ Costs \subseteq Nat /\ MaxLate \in Nat /\ MaxInputs \in Nat

VARIABLES
    project,    \* what the project source answers: frame interval and length
    transport,  \* the PreviewController
    timer,      \* the preview view's timer is active
    due,        \* the timers that have not had their turn in this tick
    turn,       \* the pump in progress: what it read, and its steps
    engine,     \* the AudioEngine: running, mixed up to, played up to
    scrub,      \* the ScrubAudioController
    inputs      \* how often the user acted

vars == <<project, transport, timer, due, turn, engine, scrub, inputs>>

Timers == {"view", "driver"}

None == -1                      \* no picture yet, or no audio clock

Lesser(a, b) == IF a < b THEN a ELSE b

Greater(a, b) == IF a > b THEN a ELSE b

Projects == [interval : Rates, total : Lengths]

NoTurn == [pumping |-> FALSE, audio |-> None, steps |-> 0]

Init ==
    /\ project \in Projects
    /\ transport = [state |-> "Stopped", playhead |-> 0, frame |-> 0,
                    interval |-> project.interval, late |-> 0,
                    shown |-> None, failed |-> FALSE, ended |-> FALSE]
    /\ timer = FALSE
    /\ due = Timers
    /\ turn = NoTurn
    /\ engine = [running |-> FALSE, mixed |-> 0, played |-> 0]
    /\ scrub \in [dragging : {FALSE}, sounding : {FALSE}, resume : {FALSE},
                  enabled : {TRUE}, output : BOOLEAN]
    /\ inputs = 0

----------------------------------------------------------------------------
(* The transport's operations, as functions of its record.                 *)

\* The position of the next picture, at the rate the transport adopted.
PositionFor(tr) == tr.frame * tr.interval

AdoptRate(tr) == [tr EXCEPT !.interval = project.interval]

\* A picture outside of the pump: a failure is noted and changes nothing else.
PresentAt(tr, position, ok) ==
    IF ok THEN [tr EXCEPT !.shown = position, !.failed = FALSE,
                          !.playhead = position]
          ELSE [tr EXCEPT !.failed = TRUE]

Play(tr) ==
    LET adopted == AdoptRate(tr)
        fresh == [adopted EXCEPT !.frame = adopted.playhead \div adopted.interval,
                                 !.ended = FALSE]
    IN  IF tr.state = "Playing" THEN tr
        ELSE [(IF tr.state = "Stopped" THEN fresh ELSE adopted)
                EXCEPT !.state = "Playing", !.late = 0]

\* A slip: pause leaves the playhead where it is and presents nothing.
PauseInPlace(tr, ok) ==
    IF tr.state # "Playing" THEN tr ELSE [tr EXCEPT !.state = "Paused"]

Pause(tr, ok) ==
    LET held == IF tr.shown = None THEN tr.playhead ELSE tr.shown
    IN  IF tr.state # "Playing" THEN tr
        ELSE PresentAt([tr EXCEPT !.state = "Paused", !.playhead = held], held, ok)

Stop(tr, ok) ==
    PresentAt([AdoptRate(tr) EXCEPT !.state = "Stopped", !.playhead = 0,
                                    !.frame = 0, !.late = 0, !.ended = FALSE],
              0, ok)

Seek(tr, position, ok) ==
    LET clamped == Lesser(position, project.total)
        moved == [AdoptRate(tr) EXCEPT !.playhead = clamped, !.late = 0,
                                       !.ended = FALSE,
                                       !.frame = clamped \div project.interval]
    IN  PresentAt(moved, clamped, ok)

----------------------------------------------------------------------------
(* The engine and who starts and stops it.                                 *)

StartedAt(position) == [running |-> TRUE, mixed |-> position, played |-> position]

Halted(en) == [en EXCEPT !.running = FALSE]

\* How many quanta bring the lead back to the target.
QuantaFor(lead) ==
    LET deficit == TargetLead - lead
    IN  IF deficit <= 0 THEN 0
        ELSE Lesser((deficit + Quantum - 1) \div Quantum, MaxQuanta)

Drift == LET d == transport.playhead - engine.played IN Greater(d, 0 - d)

\* What AudioTransportSync decides: the engine to go on with, and the quanta.
Decision ==
    IF scrub.sounding
       THEN [engine |-> engine, quanta |-> 0]
    ELSE IF transport.state # "Playing"
       THEN [engine |-> Halted(engine), quanta |-> 0]
    ELSE IF ~engine.running \/ Drift > SeekTolerance
       THEN [engine |-> StartedAt(transport.playhead), quanta |-> QuantaFor(0)]
    ELSE [engine |-> engine, quanta |-> QuantaFor(engine.mixed - engine.played)]

\* A cycle of the driver; a quantum that fails ends it.
DriverTick(delivered) ==
    /\ ~turn.pumping
    /\ delivered \in 0 .. Decision.quanta
    /\ engine' = [Decision.engine EXCEPT !.mixed = @ + delivered * Quantum]
    /\ due' = due \ {"driver"}
    /\ UNCHANGED <<project, transport, timer, turn, scrub, inputs>>

\* One tick of time: the device plays what it was given.
Played(en, ticks) ==
    IF en.running THEN [en EXCEPT !.played = Lesser(en.mixed, @ + ticks)] ELSE en

Later(tr, ticks) ==
    IF tr.state = "Playing" THEN [tr EXCEPT !.late = Lesser(MaxLate, @ + ticks)] ELSE tr

\* Both timers are shorter than a tick: the thread, when it is not held by a
\* turn, gives each one its turn before another tick is over.
Pass ==
    /\ ~turn.pumping
    /\ due \subseteq IF timer THEN {} ELSE {"view"}
    /\ due' = Timers
    /\ engine' = Played(engine, 1)
    /\ transport' = Later(transport, 1)
    /\ UNCHANGED <<project, timer, turn, scrub, inputs>>

----------------------------------------------------------------------------
(* The pump, on the preview view's timer.  The audio position is read once. *)

AudioClock == IF engine.running THEN engine.played ELSE None

TimerFires ==
    /\ timer /\ ~turn.pumping /\ "view" \in due
    /\ due' = due \ {"view"}
    /\ IF transport.state = "Playing"
          THEN /\ turn' = [pumping |-> TRUE, audio |-> AudioClock, steps |-> 0]
               /\ UNCHANGED timer
          ELSE timer' = FALSE /\ UNCHANGED turn
    /\ UNCHANGED <<project, transport, engine, scrub, inputs>>

\* Ahead of the sound by more than a picture, or of the wall clock at all.
Early ==
    IF turn.audio # None
       THEN PositionFor(transport) > turn.audio + transport.interval
       ELSE transport.late < 0

AtEnd == PositionFor(transport) >= project.total

TooLate ==
    turn.audio # None /\ PositionFor(transport) + transport.interval < turn.audio

\* The view stops its timer when the pump left the transport not playing.
EndTurn(state) ==
    /\ turn' = NoTurn
    /\ timer' = (state = "Playing")

PumpWaits ==
    /\ turn.pumping
    /\ turn.steps = MaxFramesPerPump \/ Early
    /\ EndTurn("Playing")
    /\ UNCHANGED <<project, transport, engine, scrub, inputs, due>>

Considered == turn.pumping /\ turn.steps < MaxFramesPerPump /\ ~Early

\* A slip: the end of the timeline moves the playhead and leaves the state.
PumpEndsPlaying ==
    /\ Considered /\ AtEnd
    /\ transport' = [transport EXCEPT !.playhead = project.total, !.ended = TRUE]
    /\ EndTurn("Playing")
    /\ UNCHANGED <<project, engine, scrub, inputs, due>>

PumpEnds ==
    /\ Considered /\ AtEnd
    /\ transport' = [transport EXCEPT !.playhead = project.total,
                                      !.state = "Stopped", !.ended = TRUE]
    /\ EndTurn("Stopped")
    /\ UNCHANGED <<project, engine, scrub, inputs, due>>

Skipped(tr, n) == [tr EXCEPT !.frame = @ + n, !.late = @ - n * tr.interval]

PumpDrops ==
    /\ Considered /\ ~AtEnd /\ TooLate
    /\ transport' = Skipped(transport, 1)
    /\ turn' = [turn EXCEPT !.steps = @ + 1]
    /\ UNCHANGED <<project, timer, engine, scrub, inputs, due>>

\* The slots a composite of this cost ran through, as far as the pump's steps
\* and the timeline go.  Nothing is skipped under the audio clock.
Overrun(cost) ==
    LET next == transport.frame + 1
        slots == IF cost = 0 THEN 0 ELSE (cost - 1) \div transport.interval
        left == {n \in 0 .. slots :
                    /\ turn.steps + 1 + n <= MaxFramesPerPump
                    /\ \A k \in 0 .. n - 1 : (next + k) * transport.interval < project.total}
    IN  IF turn.audio # None THEN 0 ELSE CHOOSE n \in left : \A m \in left : m <= n

PumpPresents(cost) ==
    LET position == PositionFor(transport)
        drawn == PresentAt(Later(transport, cost), position, TRUE)
    IN  /\ Considered /\ ~AtEnd /\ ~TooLate
        /\ transport' = Skipped(drawn, 1 + Overrun(cost))
        /\ turn' = [turn EXCEPT !.steps = @ + 1 + Overrun(cost)]
        /\ engine' = Played(engine, cost)
        /\ UNCHANGED <<project, timer, scrub, inputs, due>>

PumpFails ==
    /\ Considered /\ ~AtEnd /\ ~TooLate
    /\ transport' = [transport EXCEPT !.state = "Paused", !.failed = TRUE]
    /\ EndTurn("Paused")
    /\ UNCHANGED <<project, engine, scrub, inputs, due>>

Pump == PumpWaits \/ PumpEnds \/ PumpDrops \/ PumpFails
        \/ \E cost \in Costs : PumpPresents(cost)

----------------------------------------------------------------------------
(* What the user does: the preview view's keys, the timeline panel's       *)
(* transport bar, the playhead, the scrub setting, and edits.              *)

Input ==
    /\ ~turn.pumping
    /\ inputs < MaxInputs
    /\ inputs' = inputs + 1

ViewPlay ==
    /\ Input
    /\ transport' = Play(transport) /\ timer' = TRUE
    /\ UNCHANGED <<project, turn, engine, scrub, due>>

ViewPause(ok) ==
    /\ Input
    /\ transport' = Pause(transport, ok) /\ timer' = FALSE
    /\ UNCHANGED <<project, turn, engine, scrub, due>>

ViewStop(ok) ==
    /\ Input
    /\ transport' = Stop(transport, ok) /\ timer' = FALSE
    /\ UNCHANGED <<project, turn, engine, scrub, due>>

\* The panel goes to the shared controller; the timer belongs to the view.
PanelPlay ==
    /\ Input
    /\ transport' = Play(transport)
    /\ UNCHANGED <<project, timer, turn, engine, scrub, due>>

PanelPause(ok) ==
    /\ Input
    /\ transport' = Pause(transport, ok)
    /\ UNCHANGED <<project, timer, turn, engine, scrub, due>>

PanelStop(ok) ==
    /\ Input
    /\ transport' = Stop(transport, ok)
    /\ UNCHANGED <<project, timer, turn, engine, scrub, due>>

Suppressed == ~scrub.enabled \/ ~scrub.output

\* movePlayheadToMs: a position reached in a drag is offered to the scrub
\* audio, which takes it or drops it for coming too soon after another.
MovePlayhead(position, ok, dropped) ==
    LET heard == scrub.dragging /\ ~Suppressed /\ ~dropped
    IN  /\ Input
        /\ dropped => scrub.dragging /\ ~Suppressed
        /\ transport' = Seek(transport, position, ok)
        /\ scrub' = [scrub EXCEPT !.sounding = @ \/ heard]
        /\ engine' = IF heard THEN StartedAt(position) ELSE engine
        /\ UNCHANGED <<project, timer, turn, due>>

BeginDrag(ok) ==
    LET paused == Pause(transport, ok)
    IN  /\ Input
        /\ ~scrub.dragging
        /\ transport' = paused
        /\ scrub' = [scrub EXCEPT !.dragging = TRUE, !.sounding = ~Suppressed,
                                  !.resume = (transport.state = "Playing")]
        /\ engine' = IF Suppressed THEN engine ELSE StartedAt(paused.playhead)
        /\ UNCHANGED <<project, timer, turn, due>>

\* Not counted as an input: who presses the button also releases it.
EndDrag ==
    /\ ~turn.pumping /\ scrub.dragging
    /\ scrub' = [scrub EXCEPT !.dragging = FALSE, !.sounding = FALSE, !.resume = FALSE]
    /\ engine' = Halted(engine)
    /\ transport' = IF scrub.resume THEN Play(transport) ELSE transport
    /\ UNCHANGED <<project, timer, turn, inputs, due>>

SetScrubEnabled(on) ==
    /\ Input
    /\ on # scrub.enabled
    /\ scrub' = [scrub EXCEPT !.enabled = on, !.sounding = @ /\ on]
    /\ engine' = IF scrub.sounding /\ ~on THEN Halted(engine) ELSE engine
    /\ UNCHANGED <<project, transport, timer, turn, due>>

EditProject ==
    /\ Input
    /\ project' \in Projects \ {project}
    /\ UNCHANGED <<transport, timer, turn, engine, scrub, due>>

PanelInput ==
    \/ PanelPlay \/ EditProject
    \/ \E ok \in BOOLEAN : PanelPause(ok) \/ PanelStop(ok) \/ BeginDrag(ok)
    \/ \E on \in BOOLEAN : SetScrubEnabled(on)
    \/ \E ok, dropped \in BOOLEAN : \E position \in Positions : MovePlayhead(position, ok, dropped)

ViewInput == ViewPlay \/ \E ok \in BOOLEAN : ViewPause(ok) \/ ViewStop(ok)

Delivered == 0 .. MaxQuanta

Next ==
    \/ \E delivered \in Delivered : DriverTick(delivered)
    \/ Pass \/ TimerFires \/ Pump \/ EndDrag \/ ViewInput \/ PanelInput

(* A turn of the thread ends, and between turns each expired timer gets    *)
(* its own; time passes; the device takes what the driver gives it again   *)
(* and again; a drag does not last for ever.  The user owes nothing.       *)
Fairness ==
    /\ WF_vars(Pump) /\ WF_vars(Pass) /\ WF_vars(TimerFires)
    /\ SF_vars(DriverTick(Decision.quanta))
    /\ SF_vars(EndDrag)

Spec == Init /\ [][Next]_vars /\ Fairness

----------------------------------------------------------------------------
PlaybackTypeOK ==
    /\ project \in Projects
    /\ transport \in [state : {"Stopped", "Playing", "Paused"}, playhead : Nat,
                      frame : Nat, interval : Rates, late : Int,
                      shown : Nat \cup {None}, failed : BOOLEAN, ended : BOOLEAN]
    /\ timer \in BOOLEAN /\ due \subseteq Timers
    /\ turn \in [pumping : BOOLEAN, audio : Nat \cup {None}, steps : 0 .. MaxFramesPerPump]
    /\ engine \in [running : BOOLEAN, mixed : Nat, played : Nat]
    /\ engine.played <= engine.mixed
    /\ scrub \in [dragging : BOOLEAN, sounding : BOOLEAN, resume : BOOLEAN,
                  enabled : BOOLEAN, output : BOOLEAN]
    /\ inputs \in 0 .. MaxInputs

(* When playback rests, the picture on the surface is the one of the       *)
(* playhead: after a pause, a stop, a seek or a drag, whatever happened     *)
(* before it.  The end of the timeline keeps the last picture, and a       *)
(* failed render says so (PreviewController.cpp, pause(), seek(), pump()). *)
PictureAtPlayhead ==
    transport.state # "Playing" /\ ~transport.failed /\ ~transport.ended
        /\ transport.shown # None => transport.shown = transport.playhead

(* Scrub audio holds the engine only during a drag that may be heard: it   *)
(* never outlives the drag or the setting, and while it sounds the engine  *)
(* runs (ScrubAudioController.hpp, the rules of suppression).              *)
ScrubOwnsTheEngine ==
    scrub.sounding => scrub.dragging /\ ~Suppressed /\ engine.running

(* A transport the timer pumps comes to rest at the end of the timeline or *)
(* at a failure, whatever held the sound and however late pictures are     *)
(* drawn, as long as the next picture is one that the sound reaches before *)
(* it counts as a seek (PreviewController::pump(), AudioTransportSync).    *)
WithinReach ==
    PositionFor(transport) <= transport.playhead + transport.interval + SeekTolerance

PlaybackRests ==
    (transport.state = "Playing" /\ timer)
        ~> ~(transport.state = "Playing" /\ timer /\ WithinReach)

(* Sound does not go on without a reason: when nothing plays and nothing   *)
(* is dragged the engine is stopped, by the driver's next cycle            *)
(* (AudioTransportSync.cpp, "Stop").                                       *)
SilenceFollows ==
    engine.running ~> (~engine.running \/ transport.state = "Playing" \/ scrub.sounding)

(* The sound finds the picture again after a seek, a drag or an overrun.   *)
SoundFindsPicture ==
    (transport.state = "Playing" /\ ~scrub.sounding /\ Drift > SeekTolerance)
        ~> (transport.state # "Playing" \/ scrub.sounding \/ Drift <= SeekTolerance)

(* What the surfaces promise about picture and sound at rest.              *)
TransportSound == PlaybackTypeOK /\ PictureAtPlayhead /\ ScrubOwnsTheEngine

(* Picture and sound, each the other's clock, come together and to rest.   *)
TransportSettles == PlaybackRests /\ SilenceFollows /\ SoundFindsPicture
=============================================================================
