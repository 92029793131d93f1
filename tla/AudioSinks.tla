----------------------------- MODULE AudioSinks -----------------------------
(***************************************************************************)
(* media/AudioSink, PipeWireAudioSink, AlsaAudioSink, AudioSinkSelector:   *)
(* the device behind the sound, and the clock the picture follows.  The    *)
(* selector tries PipeWire, then ALSA, then takes the sink that discards;  *)
(* the engine then starts it, gives it buffers, reads its position and     *)
(* stops it, all on one thread.  The device plays on its own: PipeWire's   *)
(* loop calls back, ALSA's hardware empties its buffer, and the null sink  *)
(* looks at a clock.  Sound is counted in frames.                          *)
(***************************************************************************)
EXTENDS Naturals, Sequences

CONSTANTS
    Capacity,     \* frames the FIFO or the hardware's buffer holds
    BufferSizes,  \* frames of the buffers the engine submits
    MaxPlayed,    \* bound: frames the device asks for in one run
    MaxSuspends,  \* bound: times the hardware is suspended
    MaxRuns       \* bound: starts after the selection

ASSUME SinkAssumption == Capacity \in Nat /\ BufferSizes \subseteq Nat

VARIABLES
    kind,         \* the sink that is tried or was chosen
    chosen,       \* selectAudioSink() has returned
    sinkCall,     \* the call in progress and what it has still to do
    active,       \* the sink is started
    held,         \* what it holds of the audio system
    stream,       \* PipeWire: streaming and failed, as the state callback set them
    queued,       \* frames accepted and not played
    counted, overflow, offered,  \* frames submitted, refused, and given in this run
    played,       \* played_, the position of the clock
    emitted,      \* frames that left for the device (null: that its clock passed)
    reading,      \* what the last two calls of playedFrames() in this run returned
    used          \* suspends and runs so far

deviceVars == <<queued, played, emitted>>
counters == <<counted, overflow, offered>>
sinkVars == <<kind, chosen, sinkCall, active, held, stream, deviceVars, counters, reading, used>>

Idle == [what |-> "none", left |-> 0, waits |-> 0, recovered |-> FALSE]

\* What a failing start() has built by then.
Built == [loop |-> {}, stream |-> {"loop"}, connect |-> {"loop", "stream"}, thread |-> {"loop", "stream"}]

SinkInit ==
    /\ kind = "pipewire" /\ chosen = FALSE
    /\ sinkCall = Idle /\ active = FALSE /\ held = {} /\ stream = {}
    /\ queued = 0 /\ played = 0 /\ emitted = 0
    /\ counted = 0 /\ overflow = 0 /\ offered = 0
    /\ reading = <<0, 0>> /\ used = [suspends |-> 0, runs |-> 0]

Smaller(a, b) == IF a < b THEN a ELSE b
Larger(a, b) == IF a < b THEN b ELSE a

Reset ==
    /\ queued' = 0 /\ played' = 0 /\ emitted' = 0
    /\ counted' = 0 /\ overflow' = 0 /\ offered' = 0
    /\ reading' = <<0, 0>>

\* ---- PipeWireAudioSink: start(), the callbacks of its loop
Teardown(resources) == resources \ {"loop", "stream", "thread"}

\* A probe that fails makes way for the next kind of sink; null is not probed.
NotStarted ==
    /\ active' = FALSE /\ sinkCall' = Idle
    /\ kind' = IF chosen THEN kind ELSE IF kind = "pipewire" THEN "alsa" ELSE "null"
    /\ chosen' = (kind' = "null" \/ chosen)

MayStart(k) ==
    /\ sinkCall = Idle /\ ~active /\ kind = k
    /\ chosen => used.runs < MaxRuns
    /\ used' = IF chosen THEN [used EXCEPT !.runs = @ + 1] ELSE used

StartPipeWire ==
    /\ MayStart("pipewire")
    /\ Reset /\ stream' = {}
    /\ \/ /\ \E at \in DOMAIN Built : held' = Teardown(Built[at])
          /\ NotStarted
       \/ /\ held' = {"loop", "stream", "thread"}
          /\ sinkCall' = [Idle EXCEPT !.what = "connecting"]
          /\ UNCHANGED <<kind, chosen, active>>

OnStateChanged(state) ==
    /\ "thread" \in held
    /\ stream' = IF state = "streaming" THEN stream \cup {"streaming"}
                 ELSE IF state = "unconnected" /\ "streaming" \in stream THEN stream
                 ELSE stream \cup {"failed"}
    /\ UNCHANGED <<kind, chosen, sinkCall, active, held, deviceVars, counters, reading, used>>

\* The wait of start() ends: told by the callback, or timed out.
Connected ==
    /\ sinkCall.what = "connecting"
    /\ IF "streaming" \in stream
          THEN /\ active' = TRUE /\ sinkCall' = Idle
               /\ UNCHANGED <<kind, chosen, held>>
          ELSE NotStarted /\ held' = Teardown(held)
    /\ UNCHANGED <<stream, deviceVars, counters, reading, used>>

OnProcess(frames) ==
    /\ "thread" \in held /\ "streaming" \in stream
    /\ LET drained == Smaller(frames, queued) IN
          /\ queued' = queued - drained
          /\ played' = played + drained /\ emitted' = emitted + drained
    /\ UNCHANGED <<kind, chosen, sinkCall, active, held, stream, counters, reading, used>>

\* ---- AlsaAudioSink: start() and the hardware
StartAlsa ==
    /\ MayStart("alsa")
    /\ \/ NotStarted /\ UNCHANGED <<held, deviceVars, counters, reading>>
       \/ /\ active' = TRUE /\ held' = {"pcm"} /\ Reset
          /\ UNCHANGED <<kind, chosen, sinkCall>>
    /\ UNCHANGED stream

HardwarePlays ==
    /\ "pcm" \in held /\ queued > 0
    /\ queued' = queued - 1 /\ emitted' = emitted + 1
    /\ UNCHANGED <<kind, chosen, sinkCall, active, held, stream, played, counters, reading, used>>

\* ---- NullAudioSink
StartNull ==
    /\ MayStart("null") /\ chosen
    /\ active' = TRUE /\ Reset
    /\ UNCHANGED <<kind, chosen, sinkCall, held, stream>>

TimePasses ==
    /\ kind = "null" /\ active /\ emitted < MaxPlayed
    /\ emitted' = emitted + 1
    /\ UNCHANGED <<kind, chosen, sinkCall, active, held, stream, queued, played, counters, reading, used>>

\* ---- submit()
MaySubmit(k) == sinkCall = Idle /\ chosen /\ active /\ kind = k /\ offered < MaxPlayed

SubmitNull(n) ==
    /\ MaySubmit("null")
    /\ counted' = counted + n /\ offered' = offered + n
    /\ UNCHANGED <<kind, chosen, sinkCall, active, held, stream, deviceVars, overflow, reading, used>>

\* The FIFO takes what it has room for; what it took is counted afterwards.
SubmitPipeWire(n) ==
    /\ MaySubmit("pipewire")
    /\ LET accepted == Smaller(Capacity - queued, n) IN
          /\ queued' = queued + accepted
          /\ sinkCall' = [Idle EXCEPT !.what = "counting", !.left = accepted]
    /\ offered' = offered + n
    /\ UNCHANGED <<kind, chosen, active, held, stream, played, emitted, counted, overflow, reading, used>>

Counted ==
    /\ sinkCall.what = "counting"
    /\ counted' = counted + sinkCall.left
    /\ overflow' = offered - counted'
    /\ sinkCall' = Idle
    /\ UNCHANGED <<kind, chosen, active, held, stream, deviceVars, offered, reading, used>>

SubmitAlsa(n) ==
    /\ MaySubmit("alsa")
    /\ sinkCall' = [what |-> "writing", left |-> n, waits |-> 1, recovered |-> FALSE]
    /\ offered' = offered + n
    /\ UNCHANGED <<kind, chosen, active, held, stream, deviceVars, counted, overflow, reading, used>>

Writing == sinkCall.what = "writing" /\ sinkCall.left > 0

GiveUp ==
    /\ overflow' = overflow + sinkCall.left
    /\ sinkCall' = Idle
    /\ UNCHANGED counted

Writes ==
    /\ Writing
    /\ \E n \in 1 .. Smaller(Capacity - queued, sinkCall.left) :
          /\ queued' = queued + n /\ counted' = counted + n
          /\ sinkCall' = [sinkCall EXCEPT !.left = @ - n]
    /\ UNCHANGED <<kind, chosen, active, held, stream, played, emitted, overflow, offered, reading, used>>

\* EAGAIN: one wait for room in a submission.
WouldBlock ==
    /\ Writing /\ queued = Capacity
    /\ \/ GiveUp
       \/ /\ sinkCall.waits > 0
          /\ sinkCall' = [sinkCall EXCEPT !.waits = 0]
          /\ UNCHANGED <<counted, overflow>>
    /\ UNCHANGED <<kind, chosen, active, held, stream, deviceVars, offered, reading, used>>

\* EPIPE: the device ran dry; it is prepared once in a submission.
Underrun ==
    /\ Writing /\ queued = 0
    /\ \/ GiveUp
       \/ /\ ~sinkCall.recovered
          /\ sinkCall' = [sinkCall EXCEPT !.recovered = TRUE]
          /\ UNCHANGED <<counted, overflow>>
    /\ UNCHANGED <<kind, chosen, active, held, stream, deviceVars, offered, reading, used>>

\* ESTRPIPE: preparing drops what the hardware had not played.
Suspended ==
    /\ Writing /\ used.suspends < MaxSuspends
    /\ used' = [used EXCEPT !.suspends = @ + 1]
    /\ \/ GiveUp /\ UNCHANGED queued
       \/ queued' = 0 /\ UNCHANGED <<sinkCall, counted, overflow>>
    /\ UNCHANGED <<kind, chosen, active, held, stream, played, emitted, offered, reading>>

\* After an error the rest of a buffer is neither written nor counted as overflow: the
\* caller has the error, and `offered` is what was handed over without one.
WriteReturns ==
    /\ sinkCall.what = "writing"
    /\ \/ sinkCall.left = 0 /\ UNCHANGED offered
       \/ sinkCall.left > 0 /\ offered' = offered - sinkCall.left   \* the error Io
    /\ sinkCall' = Idle
    /\ UNCHANGED <<kind, chosen, active, held, stream, deviceVars, counted, overflow, reading, used>>

\* ---- playedFrames() and stop()
Candidates ==
    IF kind = "null" THEN {Smaller(emitted, counted)}
    ELSE IF kind = "alsa" THEN {counted - queued, counted}   \* the delay, if it can be had
    ELSE {played}

\* A position never goes back, and cannot pass what was submitted.
PlayedFrames(candidate) == Larger(played, candidate)

ReadPosition ==
    /\ sinkCall = Idle /\ chosen
    /\ \E c \in IF active THEN Candidates ELSE {played} :
          /\ played' = PlayedFrames(c)
          /\ reading' = <<reading[2], played'>>
    /\ UNCHANGED <<kind, chosen, sinkCall, active, held, stream, queued, emitted, counters, used>>

\* A probed sink is stopped and chosen.  ALSA looks at its position when it is
\* no longer active, which leaves the last reading.
StopSink ==
    /\ sinkCall = Idle /\ active
    /\ active' = FALSE /\ chosen' = TRUE
    /\ held' = {} /\ queued' = 0
    /\ played' = IF kind = "null" THEN PlayedFrames(Smaller(emitted, counted)) ELSE played
    /\ UNCHANGED <<kind, sinkCall, stream, emitted, counters, reading, used>>

SinkCall ==
    Connected \/ Counted \/ Writes \/ WouldBlock \/ Underrun \/ Suspended \/ WriteReturns

SinkNext ==
    \/ SinkCall
    \/ StartPipeWire \/ StartAlsa \/ StartNull
    \/ \E n \in BufferSizes : SubmitNull(n) \/ SubmitPipeWire(n) \/ SubmitAlsa(n) \/ OnProcess(n)
    \/ \E s \in {"streaming", "error", "unconnected"} : OnStateChanged(s)
    \/ HardwarePlays \/ TimePasses \/ ReadPosition \/ StopSink

\* A sinkCall that was made goes on: waits have time limits.
SinkFairness == WF_sinkVars(SinkCall)

SinkSpec == SinkInit /\ [][SinkNext]_sinkVars /\ SinkFairness

----------------------------------------------------------------------------
SinkTypeOK ==
    /\ kind \in {"pipewire", "alsa", "null"} /\ chosen \in BOOLEAN /\ active \in BOOLEAN
    /\ sinkCall.what \in {"none", "connecting", "counting", "writing"}
    /\ held \subseteq {"loop", "stream", "thread", "pcm"}
    /\ stream \subseteq {"streaming", "failed"}
    /\ queued \in 0 .. Capacity
    /\ {counted, overflow, offered, played, emitted} \subseteq Nat

(* IAudioSink's contract for the master clock: between calls no position   *)
(* that was read lies behind an earlier one or beyond what was submitted,  *)
(* whatever underruns, suspends and full buffers came in between.          *)
ClockHonest ==
    sinkCall = Idle =>
        /\ reading[1] <= reading[2]
        /\ reading[2] <= counted /\ played <= counted

(* Every frame the engine gave is counted once: queued or played if it was *)
(* accepted, overflow if it was not.                                       *)
FramesAccounted ==
    sinkCall = Idle =>
        /\ offered = counted + overflow
        /\ active /\ kind = "pipewire" => counted = played + queued

(* A sink that is not started, because it was stopped, refused or only     *)
(* probed, holds nothing of the audio system, and its clock stands where   *)
(* the sound ended (for ALSA: where it was last read).                     *)
StoppedIsReleased ==
    sinkCall = Idle /\ ~active =>
        /\ held = {} /\ queued = 0
        /\ kind = "pipewire" => played = emitted
        /\ kind = "null" => played = Smaller(emitted, counted)

(* What a sink promises the engine.                                        *)
SinksSound == ClockHonest /\ FramesAccounted /\ StoppedIsReleased

(* start() and submit() return, however the device behaves, as long as it  *)
(* is not suspended again and again.                                       *)
SinkCallsReturn == sinkCall # Idle ~> sinkCall = Idle
=============================================================================
