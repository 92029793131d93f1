------------------------------ MODULE Encoding ------------------------------
(***************************************************************************)
(* One export below the coordinator: media/EncoderSelector chooses an      *)
(* encoder, media/ExportEngine plans the pictures and renders them one by  *)
(* one with the sound of each picture's interval, media/MediaEncoder opens *)
(* a backend through gpu/CodecBridge and feeds it.  Pictures and samples   *)
(* are counted; what they show is left out.  The removal of an incomplete  *)
(* file, whose errors the code ignores, is taken to succeed.               *)
(***************************************************************************)
EXTENDS Integers, Sequences, SequencesExt

CONSTANTS
    Ticks,          \* Duration::kTicksPerSecond
    Rate,           \* samples per second of the mix
    FrameRates,     \* <<numerator, denominator>> of the pictures per second
    Durations,      \* bound: lengths of the timeline, in ticks
    ChunkSize       \* samples the audio encoder takes at a time

ASSUME EncodingAssumption ==
    /\ {Ticks, Rate, ChunkSize} \cup Durations \subseteq Nat \ {0}
    /\ \A r \in FrameRates : r[1] \in Nat \ {0} /\ r[2] \in Nat \ {0}

VARIABLES
    request,        \* the request: [rate, total, audio, hardware, routed]
    phase,      \* what the export does next
    tries,      \* times a hardware encoder was initialised by the selector
    route,      \* what the encoder is opened on
    opens,      \* the routes that were tried, in order
    output,     \* the file at the output path
    rendered,   \* pictures submitted
    submitted,  \* samples submitted
    fifo,       \* samples the backend has buffered
    chunks,     \* sizes of the audio frames it has encoded
    result

encodingVars == <<request, phase, tries, route, opens, output, rendered, submitted, fifo, chunks, result>>
counts == <<rendered, submitted, fifo, chunks>>

EncodingInit ==
    /\ request \in [rate : FrameRates, total : Durations, audio : BOOLEAN, hardware : BOOLEAN, routed : BOOLEAN]
    /\ phase = "choosing" /\ tries = 0 /\ route = "none" /\ opens = <<>>
    /\ output \in {"none", "older"}
    /\ rendered = 0 /\ submitted = 0 /\ fifo = 0 /\ chunks = <<>>
    /\ result = "none"

\* ---- time

DurationForFrames(n) == (Ticks * request.rate[2] * n) \div request.rate[1]
FramesForDuration(d) == (d * request.rate[1]) \div (Ticks * request.rate[2])
DurationToFrames(d) == (d * Rate + Ticks \div 2) \div Ticks

PlannedFrameCount ==
    LET whole == FramesForDuration(request.total)
        frames == IF DurationForFrames(whole) < request.total THEN whole + 1 ELSE whole
    IN IF frames < 1 THEN 1 ELSE frames

\* ---- choosing

MaxInits == 2

Choose(r) == phase' = "opening" /\ route' = r
             /\ UNCHANGED <<request, opens, output, counts, result>>

\* Software was asked for, or nothing in the device, its vendor or the build
\* gives hardware for the codec.
SelectSoftware ==
    /\ phase = "choosing" /\ tries = 0 /\ ~(request.hardware /\ request.routed)
    /\ Choose("software") /\ UNCHANGED tries

\* The probe says no, or does not answer in time.
ProbeRefuses ==
    /\ phase = "choosing" /\ tries = 0 /\ request.hardware /\ request.routed
    /\ Choose("software") /\ UNCHANGED tries

InitSucceeds ==
    /\ phase = "choosing" /\ request.hardware /\ request.routed /\ tries < MaxInits
    /\ tries' = tries + 1
    /\ Choose("hardware")

InitFails ==
    /\ phase = "choosing" /\ request.hardware /\ request.routed /\ tries < MaxInits
    /\ tries' = tries + 1
    /\ IF tries' = MaxInits THEN Choose("software")
       ELSE UNCHANGED <<request, phase, route, opens, output, counts, result>>

\* ---- opening

End(r, file) == phase' = "ended" /\ result' = r /\ output' = file

\* runImpl() refuses before anything is built.
Rejected ==
    /\ phase = "opening" /\ opens = <<>>
    /\ End("rejected", output)
    /\ UNCHANGED <<request, tries, route, opens, counts>>

\* The factory made a backend: the file is created and its header written.
Opened ==
    /\ phase = "opening"
    /\ opens' = Append(opens, route)
    /\ phase' = "rendering" /\ output' = "partial"
    /\ UNCHANGED <<request, tries, route, counts, result>>

\* CodecBridge::execute(): a hardware route that fails, before or after the
\* file was created, is tried once more in software.  After the last failure
\* the engine removes what is at the path.
OpenFails ==
    /\ phase = "opening"
    /\ opens' = Append(opens, route)
    /\ \/ /\ route = "hardware"
          /\ route' = "software"
          /\ output' \in {output, "partial"}
          /\ UNCHANGED <<phase, result>>
       \/ /\ route = "software"
          /\ End("failed", "none") /\ UNCHANGED route
    /\ UNCHANGED <<request, tries, counts>>

\* ---- rendering

\* Cancelled at a picture's boundary, or the compositor, the mixer or either
\* stream of the encoder fails.
Stops(r) ==
    /\ phase \in {"rendering", "sounding"}
    /\ r = "cancelled" => phase = "rendering" /\ rendered < PlannedFrameCount
    /\ End(r, "none")
    /\ UNCHANGED <<request, tries, route, opens, counts>>

RenderFrame ==
    /\ phase = "rendering" /\ rendered < PlannedFrameCount
    /\ rendered' = rendered + 1
    /\ phase' = IF request.audio THEN "sounding" ELSE "rendering"
    /\ UNCHANGED <<request, tries, route, opens, output, submitted, fifo, chunks, result>>

\* Samples of picture n's interval.
IntervalSamples(n) == DurationToFrames(DurationForFrames(n + 1) - DurationForFrames(n))

\* The backend takes any number of samples and encodes whole chunks of them.
MixInterval ==
    /\ phase = "sounding"
    /\ LET samples == IntervalSamples(rendered - 1)
           whole == (fifo + samples) \div ChunkSize
       IN /\ submitted' = submitted + samples
          /\ fifo' = (fifo + samples) % ChunkSize
          /\ chunks' = chunks \o [n \in 1 .. whole |-> ChunkSize]
    /\ phase' = "rendering"
    /\ UNCHANGED <<request, tries, route, opens, output, rendered, result>>

\* ---- finishing

\* Slip that the checks catch: only whole chunks are flushed.
FinishWithoutTail ==
    /\ phase = "rendering" /\ rendered = PlannedFrameCount
    /\ End("ok", "whole")
    /\ UNCHANGED <<request, tries, route, opens, counts>>

Finish ==
    /\ phase = "rendering" /\ rendered = PlannedFrameCount
    /\ fifo' = 0
    /\ chunks' = IF fifo > 0 THEN Append(chunks, fifo) ELSE chunks
    /\ End("ok", "whole")
    /\ UNCHANGED <<request, tries, route, opens, rendered, submitted>>

FinishFails ==
    /\ phase = "rendering" /\ rendered = PlannedFrameCount
    /\ End("failed", "none")
    /\ UNCHANGED <<request, tries, route, opens, counts>>

EncodingNext ==
    \/ SelectSoftware \/ ProbeRefuses \/ InitSucceeds \/ InitFails
    \/ Rejected \/ Opened \/ OpenFails
    \/ Stops("cancelled") \/ Stops("failed")
    \/ RenderFrame \/ MixInterval \/ Finish \/ FinishFails

EncodingSpec == EncodingInit /\ [][EncodingNext]_encodingVars

----------------------------------------------------------------------------
EncodingTypeOK ==
    /\ phase \in {"choosing", "opening", "rendering", "sounding", "ended"}
    /\ route \in {"none", "hardware", "software"} /\ opens \in Seq({"hardware", "software"})
    /\ output \in {"none", "older", "partial", "whole"}
    /\ {tries, rendered, submitted, fifo} \subseteq Nat /\ chunks \in Seq(1 .. ChunkSize)
    /\ result \in {"none", "rejected", "failed", "cancelled", "ok"}

\* The chunks are whole but for the last: EverySampleEncoded says so.
Encoded == IF chunks = <<>> THEN 0 ELSE (Len(chunks) - 1) * ChunkSize + Last(chunks)

(* Every sample that is submitted is encoded, in chunks that are whole but *)
(* for the last, or still waits for the next; none waits after the end.    *)
EverySampleEncoded ==
    /\ Encoded + fifo = submitted /\ fifo < ChunkSize
    /\ \A i \in 1 .. Len(chunks) - 1 : chunks[i] = ChunkSize
    /\ result = "ok" => fifo = 0

(* A file that an export left behind is whole; a refused request leaves    *)
(* the path alone.                                                         *)
WholeFileOrNone ==
    phase = "ended" =>
        /\ output = "whole" <=> result = "ok"
        /\ output # "partial"

(* The pictures cover the timeline and the last one begins within it.      *)
PicturesCoverTimeline ==
    result = "ok" =>
        /\ DurationForFrames(rendered) >= request.total
        /\ rendered > 1 => DurationForFrames(rendered - 1) < request.total

(* Software is opened at most once, hardware at most once and never after  *)
(* software: a failing export does not try for ever.                       *)
OneWayToSoftware == opens \in {<<>>, <<"hardware">>, <<"software">>, <<"hardware", "software">>}

(* What an export promises of its file: whole or absent, as long as the    *)
(* timeline, every sample in it, and software as the last resort.          *)
EncodingSound ==
    EverySampleEncoded /\ WholeFileOrNone /\ PicturesCoverTimeline /\ OneWayToSoftware
=============================================================================
