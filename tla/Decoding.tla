------------------------------ MODULE Decoding ------------------------------
(***************************************************************************)
(* media/MediaDecoder over its FFmpeg backend: one file, two demuxers.     *)
(* Pictures and sound are read by cursors of their own, so that neither    *)
(* call disturbs the other; a decoder holds packets back before it gives   *)
(* the first of them out.  A packet that does not decode is an error of    *)
(* the call that met it, or, on a hardware route, is followed by one more  *)
(* attempt.                                                                *)
(***************************************************************************)
EXTENDS Integers, Sequences, SequencesExt

CONSTANTS
    Packets,    \* the file: sequence of [stream, pts, key, bad]
    Delay,      \* packets a decoder holds before it gives one out
    SeekPoints, \* bound: positions sought
    Absent      \* no time yet

ASSUME DecodingAssumption ==
    /\ Delay \in Nat /\ Absent \notin Nat
    /\ Packets \in Seq([stream : {"picture", "sound"}, pts : Nat, key : BOOLEAN, bad : BOOLEAN])

Streams == {"picture", "sound"}

VARIABLES
    reader,     \* per stream: [next, held, draining], packet numbers
    hardware,   \* the pictures' route is a hardware one
    call,       \* what nextFrame() or nextAudioFrame() is doing: [on, attempt]
    opened,     \* openAudioStream() succeeded
    latest,     \* lastAudioPresentation_
    begun,      \* per stream: the packet the present run began with
    given,      \* per stream: the packets given out in this run
    stamps      \* presentation times of the sound given out in this run

decodingVars == <<reader, hardware, call, opened, latest, begun, given, stamps>>

NoCall == [on |-> "none", attempt |-> 0]

DecodingInit ==
    /\ reader = [s \in Streams |-> [next |-> 1, held |-> <<>>, draining |-> FALSE]]
    /\ hardware \in BOOLEAN
    /\ call = NoCall /\ opened = FALSE /\ latest = Absent
    /\ begun = [s \in Streams |-> 1] /\ given = [s \in Streams |-> <<>>] /\ stamps = <<>>

\* ---- one turn of the loop of decode() and decodeAudio()

Ready(s) == reader[s].held # <<>> /\ (Len(reader[s].held) > Delay \/ reader[s].draining)

\* A frame comes out; it is the longest held.
Received(s) ==
    /\ Ready(s)
    /\ reader' = [reader EXCEPT ![s].held = Tail(@)]
    /\ given' = [given EXCEPT ![s] = Append(@, Head(reader[s].held))]

Ended(s) == reader[s].draining /\ reader[s].held = <<>>

\* Nothing is ready: one packet is read; the end of the file drains the decoder.
Needs(s) == ~Ready(s) /\ ~reader[s].draining

ReadsOn(s) ==
    /\ Needs(s)
    /\ LET n == reader[s].next IN
       IF n > Len(Packets)
          THEN reader' = [reader EXCEPT ![s].draining = TRUE]
          ELSE /\ ~(Packets[n].stream = s /\ Packets[n].bad)
               /\ reader' = [reader EXCEPT ![s].next = n + 1,
                                           ![s].held = IF Packets[n].stream = s THEN Append(@, n) ELSE @]

ReadsBad(s) ==
    /\ Needs(s) /\ reader[s].next <= Len(Packets)
    /\ Packets[reader[s].next].stream = s /\ Packets[reader[s].next].bad
    /\ reader' = [reader EXCEPT ![s].next = @ + 1]

\* ---- nextFrame()

NextFrame ==
    /\ call = NoCall
    /\ call' = [on |-> "picture", attempt |-> 1]
    /\ UNCHANGED <<reader, hardware, opened, latest, begun, given, stamps>>

LoopTurn ==
    /\ call.on # "none" /\ ReadsOn(call.on)
    /\ UNCHANGED <<hardware, call, opened, latest, begun, given, stamps>>

PictureGiven ==
    /\ call.on = "picture" /\ Received("picture")
    /\ call' = NoCall
    /\ UNCHANGED <<hardware, opened, latest, begun, stamps>>

EndGiven ==
    /\ call.on # "none" /\ Ended(call.on)
    /\ call' = NoCall
    /\ UNCHANGED <<reader, hardware, opened, latest, begun, given, stamps>>

\* CodecBridge::execute(): a hardware route that fails is tried once more.
PictureBad ==
    /\ call.on = "picture" /\ ReadsBad("picture")
    /\ call' = IF hardware /\ call.attempt = 1 THEN [call EXCEPT !.attempt = 2] ELSE NoCall
    /\ UNCHANGED <<hardware, opened, latest, begun, given, stamps>>

\* ---- the sound

OpenAudioStream ==
    /\ call = NoCall
    /\ opened' = TRUE /\ latest' = Absent
    /\ stamps' = <<>>
    /\ UNCHANGED <<reader, hardware, call, begun, given>>

NextAudioFrame ==
    /\ call = NoCall /\ opened
    /\ call' = [on |-> "sound", attempt |-> 1]
    /\ UNCHANGED <<reader, hardware, opened, latest, begun, given, stamps>>

\* A time that goes back is raised to the one before it.
Presentation(pts) == IF latest # Absent /\ pts < latest THEN latest ELSE pts

SoundGiven ==
    /\ call.on = "sound" /\ Received("sound")
    /\ latest' = Presentation(Packets[Head(reader["sound"].held)].pts)
    /\ stamps' = Append(stamps, latest')
    /\ call' = NoCall
    /\ UNCHANGED <<hardware, opened, begun>>

SoundBad ==
    /\ call.on = "sound" /\ ReadsBad("sound")
    /\ call' = NoCall
    /\ UNCHANGED <<hardware, opened, latest, begun, given, stamps>>

\* ---- seeking

\* AVSEEK_FLAG_BACKWARD: the last packet of the stream at or before ts that
\* decodes without others; none makes the seek fail.
Entry(s, ts) ==
    {n \in DOMAIN Packets : Packets[n].stream = s /\ Packets[n].key /\ Packets[n].pts <= ts}

\* The cursor moves and the decoder is flushed.
Restarted(s, n) ==
    /\ reader' = [reader EXCEPT ![s] = [next |-> n, held |-> <<>>, draining |-> FALSE]]
    /\ begun' = [begun EXCEPT ![s] = n] /\ given' = [given EXCEPT ![s] = <<>>]

LastOf(ns) == CHOOSE n \in ns : \A m \in ns : m <= n

Seek(ts) ==
    /\ call = NoCall /\ Entry("picture", ts) # {}
    /\ Restarted("picture", LastOf(Entry("picture", ts)))
    /\ UNCHANGED <<hardware, call, opened, latest, stamps>>

\* A seek begins a new run: the times may go back.
SeekAudio(ts) ==
    /\ call = NoCall /\ opened /\ Entry("sound", ts) # {}
    /\ Restarted("sound", LastOf(Entry("sound", ts)))
    /\ latest' = Absent /\ stamps' = <<>>
    /\ UNCHANGED <<hardware, call, opened>>

DecodingNext ==
    \/ NextFrame \/ LoopTurn \/ PictureGiven \/ EndGiven \/ PictureBad
    \/ OpenAudioStream \/ NextAudioFrame \/ SoundGiven \/ SoundBad
    \/ \E ts \in SeekPoints : Seek(ts) \/ SeekAudio(ts)

DecodingSpec == DecodingInit /\ [][DecodingNext]_decodingVars

----------------------------------------------------------------------------
DecodingTypeOK ==
    /\ \A s \in Streams :
        /\ reader[s].next \in 1 .. Len(Packets) + 1
        /\ reader[s].held \in Seq(DOMAIN Packets) /\ reader[s].draining \in BOOLEAN
    /\ call \in [on : Streams \cup {"none"}, attempt : 0 .. 2]
    /\ hardware \in BOOLEAN /\ opened \in BOOLEAN

Good(s, from, upto) == {n \in from .. upto - 1 : Packets[n].stream = s /\ ~Packets[n].bad}

\* These packets, once each and in the file's order.
InTurn(packets, wanted) ==
    /\ ToSet(packets) = wanted
    /\ \A i, j \in DOMAIN packets : i < j => packets[i] < packets[j]

(* Since its last seek a stream gave out, in the file's order and once     *)
(* each, what it read and does not hold back: calls on the other stream,   *)
(* bad packets, retries and the end of the file in between lose none.      *)
EveryPacketInTurn ==
    \A s \in Streams : InTurn(given[s] \o reader[s].held, Good(s, begun[s], reader[s].next))

(* Sound is presented in order although the file's times go back; a time   *)
(* is raised to one that the file has, so it is never later than the sound *)
(* of this run that was stamped latest.                                    *)
SoundInOrder ==
    /\ \A i \in 1 .. Len(stamps) - 1 : stamps[i] <= stamps[i + 1]
    /\ \A i \in DOMAIN stamps :
        \E n \in ToSet(given["sound"]) : Packets[n].pts = stamps[i]

(* What the decoder promises of the two streams of a file.                 *)
DecodingSound == EveryPacketInTurn /\ SoundInOrder
=============================================================================
