---------------------------- MODULE MCMediaParts ----------------------------
(***************************************************************************)
(* One run for parts of the media side that share no state: the teardown   *)
(* queue, the envelope service, the audio mixer, the compositor over its   *)
(* pool, an export's encoder, the decoder of a file, the sound device, the *)
(* import of a file.  A behaviour is one of one part; the others rest in   *)
(* their initial states.                                                   *)
(***************************************************************************)
EXTENDS DecoderTeardownQueue, PeakEnvelopes, AudioMixing, Rendering, Encoding,
        Decoding, AudioSinks, ImportCalls

CONSTANTS o1, o2, o3, c1, c2, a1, a2, a3, w1, w2, r1, r2, small, large, look, missing,
          ui, endpoint, f1

VARIABLE part

mcVars == <<part, teardownVars, envelopeVars, mixVars, renderVars, encodingVars, decodingVars,
            sinkVars, importCallVars>>

MCClips == <<[asset |-> a1, start |-> 0, end |-> 6, in |-> 3],
             [asset |-> a2, start |-> 1, end |-> 7, in |-> 0],
             [asset |-> a3, start |-> 2, end |-> 5, in |-> 1],
             [asset |-> a1, start |-> 3, end |-> 8, in |-> 12]>>
MCLengths == [a \in {a1, a2, a3} |-> IF a = a1 THEN 16 ELSE IF a = a2 THEN 5 ELSE 0]

Shot(start, end, lut) == [start |-> start, end |-> end, lut |-> lut]
MCTracks == <<[kind |-> "video", muted |-> FALSE, clips |-> <<Shot(0, 3, look), Shot(2, 6, missing)>>],
              [kind |-> "caption", muted |-> FALSE, clips |-> <<Shot(2, 4, NoLut), Shot(2, 5, NoLut)>>],
              [kind |-> "video", muted |-> FALSE, clips |-> <<Shot(2, 4, look)>>],
              [kind |-> "text", muted |-> TRUE, clips |-> <<Shot(0, 6, NoLut)>>],
              [kind |-> "audio", muted |-> FALSE, clips |-> <<Shot(0, 6, NoLut)>>]>>
MCBytes == [d \in {small, large} |-> IF d = small THEN 2 ELSE 3]

\* Times in units of 10 ns: 29.97 and 24 pictures, 48000 samples per second.
MCFrameRates == {<<30, 1001>>, <<24, 1000>>}
MCRequest == [rate |-> <<30, 1001>>, total |-> 1, audio |-> TRUE, hardware |-> TRUE, routed |-> TRUE]

Packet(kindOf, pts, bad) ==
    [stream |-> kindOf, pts |-> pts, key |-> kindOf = "sound" \/ pts # 1, bad |-> bad]
MCPackets == <<Packet("picture", 0, FALSE), Packet("sound", 0, FALSE), Packet("picture", 1, TRUE),
               Packet("sound", 3, FALSE), Packet("sound", 1, FALSE), Packet("picture", 1, FALSE),
               Packet("picture", 2, FALSE), Packet("sound", 4, TRUE)>>

\* Two spellings of one location.
MCSpellings  == 1..2
MCLocationOf == [s \in MCSpellings |-> f1]

MCInit ==
    /\ part \in {"teardown", "envelopes", "mixing", "rendering", "encoding", "decoding", "sinks", "importing"}
    /\ TeardownInit /\ EnvelopeInit /\ MixInit /\ RenderInit /\ EncodingInit /\ DecodingInit /\ SinkInit
    /\ ImportCallsInit
    /\ part # "decoding" => ~hardware
    /\ part # "importing" => onDisk = [l \in Locations |-> "media"]
    /\ part # "encoding" => request = MCRequest /\ output = "none"

MCNext ==
    /\ UNCHANGED part
    /\ IF part = "teardown" THEN TeardownNext ELSE UNCHANGED teardownVars
    /\ IF part = "envelopes" THEN EnvelopeNext ELSE UNCHANGED envelopeVars
    /\ IF part = "mixing" THEN MixNext ELSE UNCHANGED mixVars
    /\ IF part = "rendering" THEN RenderNext ELSE UNCHANGED renderVars
    /\ IF part = "encoding" THEN EncodingNext ELSE UNCHANGED encodingVars
    /\ IF part = "decoding" THEN DecodingNext ELSE UNCHANGED decodingVars
    /\ IF part = "sinks" THEN SinkNext ELSE UNCHANGED sinkVars
    /\ IF part = "importing" THEN ImportCallsNext ELSE UNCHANGED importCallVars

\* The fairness of each part, when it is the part that runs.
MCSpec ==
    /\ MCInit /\ [][MCNext]_mcVars
    /\ WF_teardownVars(part = "teardown" /\ WorkerStep)
    /\ WF_teardownVars(part = "teardown" /\ ShutdownReturns)
    /\ \A c \in Callers : WF_teardownVars(part = "teardown" /\ CallerStep(c))
    /\ \A w \in Extractors : WF_envelopeVars(part = "envelopes" /\ ExtractorStep(w))
    /\ WF_envelopeVars(part = "envelopes" /\ ViewStep)
    /\ WF_envelopeVars(part = "envelopes" /\ Closed)
    /\ WF_sinkVars(part = "sinks" /\ SinkCall)
    /\ \A c \in Importers :
         WF_importCallVars(part = "importing" /\ (TimesOut(c) \/ RejectedCall(c) \/ Accepted(c)))

PartsTypeOK ==
    /\ TeardownTypeOK /\ EnvelopeTypeOK /\ MixTypeOK /\ SinkTypeOK
    /\ RenderTypeOK /\ EncodingTypeOK /\ DecodingTypeOK /\ ImportCallsTypeOK

(* What is shown and heard: pictures composed in order from frames that    *)
(* are accounted for, no more decoders of sound than the cache may hold,   *)
(* and a device whose clock and frames are those that were submitted.      *)
OutputSound == RenderingSound /\ SinksSound /\ ResidentDecoders

(* What goes into a file, what is taken out of one, and what the library   *)
(* lists for one.                                                          *)
FilesSound == EncodingSound /\ DecodingSound /\ ImportCallsSound

(* Every part that has to come to rest does.                               *)
PartsSettle == TeardownEnds /\ EnvelopesSettle /\ SinkCallsReturn /\ ImportsReturn
=============================================================================
