---------------------------- MODULE AudioMixing ----------------------------
(***************************************************************************)
(* media/AudioEngine: the windows it mixes from the clips of a project and *)
(* the decoders it keeps for them.  Time is counted in frames of one rate; *)
(* a sample is the position in its source that it was decoded from, so a   *)
(* window shows which sample of which clip lands where.  Gain, resampling, *)
(* and the sum of the clips are left out.                                  *)
(***************************************************************************)
EXTENDS Integers, Sequences, FiniteSets, SequencesExt

CONSTANTS
    SoundAssets,    \* assets audio clips refer to
    MixClips,       \* sequence of clips on unmuted audio tracks, in track order:
                    \* [asset, start, end, in]
    Lengths,        \* frames of sound in each asset, 0 where it has no sound
    Block,          \* frames in a decoded block; seeks land at the start of one
    Quantum,        \* frames in a window
    Tolerance,      \* options_.seekTolerance
    Residents,      \* options_.decoderCacheCapacity
    Horizon         \* bound: positions windows start at

ASSUME MixAssumption ==
    /\ IsFiniteSet(SoundAssets)
    /\ MixClips \in Seq([asset : SoundAssets, start : Nat, end : Nat, in : Nat])
    /\ \A c \in DOMAIN MixClips : MixClips[c].start <= MixClips[c].end
    /\ Lengths \in [SoundAssets -> Nat]
    /\ Block \in Nat \ {0} /\ Quantum \in Nat \ {0}
    /\ Tolerance \in Nat /\ Residents \in Nat \ {0} /\ Horizon \in Nat

VARIABLES
    lru,        \* lru_: assets with a decoder, most recently used first
    slot,       \* assets_: where each asset's decoder is
    running,    \* running_
    cursor,     \* startFrom_ + mixedFrames_
    exportAt,   \* where the next window of an export begins
    users,      \* who mixed with the decoders since the last start()
    silenced,   \* failedClips_, as indices of MixClips
    live,       \* decoders opened and not yet handed to the teardown queue
    window,     \* where the last window began (lastQuantum_)
    heard       \* for each clip the positions of its samples in that window

mixVars == <<lru, slot, running, cursor, exportAt, users, silenced, live, window, heard>>

Silence == -1

\* no window since start()
Nowhere == -1

ClipIds == DOMAIN MixClips

NoSound == [i \in 0 .. Quantum - 1 |-> Silence]

\* ahead is the first block not yet used up: pending, or the next to decode.
Unpositioned == [positioned |-> FALSE, cursor |-> 0, ahead |-> 0]

MixInit ==
    /\ lru = <<>> /\ slot = [a \in SoundAssets |-> Unpositioned]
    /\ running = FALSE /\ cursor = 0 /\ exportAt = 0 /\ users = {}
    /\ silenced = {} /\ live = 0
    /\ window = Nowhere /\ heard = [c \in ClipIds |-> NoSound]

MaxOf(i, j) == IF i > j THEN i ELSE j
MinOf(i, j) == IF i < j THEN i ELSE j
Distance(i, j) == IF i > j THEN i - j ELSE j - i

\* Slips that the checks catch: a decoder that never seeks twice, decoders
\* that are dropped without being handed over.
SeeksOnce(entry, from) == ~entry.positioned

\* ensureAsset() on the decoders st: the asset moves to the front, and the
\* least recently used one goes when there are too many.
EnsureAsset(st, a) ==
    IF a \in ToSet(st.lru)
       THEN [st EXCEPT !.lru = <<a>> \o RemoveFirst(st.lru, a)]
       ELSE LET grown == <<a>> \o st.lru
                kept  == SubSeq(grown, 1, MinOf(Len(grown), Residents))
            IN [st EXCEPT !.lru = kept,
                          !.live = st.live + 1 - (Len(grown) - Len(kept)),
                          !.slot[a] = Unpositioned]

\* A decoder goes on from where it is unless the request is elsewhere.
Seeks(entry, from) == ~entry.positioned \/ Distance(from, entry.cursor) > Tolerance

Sought(entry, from) ==
    IF Seeks(entry, from)
       THEN [positioned |-> TRUE, cursor |-> from, ahead |-> Block * (from \div Block)]
       ELSE entry

\* The block that reaches past the window stays for the next one.
Filled(entry, from, to) ==
    [entry EXCEPT !.cursor = to,
                  !.ahead = IF entry.ahead >= to THEN entry.ahead
                            ELSE entry.ahead + Block * ((to - entry.ahead) \div Block)]

\* The samples of clip c that a decoder at entry gives to a window, those
\* before the position until that could still be decoded.
Samples(c, entry, from, until) ==
    LET clip == MixClips[c] IN
    [i \in 0 .. Quantum - 1 |->
        LET p == clip.in + from + i - clip.start IN
        IF /\ from + i >= clip.start /\ from + i < clip.end
           /\ p >= entry.ahead /\ p < Lengths[clip.asset] /\ p < until
        THEN p ELSE Silence]

Fails(st, c) == [st EXCEPT !.silenced = st.silenced \cup {c}]

\* fillFromSource(): a failing seek leaves the decoder as it was; a failing
\* decode keeps what came before it, and the cursor where it was.
FillFromSource(st, c, from, fault) ==
    LET clip    == MixClips[c]
        srcFrom == clip.in + MaxOf(from, clip.start) - clip.start
        srcTo   == clip.in + MinOf(from + Quantum, clip.end) - clip.start
        entry   == Sought(st.slot[clip.asset], srcFrom)
        broken  == entry.ahead + Block
    IN CASE fault = "seek" /\ Seeks(st.slot[clip.asset], srcFrom) -> Fails(st, c)
         [] fault = "decode" /\ broken < srcTo ->
              [Fails(st, c) EXCEPT !.slot[clip.asset] = [entry EXCEPT !.ahead = broken],
                                   !.heard[c] = Samples(c, entry, from, broken)]
         [] OTHER ->
              [st EXCEPT !.slot[clip.asset] = Filled(entry, srcFrom, srcTo),
                         !.heard[c] = Samples(c, entry, from, Lengths[clip.asset])]

\* One clip of mixWindow(): not in the window, failed before, its decoder
\* refused, without sound, or filled.
Contribute(st, c, from, fault) ==
    LET clip  == MixClips[c]
        ready == EnsureAsset(st, clip.asset)
    IN CASE clip.end <= from \/ clip.start >= from + Quantum \/ c \in st.silenced -> st
         [] fault = "open" /\ clip.asset \notin ToSet(st.lru) -> Fails(st, c)
         [] Lengths[clip.asset] = 0 -> ready
         [] OTHER -> FillFromSource(ready, c, from, fault)

\* The clips in track order, clip bad[1] meeting the fault bad[2].
Mixed(st, from, bad) ==
    FoldLeftDomain(LAMBDA s, c : Contribute(s, c, from, IF c = bad[1] THEN bad[2] ELSE "none"),
                   st, MixClips)

\* A window with at most one clip that meets a fault.
MixWindow(from) ==
    \E bad \in {<<0, "none">>} \cup (ClipIds \X {"open", "seek", "decode"}) :
        LET mixed == Mixed([lru |-> lru, slot |-> slot, silenced |-> silenced, live |-> live,
                            heard |-> [c \in ClipIds |-> NoSound]], from, bad)
        IN /\ lru' = mixed.lru /\ slot' = mixed.slot
           /\ silenced' = mixed.silenced /\ live' = mixed.live
           /\ heard' = mixed.heard
           /\ window' = from

Start ==
    /\ ~running
    /\ running' = TRUE
    /\ cursor' \in 0 .. Horizon
    /\ silenced' = {}
    /\ slot' = [a \in SoundAssets |-> Unpositioned]
    /\ heard' = [c \in ClipIds |-> NoSound]
    /\ window' = Nowhere /\ users' = {}
    /\ UNCHANGED <<lru, live, exportAt>>

Stop ==
    /\ running
    /\ running' = FALSE
    /\ lru' = <<>> /\ live' = live - Len(lru)
    /\ UNCHANGED <<slot, cursor, exportAt, users, silenced, window, heard>>

\* pump(); the sink is modelled in Playback.
PumpQuantum ==
    /\ running /\ cursor <= Horizon
    /\ MixWindow(cursor)
    /\ cursor' = cursor + Quantum /\ users' = users \cup {"playback"}
    /\ UNCHANGED <<running, exportAt>>

\* renderRange(): the composed engine serves the export's worker too, one frame
\* interval after the other, between the windows of playback.
RenderRange ==
    /\ MixWindow(exportAt)
    /\ exportAt' = IF exportAt + Quantum > Horizon THEN 0 ELSE exportAt + Quantum
    /\ users' = users \cup {"export"}
    /\ UNCHANGED <<running, cursor>>

MixNext == Start \/ Stop \/ PumpQuantum \/ RenderRange

MixSpec == MixInit /\ [][MixNext]_mixVars

----------------------------------------------------------------------------
MixTypeOK ==
    /\ lru \in Seq(SoundAssets)
    /\ slot \in [SoundAssets -> [positioned : BOOLEAN, cursor : Nat, ahead : Nat]]
    /\ running \in BOOLEAN /\ cursor \in Nat /\ exportAt \in 0 .. Horizon
    /\ users \subseteq {"playback", "export"}
    /\ silenced \subseteq ClipIds /\ live \in Nat /\ window \in Nat \cup {Nowhere}
    /\ heard \in [ClipIds -> [0 .. Quantum - 1 -> Nat \cup {Silence}]]

\* What clip c should give to frame i of the last window.
Due(c, i) ==
    LET clip == MixClips[c]
        t    == window + i
        p    == clip.in + t - clip.start
    IN IF t >= clip.start /\ t < clip.end /\ p < Lengths[clip.asset] THEN p ELSE Silence

WindowExact(c) == \A i \in 0 .. Quantum - 1 : heard[c][i] = Due(c, i)

(* Every sample heard is the right one, and none is missing: whatever      *)
(* windows, seeks, evictions and failures of other clips came before, a    *)
(* clip that has not failed gives each frame of the window under it the    *)
(* sample at that place of its source, silence only past the source's end. *)
(* Where playback and an export took turns on the decoders, samples within *)
(* the seek tolerance of the window's first may be missing.                *)
MixIsExact ==
    window # Nowhere => \A c \in ClipIds, i \in 0 .. Quantum - 1 :
        \/ heard[c][i] = Due(c, i)
        \/ /\ heard[c][i] = Silence
           /\ \/ c \in silenced
              \/ /\ Cardinality(users) = 2
                 /\ window + i < MaxOf(window, MixClips[c].start) + Tolerance

(* "nothing constructed above is shared with it and no export can perturb  *)
(* playback": a clip that has not failed is heard in full in every window, *)
(* exporting or not.                                                       *)
ExportsApart ==
    window # Nowhere => \A c \in ClipIds : c \in silenced \/ WindowExact(c)

(* Each decoder is resident or was handed to the teardown queue, once, and *)
(* no more stay than the cache may hold, with distinct assets.             *)
ResidentDecoders ==
    /\ live = Len(lru) /\ Len(lru) <= Residents
    /\ Cardinality(ToSet(lru)) = Len(lru)
=============================================================================
