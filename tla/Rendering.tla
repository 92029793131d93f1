----------------------------- MODULE Rendering -----------------------------
(***************************************************************************)
(* gpu/Compositor::renderAt() over the FramePool it draws into and the     *)
(* table cache of its LUT effects.  Each renderer is a caller on a thread  *)
(* of its own, the preview, the capture tool or an export; it holds a      *)
(* picture until it has shown, written or encoded it.  A picture is the    *)
(* sequence of layers drawn into it; pixels are left out, and so are the   *)
(* refusals before a frame is taken (no size, another format, no provider  *)
(* or rasterizer installed), which touch nothing.                          *)
(***************************************************************************)
EXTENDS Integers, Sequences, FiniteSets, SequencesExt

CONSTANTS
    Renderers,      \* callers of renderAt()
    Tracks,         \* the project: sequence of [kind, muted, clips], a clip is
                    \* [start, end, lut]
    Positions,      \* bound: timeline positions rendered
    Descs,          \* frame sizes asked for
    Bytes,          \* their size in memory
    Budget,         \* budgetBytes_
    LutFiles,       \* `.cube` paths effects refer to
    NoLut           \* an effect without a file, or a clip without the effect

ASSUME RenderingAssumption ==
    /\ IsFiniteSet(Renderers)
    /\ Tracks \in Seq([kind : {"video", "text", "caption", "audio"}, muted : BOOLEAN,
                       clips : Seq([start : Nat, end : Nat, lut : LutFiles \cup {NoLut}])])
    /\ IsFiniteSet(Descs) /\ Bytes \in [Descs -> Nat \ {0}] /\ Budget \in Nat
    /\ Positions \subseteq Nat /\ NoLut \notin LutFiles

VARIABLES
    free,       \* free_, the longest unused first
    leased,     \* the frame each renderer holds: <<>> or its size
    reserved,   \* reservedBytes_
    inUse,      \* inUseBytes_
    stage,      \* what each renderer is doing
    layers,     \* the layers it has to draw
    drawn,      \* how many of them it has drawn
    luts,       \* the cache: what each path was found to be
    reads       \* files read

renderVars == <<free, leased, reserved, inUse, stage, layers, drawn, luts, reads>>

RenderInit ==
    /\ free = <<>> /\ leased = [r \in Renderers |-> <<>>]
    /\ reserved = 0 /\ inUse = 0
    /\ stage = [r \in Renderers |-> "idle"]
    /\ layers = [r \in Renderers |-> <<>>] /\ drawn = [r \in Renderers |-> 0]
    /\ luts = [f \in LutFiles |-> "unread"] /\ reads = [f \in LutFiles |-> 0]

Total(frames) == FoldSeq(LAMBDA d, n : n + Bytes[d], 0, frames)

\* ---- the layers under a position

Covers(clip, position) == position >= clip.start /\ position < clip.end

\* The clips of a track that cover the position, in their order.
Under(track, position) ==
    FoldLeftDomain(LAMBDA found, c : IF Covers(Tracks[track].clips[c], position)
                                     THEN Append(found, [track |-> track, clip |-> c])
                                     ELSE found,
                   <<>>, Tracks[track].clips)

\* Every clip of a picture track, the first of a text or a caption track.
LayersOf(track, position) ==
    LET under == Under(track, position)
    IN IF Tracks[track].muted \/ Tracks[track].kind = "audio" THEN <<>>
       ELSE IF Tracks[track].kind = "video" THEN under
       ELSE SubSeq(under, 1, IF under = <<>> THEN 0 ELSE 1)

OfKind(kind, position) ==
    FoldLeftDomain(LAMBDA found, t : IF Tracks[t].kind = kind THEN found \o LayersOf(t, position) ELSE found,
                   <<>>, Tracks)

\* The sort is stable: a layer comes after those of its track before it.
InsertByTrack(sorted, layer) ==
    InsertAt(sorted, 1 + Cardinality({i \in DOMAIN sorted : sorted[i].track <= layer.track}), layer)

\* Gathered kind by kind, then sorted by track.
Gather(position) ==
    FoldLeft(InsertByTrack, <<>>,
             OfKind("video", position) \o OfKind("text", position) \o OfKind("caption", position))

\* ---- the pool

\* reclaimFreeUpTo(): the number of unused frames, oldest first, that must
\* go before need more bytes fit; all of them when that does not suffice.
Reclaimed(need) ==
    LET enough == {n \in 0 .. Len(free) : reserved - Total(SubSeq(free, 1, n)) + need <= Budget}
    IN IF enough = {} THEN Len(free) ELSE CHOOSE n \in enough : \A m \in enough : n <= m

\* acquire(): an unused frame of the same size, else a new one within budget.
Acquire(r, d) ==
    LET kept == SubSeq(free, Reclaimed(Bytes[d]) + 1, Len(free))
        left == Total(free) - Total(kept)
    IN IF d \in ToSet(free)
          THEN /\ free' = RemoveFirst(free, d)
               /\ leased' = [leased EXCEPT ![r] = <<d>>]
               /\ inUse' = inUse + Bytes[d]
               /\ UNCHANGED reserved
          ELSE /\ free' = kept
               /\ IF reserved - left + Bytes[d] <= Budget
                     THEN /\ leased' = [leased EXCEPT ![r] = <<d>>]
                          /\ reserved' = reserved - left + Bytes[d]
                          /\ inUse' = inUse + Bytes[d]
                     ELSE reserved' = reserved - left /\ UNCHANGED <<leased, inUse>>

Acquired(r) == leased'[r] # <<>>

\* releaseFrame(): the frame waits to be used again.
GiveBack(r) ==
    /\ free' = free \o leased[r]
    /\ inUse' = inUse - Total(leased[r])
    /\ leased' = [leased EXCEPT ![r] = <<>>]
    /\ UNCHANGED reserved

\* ---- renderAt()

RenderBegins(r, d) ==
    /\ stage[r] = "idle"
    /\ Acquire(r, d)
    /\ \E position \in Positions :
        IF Acquired(r)
           THEN /\ stage' = [stage EXCEPT ![r] = "drawing"]
                /\ layers' = [layers EXCEPT ![r] = Gather(position)]
                /\ drawn' = [drawn EXCEPT ![r] = 0]
           ELSE UNCHANGED <<stage, layers, drawn>>
    /\ UNCHANGED <<luts, reads>>

\* lookup(): a path is read once, and a failure is an answer too.
LutFor(path) ==
    IF path = NoLut \/ luts[path] # "unread"
       THEN UNCHANGED <<luts, reads>>
       ELSE /\ reads' = [reads EXCEPT ![path] = @ + 1]
            /\ \E found \in {"table", "failed"} : luts' = [luts EXCEPT ![path] = found]

Upcoming(r) == layers[r][drawn[r] + 1]

DrawLayer(r) ==
    /\ stage[r] = "drawing" /\ drawn[r] < Len(layers[r])
    /\ drawn' = [drawn EXCEPT ![r] = @ + 1]
    /\ LutFor(Tracks[Upcoming(r).track].clips[Upcoming(r).clip].lut)
    /\ UNCHANGED <<free, leased, reserved, inUse, stage, layers>>

Goes(r, to) ==
    /\ stage' = [stage EXCEPT ![r] = to]
    /\ layers' = [layers EXCEPT ![r] = <<>>] /\ drawn' = [drawn EXCEPT ![r] = 0]

\* Slip that the checks catch: the frame of the failed picture is not given back.
LayerFailsHolding(r) ==
    /\ stage[r] = "drawing" /\ drawn[r] < Len(layers[r])
    /\ Goes(r, "idle")
    /\ UNCHANGED <<free, leased, reserved, inUse, luts, reads>>

\* The provider or the rasterizer fails: the frame goes back to the pool.
LayerFails(r) ==
    /\ stage[r] = "drawing" /\ drawn[r] < Len(layers[r])
    /\ GiveBack(r)
    /\ Goes(r, "idle")
    /\ UNCHANGED <<luts, reads>>

RenderEnds(r) ==
    /\ stage[r] = "drawing" /\ drawn[r] = Len(layers[r])
    /\ Goes(r, "rendered")
    /\ UNCHANGED <<free, leased, reserved, inUse, luts, reads>>

\* The caller is done with the picture: its lease ends.
PictureUsed(r) ==
    /\ stage[r] = "rendered"
    /\ GiveBack(r) /\ Goes(r, "idle")
    /\ UNCHANGED <<luts, reads>>

RenderNext ==
    \E r \in Renderers :
        \/ \E d \in Descs : RenderBegins(r, d)
        \/ DrawLayer(r) \/ LayerFails(r) \/ RenderEnds(r) \/ PictureUsed(r)

RenderSpec == RenderInit /\ [][RenderNext]_renderVars

----------------------------------------------------------------------------
RenderTypeOK ==
    /\ free \in Seq(Descs) /\ leased \in [Renderers -> Seq(Descs)]
    /\ reserved \in Nat /\ inUse \in Nat
    /\ stage \in [Renderers -> {"idle", "drawing", "rendered"}]
    /\ luts \in [LutFiles -> {"unread", "table", "failed"}]
    /\ reads \in [LutFiles -> Nat]

HeldBytes(r) == Total(leased[r])

(* The pool's figures are true after any mix of reuse, reclaiming, failed  *)
(* pictures and given-back frames, and memory stays within the budget.     *)
PoolAccounts ==
    /\ inUse = FoldSet(LAMBDA r, n : n + HeldBytes(r), 0, Renderers)
    /\ reserved = inUse + Total(free)
    /\ reserved <= Budget

(* A picture that failed, or that its caller has used, leaves no frame     *)
(* behind.                                                                 *)
NothingLeaks == \A r \in Renderers : leased[r] = <<>> <=> stage[r] = "idle"

(* No layer is drawn twice, and those of a higher track are drawn after    *)
(* those of a lower, whatever their kind (Compositor::renderAt's merge).   *)
BottomToTop ==
    \A r \in Renderers : stage[r] = "drawing" =>
        /\ \A i, j \in DOMAIN layers[r] :
            i < j => \/ layers[r][i].track < layers[r][j].track
                     \/ layers[r][i].track = layers[r][j].track /\ layers[r][i].clip < layers[r][j].clip
        /\ Cardinality(ToSet(layers[r])) = Len(layers[r])

(* A missing LUT file is looked for once, not once for every picture.      *)
LutReadOnce == \A f \in LutFiles : reads[f] <= 1 /\ (reads[f] = 0 <=> luts[f] = "unread")

(* What a rendered picture promises: its layers in order, its memory       *)
(* accounted for and given back, its LUT files read once.                  *)
RenderingSound == PoolAccounts /\ NothingLeaks /\ BottomToTop /\ LutReadOnce
=============================================================================
