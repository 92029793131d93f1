--------------------------- MODULE PeakEnvelopes ---------------------------
(***************************************************************************)
(* media/PeakEnvelopeService with its PeakEnvelopeCache, and the timeline  *)
(* view that draws waveforms from it.  A paint looks every clip's asset up *)
(* without waiting; an asset that is not cached is extracted by a worker,  *)
(* whose callback asks for another paint.  An action is one critical       *)
(* section of the service's mutex, or what runs between two of them.       *)
(***************************************************************************)
EXTENDS Naturals, Sequences, FiniteSets, SequencesExt

CONSTANTS
    Assets,         \* assets with sound
    Extractors,     \* the service's worker threads
    NoAsset,
    EnvelopeCapacity,   \* options_.cacheCapacity
    MaxScrolls      \* bound: how often the user changes what is painted

ASSUME EnvelopeAssumption ==
    /\ IsFiniteSet(Assets) /\ NoAsset \notin Assets /\ IsFiniteSet(Extractors)
    /\ EnvelopeCapacity \in Nat \ {0} /\ MaxScrolls \in Nat

VARIABLES
    jobs,           \* jobs_
    inFlight,       \* inFlight_
    closing,        \* stopping_
    doing,          \* what each worker is doing
    job,            \* the asset each worker extracts or reports
    waiting,        \* workers asleep on jobsAvailable_
    recency,        \* the cache, most recently used first
    failed,         \* the cached assets whose extraction failed
    scene,          \* the assets of the clips the view shows
    toPaint,        \* those the current paint has still to look up
    dirty,          \* update() was called: another paint is due
    scrolls,        \* bounds the user
    closer          \* the thread in shutdown()

envelopeVars == <<jobs, inFlight, closing, doing, job, waiting, recency, failed,
                  scene, toPaint, dirty, scrolls, closer>>

service == <<jobs, inFlight, doing, job, waiting, recency, failed>>
view == <<scene, toPaint, dirty, scrolls>>

EnvelopeInit ==
    /\ jobs = <<>> /\ inFlight = {} /\ closing = FALSE
    /\ doing = [w \in Extractors |-> "waiting"]
    /\ job = [w \in Extractors |-> NoAsset]
    /\ waiting = {}
    /\ recency = <<>> /\ failed = {}
    /\ scene = {} /\ toPaint = {} /\ dirty = FALSE
    /\ scrolls = 0
    /\ closer = "open"

Cached == ToSet(recency)

Extracting == {job[w] : w \in {v \in Extractors : doing[v] = "extracting"}}

Becomes(w, place) == doing' = [doing EXCEPT ![w] = place]

\* notify_one() wakes one of the threads asleep, if any.
WakeOne ==
    IF waiting = {} THEN UNCHANGED waiting
    ELSE \E w \in waiting : waiting' = waiting \ {w}

\* Slips that the checks catch: one entry too many, and a failure tried again.
EvictedLate(order) ==
    IF Len(order) > EnvelopeCapacity + 1 THEN SubSeq(order, 1, EnvelopeCapacity) ELSE order

LookupRetries(a) ==
    /\ a \in toPaint
    /\ toPaint' = toPaint \ {a}
    /\ IF a \in ToSet(recency) \ failed
          THEN recency' = <<a>> \o RemoveFirst(recency, a) /\ UNCHANGED <<jobs, inFlight, waiting>>
          ELSE /\ UNCHANGED recency
               /\ IF closing \/ a \in inFlight
                  THEN UNCHANGED <<jobs, inFlight, waiting>>
                  ELSE inFlight' = inFlight \cup {a} /\ jobs' = Append(jobs, a) /\ WakeOne
    /\ UNCHANGED <<closing, doing, job, failed, scene, dirty, scrolls, closer>>

\* touch(), and the insertion of store() and storeFailure()
Touched(a) == <<a>> \o RemoveFirst(recency, a)

\* evictToCapacity()
Evicted(order) == SubSeq(order, 1, IF Len(order) > EnvelopeCapacity THEN EnvelopeCapacity ELSE Len(order))

\* A miss: one job for the asset however often it is asked for.
Schedule(a) ==
    IF closing \/ a \in inFlight
       THEN UNCHANGED <<jobs, inFlight, waiting>>
       ELSE inFlight' = inFlight \cup {a} /\ jobs' = Append(jobs, a) /\ WakeOne

\* lookup(), from a paint
Lookup(a) ==
    /\ a \in toPaint
    /\ toPaint' = toPaint \ {a}
    /\ IF a \in Cached
          THEN recency' = Touched(a) /\ UNCHANGED <<jobs, inFlight, waiting>>
          ELSE Schedule(a) /\ UNCHANGED recency
    /\ UNCHANGED <<closing, doing, job, failed, scene, dirty, scrolls, closer>>

\* The view paints every clip once for any number of update() calls.
Paint ==
    /\ dirty /\ toPaint = {}
    /\ dirty' = FALSE /\ toPaint' = scene
    /\ UNCHANGED <<service, closing, scene, scrolls, closer>>

Scroll ==
    /\ scrolls < MaxScrolls /\ closer = "open"
    /\ \E shown \in SUBSET Assets :
        Cardinality(shown) <= EnvelopeCapacity /\ scene' = shown
    /\ dirty' = TRUE
    /\ scrolls' = scrolls + 1
    /\ UNCHANGED <<service, closing, toPaint, closer>>

WorkerWaits(w) ==
    /\ doing[w] = "waiting" /\ w \notin waiting
    /\ jobs = <<>> /\ ~closing
    /\ waiting' = waiting \cup {w}
    /\ UNCHANGED <<jobs, inFlight, doing, job, recency, failed, closing, view, closer>>

WorkerStarts(w) ==
    /\ doing[w] = "waiting" /\ w \notin waiting
    /\ jobs # <<>> /\ ~closing
    /\ job' = [job EXCEPT ![w] = Head(jobs)]
    /\ jobs' = Tail(jobs)
    /\ Becomes(w, "extracting")
    /\ UNCHANGED <<inFlight, waiting, recency, failed, closing, view, closer>>

\* extractPeakEnvelope() has ended: an envelope, silence, or a failure that
\* is remembered so that the next paint does not try again.
WorkerStores(w) ==
    /\ doing[w] = "extracting"
    /\ recency' = Evicted(Touched(job[w]))
    /\ \E ok \in BOOLEAN :
        failed' = (IF ok THEN failed \ {job[w]} ELSE failed \cup {job[w]}) \cap ToSet(recency')
    /\ inFlight' = inFlight \ {job[w]}
    /\ Becomes(w, "reporting")
    /\ UNCHANGED <<jobs, job, waiting, closing, view, closer>>

\* The callback posts a paint to the window's thread.
WorkerReports(w) ==
    /\ doing[w] = "reporting"
    /\ dirty' = TRUE
    /\ job' = [job EXCEPT ![w] = NoAsset]
    /\ Becomes(w, "waiting")
    /\ UNCHANGED <<jobs, inFlight, waiting, recency, failed, closing, scene, toPaint, scrolls, closer>>

ExtractorEnds(w) ==
    /\ doing[w] = "waiting" /\ w \notin waiting
    /\ closing
    /\ Becomes(w, "ended")
    /\ UNCHANGED <<jobs, inFlight, job, waiting, recency, failed, closing, view, closer>>

\* shutdown(): work that has not begun is dropped, work that has is awaited.
CloseService ==
    /\ closer = "open"
    /\ closing' = TRUE
    /\ jobs' = <<>> /\ inFlight' = {}
    /\ waiting' = {}
    /\ closer' = "joining"
    /\ UNCHANGED <<doing, job, recency, failed, view>>

Closed ==
    /\ closer = "joining"
    /\ \A w \in Extractors : doing[w] = "ended"
    /\ closer' = "closed"
    /\ UNCHANGED <<service, closing, view>>

ExtractorStep(w) ==
    WorkerWaits(w) \/ WorkerStarts(w) \/ WorkerStores(w) \/ WorkerReports(w) \/ ExtractorEnds(w)

ViewStep == Paint \/ \E a \in Assets : Lookup(a)

EnvelopeNext ==
    \/ \E w \in Extractors : ExtractorStep(w)
    \/ ViewStep \/ Scroll \/ CloseService \/ Closed

\* Extractions end (their limits see to it), the window's loop turns.
EnvelopeFairness ==
    /\ \A w \in Extractors : WF_envelopeVars(ExtractorStep(w))
    /\ WF_envelopeVars(ViewStep) /\ WF_envelopeVars(Closed)

EnvelopeSpec == EnvelopeInit /\ [][EnvelopeNext]_envelopeVars /\ EnvelopeFairness

----------------------------------------------------------------------------
EnvelopeTypeOK ==
    /\ jobs \in Seq(Assets) /\ inFlight \subseteq Assets
    /\ closing \in BOOLEAN
    /\ doing \in [Extractors -> {"waiting", "extracting", "reporting", "ended"}]
    /\ job \in [Extractors -> Assets \cup {NoAsset}]
    /\ waiting \subseteq Extractors
    /\ recency \in Seq(Assets) /\ Len(recency) <= EnvelopeCapacity
    /\ failed \subseteq Cached
    /\ scene \subseteq Assets /\ toPaint \subseteq Assets
    /\ dirty \in BOOLEAN
    /\ scrolls \in 0 .. MaxScrolls
    /\ closer \in {"open", "joining", "closed"}

(* An asset is decoded by one worker at a time and queued once, however    *)
(* many clips show it and however often they are painted, and an asset     *)
(* called pending is one somebody works on: until shutdown, what is in     *)
(* flight is what is queued or being extracted, each once.                 *)
PendingIsWorkedOn ==
    /\ ~closing => inFlight = ToSet(jobs) \cup Extracting
    /\ Cardinality(ToSet(jobs) \cup Extracting)
         = Len(jobs) + Cardinality({w \in Extractors : doing[w] = "extracting"})

(* A cached answer is final: an asset in the cache is not decoded again,   *)
(* so a failed one costs one attempt and not one for each paint.           *)
CachedIsSettled == Cached \cap (ToSet(jobs) \cup Extracting) = {}

(* A view that shows no more assets than the cache holds stops causing     *)
(* work: the loop of paint, extraction and callback comes to rest with     *)
(* every asset of the scene in the cache (unless the service closed).      *)
PaintingSettles == <>[](jobs = <<>> /\ Extracting = {} /\ (closing \/ scene \subseteq Cached))

(* shutdown() returns, whatever the workers were at.                       *)
CloseReturns == closing ~> closer = "closed"

(* What the service promises the view about an asset it is asked for.      *)
EnvelopesSound == PendingIsWorkedOn /\ CachedIsSettled

(* Painting comes to rest, and so does the service when it is shut down.   *)
EnvelopesSettle == PaintingSettles /\ CloseReturns
=============================================================================
