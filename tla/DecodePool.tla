-------------------------------- MODULE DecodePool --------------------------------
(***********************************************************************************)
(* media/DecodeWorkerPool with media/DecoderClipFrameProvider on top of it: one   *)
(* thread asks for frames of clips and keeps the recently used decoders resident; *)
(* worker threads decode ahead of it onto a bounded queue per clip.  One mutex    *)
(* guards the shared state; decoding runs outside it under a claim on the asset.  *)
(*                                                                                 *)
(* A source position is a frame number, and the picture of a frame is its asset   *)
(* and its number.  An action is one critical section, or the part of a call      *)
(* between two of them.  The cap of 600 frames decoded towards one position is    *)
(* left out: it is for streams whose times never reach it.                        *)
(***********************************************************************************)
EXTENDS Integers, Sequences, FiniteSets

CONSTANTS
  Assets, Clips,
  AssetOf,         \* the asset a clip shows; no command ever changes it
  Workers,         \* worker threads
  Renderer,        \* the thread that calls the provider
  LastFrame,       \* number of the last frame of every asset
  QueueCapacity,   \* clipQueueCapacity
  CacheCapacity,   \* decoderCacheCapacity
  PrefetchDepth,
  MaxJobs,         \* bound: prefetch jobs waiting when a frame is requested
  None             \* no decoder, no job, no picture

VARIABLES
  decoders,   \* assets_: None or [busy, hasExpected, nextExpected, cursor], where
              \* cursor is the position the decoder itself is at
  queues,     \* clipQueues_: the pictures queued for each clip
  jobs,       \* jobs_: [clip, position]
  stopping,
  step,       \* what each thread is doing
  job,        \* the job each worker has taken
  request,    \* the frame the renderer wants: [clip, position, seek]
  asleep,     \* threads in assetFree_.wait()
  lru,        \* the provider's resident assets, most recent first
  picture     \* the picture the last call delivered, for which clip and position

poolVars == <<decoders, queues, jobs, stopping, step, job, request, asleep, lru, picture>>

Threads == Workers \cup {Renderer}
Frames == 0..LastFrame
Pictures == [asset : Assets, frame : Frames]
Entries == [busy : BOOLEAN, hasExpected : BOOLEAN, nextExpected : 0..(LastFrame + 1),
            cursor : 0..(LastFrame + 1)]
Jobs == [clip : Clips, position : 0..(LastFrame + PrefetchDepth)]
Requests == [clip : Clips, position : Frames, seek : BOOLEAN]
Opened == [busy |-> FALSE, hasExpected |-> TRUE, nextExpected |-> 0, cursor |-> 0]

ASSUME PoolAssumption ==
  /\ AssetOf \in [Clips -> Assets] /\ Renderer \notin Workers /\ None \notin Entries
  /\ LastFrame \in Nat /\ QueueCapacity \in Nat \ {0} /\ CacheCapacity \in Nat \ {0}
  /\ PrefetchDepth \in Nat /\ MaxJobs \in Nat

Active(a) == decoders[a] # None
To(t, s) == step' = [step EXCEPT ![t] = s]

(* The asset a thread is decoding from, or waiting for.                            *)
Target(t) == IF t = Renderer THEN AssetOf[request.clip] ELSE AssetOf[job[t].clip]
Decoding(t) == step[t] = "decoding"

Init ==
  /\ decoders = [a \in Assets |-> None]
  /\ queues = [c \in Clips |-> <<>>]
  /\ jobs = <<>> /\ stopping = FALSE
  /\ step = [t \in Threads |-> "idle"]
  /\ job = [w \in Workers |-> None]
  /\ request = None /\ asleep = {} /\ lru = <<>> /\ picture = None

-----------------------------------------------------------------------------------
(* Plausible mistakes in the operations below; each one is caught by a run.        *)

(* A released claim nobody is told about.                                          *)
ReleaseQuietly(a, after) == decoders' = [decoders EXCEPT ![a] = after] /\ UNCHANGED asleep

(* Eviction of the asset that was used last.                                       *)
VictimInUse == lru[1]

(* A retirement that does not wait for the claim.                                  *)
EvictAtOnce ==
  /\ step[Renderer] = "evicting" /\ Renderer \notin asleep
  /\ Len(lru) > CacheCapacity
  /\ decoders' = [decoders EXCEPT ![lru[Len(lru)]] = None]
  /\ queues' = [c \in Clips |-> <<>>]
  /\ asleep' = {} /\ lru' = SubSeq(lru, 1, Len(lru) - 1)
  /\ UNCHANGED <<jobs, stopping, step, job, request, picture>>

(* A renderer that seeks only when the position is unknown.                        *)
ClaimNeverBack ==
  LET a == Target(Renderer)
      e == decoders[a] IN
  \/ /\ Active(a) /\ e.busy
     /\ asleep' = asleep \cup {Renderer} /\ To(Renderer, "claiming")
     /\ UNCHANGED <<decoders, request>>
  \/ /\ Active(a) /\ ~e.busy
     /\ request' = [request EXCEPT !.seek = ~e.hasExpected]
     /\ decoders' = [decoders EXCEPT ![a].busy = TRUE] /\ To(Renderer, "decoding")
     /\ UNCHANGED asleep
  \/ /\ ~Active(a)
     /\ To(Renderer, "idle") /\ request' = None
     /\ UNCHANGED <<decoders, asleep>>

-----------------------------------------------------------------------------------
(* Where a decoder stands after a decode that failed.                              *)
Lost(e) == {[busy |-> FALSE, hasExpected |-> FALSE, nextExpected |-> e.nextExpected, cursor |-> c]
            : c \in 0..(LastFrame + 1)}

(* The decoder after it delivered frame f, with its claim given up.                *)
After(f) == [busy |-> FALSE, hasExpected |-> TRUE, nextExpected |-> f + 1, cursor |-> f + 1]

(* decodeClaimed(): frames before the wanted one are skipped; a decoder that is    *)
(* already past it delivers what comes next.                                       *)
Reached(cursor, position) == IF cursor <= position THEN position ELSE cursor

Claim(a) == decoders' = [decoders EXCEPT ![a].busy = TRUE]

(* releaseAsset(): every thread that waits for an asset is woken.                  *)
Release(a, after) == decoders' = [decoders EXCEPT ![a] = after] /\ asleep' = {}

-----------------------------------------------------------------------------------
(* Workers.                                                                        *)

(* jobsAvailable_.wait(), and the exit when the pool stops.                        *)
WorkerWaits(w) ==
  /\ step[w] = "idle"
  /\ \/ ~stopping /\ jobs = <<>> /\ To(w, "waiting")
     \/ stopping /\ To(w, "exited")
  /\ UNCHANGED <<decoders, queues, jobs, stopping, job, request, asleep, lru, picture>>

(* claimAsset() for a prefetch: the job is dropped when its asset is gone or the   *)
(* decoder is not where the job continues, since a prefetch never seeks.           *)
ClaimForJob(w, j) ==
  LET a == AssetOf[j.clip]
      e == decoders[a] IN
  \/ /\ ~Active(a)
     /\ To(w, "idle") /\ job' = [job EXCEPT ![w] = None]
     /\ UNCHANGED <<decoders, asleep>>
  \/ /\ Active(a) /\ e.busy
     /\ To(w, "claiming") /\ job' = [job EXCEPT ![w] = j]
     /\ asleep' = asleep \cup {w}
     /\ UNCHANGED decoders
  \/ /\ Active(a) /\ ~e.busy /\ ~(e.hasExpected /\ e.nextExpected = j.position)
     /\ To(w, "idle") /\ job' = [job EXCEPT ![w] = None]
     /\ Release(a, e)
  \/ /\ Active(a) /\ ~e.busy /\ e.hasExpected /\ e.nextExpected = j.position
     /\ To(w, "decoding") /\ job' = [job EXCEPT ![w] = j]
     /\ Claim(a)
     /\ UNCHANGED asleep

(* A job is taken from the front; a full queue drops it.                           *)
TakeJob(w) ==
  /\ step[w] = "idle" /\ ~stopping /\ jobs # <<>>
  /\ jobs' = Tail(jobs)
  /\ IF Len(queues[Head(jobs).clip]) >= QueueCapacity
     THEN UNCHANGED <<decoders, step, job, asleep>>
     ELSE ClaimForJob(w, Head(jobs))
  /\ UNCHANGED <<queues, stopping, request, lru, picture>>

(* claimAsset() goes on after the wait.                                            *)
ClaimAgain(w) ==
  /\ step[w] = "claiming" /\ w \notin asleep
  /\ IF stopping
     THEN To(w, "exited") /\ job' = [job EXCEPT ![w] = None] /\ UNCHANGED <<decoders, asleep>>
     ELSE ClaimForJob(w, job[w])
  /\ UNCHANGED <<queues, jobs, stopping, request, lru, picture>>

(* The decode ends: on success the picture is queued if there is still room.       *)
FinishJob(w) ==
  LET c == job[w].clip
      a == AssetOf[c]
      f == Reached(decoders[a].cursor, job[w].position) IN
  /\ w \in Workers /\ Decoding(w)
  /\ \/ /\ f \in Frames
        /\ Release(a, After(f))
        /\ queues' = IF Len(queues[c]) < QueueCapacity
                     THEN [queues EXCEPT ![c] = Append(@, [asset |-> a, frame |-> f])]
                     ELSE queues
     \/ /\ \E e \in Lost(decoders[a]) : Release(a, e)
        /\ UNCHANGED queues
  /\ To(w, "idle") /\ job' = [job EXCEPT ![w] = None]
  /\ UNCHANGED <<jobs, stopping, request, lru, picture>>

-----------------------------------------------------------------------------------
(* The renderer: frameFor().                                                       *)

(* touch(): entry i of the list moves to the front.                                *)
ToFront(i) == [k \in 1..Len(lru) |-> IF k = 1 THEN lru[i]
                                     ELSE IF k <= i THEN lru[k - 1] ELSE lru[k]]

Request(c, p) ==
  /\ step[Renderer] = "idle" /\ ~stopping
  /\ Len(jobs) + PrefetchDepth <= MaxJobs
  /\ request' = [clip |-> c, position |-> p, seek |-> FALSE]
  /\ \/ \E i \in 1..Len(lru) :
          lru[i] = AssetOf[c] /\ lru' = ToFront(i) /\ To(Renderer, "looking")
     \/ /\ \A i \in 1..Len(lru) : lru[i] # AssetOf[c]
        /\ To(Renderer, "opening") /\ UNCHANGED lru
  /\ picture' = None
  /\ UNCHANGED <<decoders, queues, jobs, stopping, job, asleep>>

(* activateAsset(): the file is opened outside the lock, and may fail.             *)
OpenDecoder ==
  /\ step[Renderer] = "opening"
  /\ decoders' = [decoders EXCEPT ![Target(Renderer)] = Opened]
  /\ lru' = <<Target(Renderer)>> \o lru
  /\ To(Renderer, "evicting")
  /\ UNCHANGED <<queues, jobs, stopping, job, request, asleep, picture>>

OpenFails ==
  /\ step[Renderer] = "opening"
  /\ To(Renderer, "idle") /\ request' = None
  /\ UNCHANGED <<decoders, queues, jobs, stopping, job, asleep, lru, picture>>

(* retireAsset() of the least recently used asset while too many are resident: it  *)
(* waits for the claim, drops every queued picture and wakes everyone waiting.     *)
(* The list, which only this thread reads, is shown to shrink when the wait ends.  *)
Victim == lru[Len(lru)]

Retire(a) ==
  /\ decoders' = [decoders EXCEPT ![a] = None]
  /\ queues' = [c \in Clips |-> <<>>]
  /\ asleep' = {}

Evict ==
  /\ step[Renderer] = "evicting" /\ Renderer \notin asleep
  /\ Len(lru) > CacheCapacity
  /\ IF decoders[Victim].busy
     THEN asleep' = asleep \cup {Renderer} /\ UNCHANGED <<decoders, queues, lru>>
     ELSE Retire(Victim) /\ lru' = SubSeq(lru, 1, Len(lru) - 1)
  /\ UNCHANGED <<jobs, stopping, step, job, request, picture>>

EvictionDone ==
  /\ step[Renderer] = "evicting" /\ Renderer \notin asleep /\ Len(lru) <= CacheCapacity
  /\ To(Renderer, "looking")
  /\ UNCHANGED <<decoders, queues, jobs, stopping, job, request, asleep, lru, picture>>

(* A picture is delivered, and the renderer goes on to prefetch().                 *)
Deliver(p) ==
  /\ picture' = [clip |-> request.clip, position |-> request.position, shows |-> p]
  /\ To(Renderer, "prefetching")

(* claimAsset() and the choice between going on and seeking.                       *)
ClaimForRequest ==
  LET a == Target(Renderer)
      e == decoders[a] IN
  \/ /\ Active(a) /\ e.busy
     /\ asleep' = asleep \cup {Renderer} /\ To(Renderer, "claiming")
     /\ UNCHANGED <<decoders, request>>
  \/ /\ Active(a) /\ ~e.busy
     /\ request' = [request EXCEPT !.seek =
                      ~(e.hasExpected /\ e.nextExpected = request.position)]
     /\ Claim(a) /\ To(Renderer, "decoding")
     /\ UNCHANGED asleep
  \/ /\ ~Active(a)
     /\ To(Renderer, "idle") /\ request' = None
     /\ UNCHANGED <<decoders, asleep>>

(* decodeFor(): queued pictures in front of the wanted one are thrown away.        *)
Look ==
  LET q    == queues[request.clip]
      hits == {i \in 1..Len(q) : q[i].frame = request.position} IN
  /\ step[Renderer] = "looking"
  /\ \/ \E i \in hits :
          /\ \A j \in hits : i <= j
          /\ queues' = [queues EXCEPT ![request.clip] = SubSeq(q, i + 1, Len(q))]
          /\ Deliver(q[i])
          /\ UNCHANGED <<decoders, request, asleep>>
     \/ /\ hits = {}
        /\ queues' = [queues EXCEPT ![request.clip] = <<>>]
        /\ ClaimForRequest /\ UNCHANGED picture
  /\ UNCHANGED <<jobs, stopping, job, lru>>

LookAgain ==
  /\ step[Renderer] = "claiming" /\ Renderer \notin asleep
  /\ ClaimForRequest
  /\ UNCHANGED <<queues, jobs, stopping, job, lru, picture>>

(* The decode ends.  A seek lands at a key frame at or before the position, from   *)
(* where the wanted frame is reached.  After a failure the cursor is unknown.      *)
FinishRequest ==
  LET a == Target(Renderer)
      f == IF request.seek THEN request.position
           ELSE Reached(decoders[a].cursor, request.position) IN
  /\ Decoding(Renderer)
  /\ \/ /\ f \in Frames
        /\ Release(a, After(f))
        /\ Deliver([asset |-> a, frame |-> f])
        /\ UNCHANGED request
     \/ /\ \E e \in Lost(decoders[a]) : Release(a, e)
        /\ To(Renderer, "idle") /\ request' = None
        /\ UNCHANGED picture
  /\ UNCHANGED <<queues, jobs, stopping, job, lru>>

(* prefetch(): as many jobs as the clip's queue has room for, unless the clip ends *)
(* here; every waiting worker is woken.                                            *)
Prefetch ==
  LET c    == request.clip
      next == request.position + 1
      room == QueueCapacity - Len(queues[c])
      n    == IF next > LastFrame \/ room <= 0 THEN 0
              ELSE IF room < PrefetchDepth THEN room ELSE PrefetchDepth IN
  /\ step[Renderer] = "prefetching"
  /\ jobs' = jobs \o [i \in 1..n |-> [clip |-> c, position |-> next + i - 1]]
  /\ step' = [t \in Threads |-> IF t = Renderer \/ (step[t] = "waiting" /\ n > 0) THEN "idle"
                                ELSE step[t]]
  /\ request' = None
  /\ UNCHANGED <<decoders, queues, stopping, job, asleep, lru, picture>>

(* shutdown(), called by the thread that owns the provider: no more jobs, everyone *)
(* is woken, the workers are joined, and the decoders are handed over.             *)
Shutdown ==
  /\ step[Renderer] = "idle" /\ ~stopping
  /\ stopping' = TRUE /\ jobs' = <<>>
  /\ step' = [t \in Threads |-> IF t = Renderer THEN "joining"
                                ELSE IF step[t] = "waiting" THEN "idle" ELSE step[t]]
  /\ asleep' = {}
  /\ UNCHANGED <<decoders, queues, job, request, lru, picture>>

Joined ==
  /\ step[Renderer] = "joining" /\ \A w \in Workers : step[w] = "exited"
  /\ To(Renderer, "exited")
  /\ decoders' = [a \in Assets |-> None] /\ queues' = [c \in Clips |-> <<>>] /\ lru' = <<>>
  /\ UNCHANGED <<jobs, stopping, job, request, asleep, picture>>

WorkerStep(w) == WorkerWaits(w) \/ TakeJob(w) \/ ClaimAgain(w) \/ FinishJob(w)

RendererStep ==
  \/ OpenDecoder \/ OpenFails \/ Evict \/ EvictionDone
  \/ Look \/ LookAgain \/ FinishRequest \/ Prefetch \/ Joined

Next ==
  \/ \E w \in Workers : WorkerStep(w)
  \/ \E c \in Clips, p \in Frames : Request(c, p)
  \/ RendererStep
  \/ Shutdown

(* Threads run, and what the renderer has begun it goes on with.                   *)
Fairness ==
  /\ \A w \in Workers : WF_poolVars(WorkerStep(w))
  /\ WF_poolVars(RendererStep)

Spec == Init /\ [][Next]_poolVars /\ Fairness

-----------------------------------------------------------------------------------
(* Types.                                                                          *)
PoolTypeOK ==
  /\ decoders \in [Assets -> Entries \cup {None}]
  /\ queues \in [Clips -> Seq(Pictures)]
  /\ jobs \in Seq(Jobs) /\ stopping \in BOOLEAN
  /\ step \in [Threads -> {"idle", "waiting", "opening", "evicting", "looking", "claiming",
                           "decoding", "prefetching", "joining", "exited"}]
  /\ job \in [Workers -> Jobs \cup {None}]
  /\ request \in Requests \cup {None}
  /\ asleep \subseteq Threads
  /\ lru \in Seq(Assets)
  /\ picture \in [clip : Clips, position : Frames, shows : Pictures] \cup {None}

(* A decoder is a cursor that only one thread may move: an asset is marked busy    *)
(* exactly while one thread decodes from it, and no decoder disappears under the   *)
(* thread that uses it (DecodeWorkerPool.cpp:9-17).                                *)
ClaimsExclusive ==
  /\ \A t \in Threads : Decoding(t) => Active(Target(t)) /\ decoders[Target(t)].busy
  /\ \A t, u \in Threads : Decoding(t) /\ Decoding(u) /\ Target(t) = Target(u) => t = u
  /\ \A a \in Assets : Active(a) /\ decoders[a].busy =>
       \E t \in Threads : Decoding(t) /\ Target(t) = a

(* What the pool believes about a decoder nobody uses is where the decoder is.     *)
CursorKnown ==
  \A a \in Assets : Active(a) /\ ~decoders[a].busy /\ decoders[a].hasExpected =>
    decoders[a].nextExpected = decoders[a].cursor

(* The picture delivered is the frame that was asked for, of the clip's own asset, *)
(* whether it was prefetched, decoded in sequence or sought.                       *)
PictureIsTheFrame ==
  picture # None =>
    picture.shows = [asset |-> AssetOf[picture.clip], frame |-> picture.position]

(* No clip ever has more pictures than the capacity (DecodeWorkerPool.hpp:84-86).  *)
QueuesBounded == \A c \in Clips : Len(queues[c]) <= QueueCapacity

(* Every queued picture is of the clip's asset, whose decoder is still open: it is *)
(* dropped with the decoder (DecodeWorkerPool.hpp, retireAsset).                   *)
QueuedPicturesLive ==
  \A c \in Clips : \A i \in 1..Len(queues[c]) :
    queues[c][i].asset = AssetOf[c] /\ Active(AssetOf[c])

(* The provider's list is the pool's table, within its capacity, and the asset     *)
(* that was asked for is never the one evicted.                                    *)
ResidentAreActive ==
  /\ {lru[i] : i \in 1..Len(lru)} = {a \in Assets : Active(a)}
  /\ \A i, j \in 1..Len(lru) : lru[i] = lru[j] => i = j
  /\ Len(lru) <= CacheCapacity + 1
  /\ step[Renderer] \in {"looking", "claiming", "decoding"} =>
       Len(lru) <= CacheCapacity /\ lru # <<>> /\ lru[1] = Target(Renderer)

(* No wake-up is lost: every request, and the shutdown, comes to its end.          *)
CallsReturn ==
  (step[Renderer] \notin {"idle", "exited"}) ~> (step[Renderer] \in {"idle", "exited"})

====================================================================================
