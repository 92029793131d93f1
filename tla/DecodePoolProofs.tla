------------------------------ MODULE DecodePoolProofs ------------------------------
(***********************************************************************************)
(* Theorems about the decode pool for any assets, clips and workers, any length   *)
(* of the assets, any capacities and any prefetch depth.                           *)
(*                                                                                 *)
(* The safety properties lean on each other, so they are proved together: what a  *)
(* decode delivers is the frame asked for because the decoder stands where the    *)
(* thread believed it stood (Positioned), which holds because nobody else moved it *)
(* (ClaimsExclusive), which holds because a decoder is opened only for an asset   *)
(* that has none (Resident) and retired only when nobody holds its claim.          *)
(***********************************************************************************)
EXTENDS DecodePool, SequenceTheorems, TLAPS

WorkerSteps == {"idle", "waiting", "claiming", "decoding", "exited"}
RendererSteps == {"idle", "opening", "evicting", "looking", "claiming", "decoding",
                  "prefetching", "joining", "exited"}
Wanting == {"opening", "evicting", "looking", "claiming", "decoding", "prefetching"}

(* Who may be where, and what it holds there.                                      *)
Roles ==
  /\ \A w \in Workers :
       /\ step[w] \in WorkerSteps
       /\ step[w] \in {"claiming", "decoding"} => job[w] \in Jobs
  /\ step[Renderer] \in RendererSteps
  /\ step[Renderer] \in Wanting => request \in Requests

(* A decoder in use stands where the thread that claimed it believes it stands.    *)
Believed(t) ==
  LET cursor == decoders[Target(t)].cursor IN
  IF t = Renderer THEN ~request.seek => cursor = request.position
  ELSE cursor = job[t].position

Positioned == \A t \in Threads : Decoding(t) => Believed(t)

(* The provider's list against the pool's table, at every step of a request.       *)
Resident ==
  /\ \A i \in 1..Len(lru) : Active(lru[i])
  /\ \A a \in Assets : Active(a) => \E i \in 1..Len(lru) : lru[i] = a
  /\ \A i, j \in 1..Len(lru) : lru[i] = lru[j] => i = j
  /\ Len(lru) <= CacheCapacity + 1
  /\ step[Renderer] # "evicting" => Len(lru) <= CacheCapacity
  /\ step[Renderer] = "opening" => ~Active(Target(Renderer))
  /\ step[Renderer] \in {"evicting", "looking", "claiming", "decoding"} =>
       lru # <<>> /\ lru[1] = Target(Renderer)

PoolInv ==
  /\ PoolTypeOK /\ Roles /\ Resident
  /\ ClaimsExclusive /\ CursorKnown /\ Positioned
  /\ QueuesBounded /\ QueuedPicturesLive /\ PictureIsTheFrame

-----------------------------------------------------------------------------------
LEMMA InvInit == Init => PoolInv
<1> USE PoolAssumption
<1> SUFFICES ASSUME Init PROVE PoolInv
  OBVIOUS
<1>1. PoolTypeOK
  <2>1. <<>> \in Seq(Pictures) /\ <<>> \in Seq(Jobs) /\ <<>> \in Seq(Assets)
    BY EmptySeq
  <2>2. QED
    BY <2>1 DEF Init, PoolTypeOK, Threads
<1>2. Roles /\ Resident
  BY DEF Init, Roles, Resident, RendererSteps, WorkerSteps, Wanting, Threads, Active
<1>3. ClaimsExclusive /\ CursorKnown /\ Positioned
  BY DEF Init, ClaimsExclusive, CursorKnown, Positioned, Decoding, Active, Threads
<1>4. QueuesBounded /\ QueuedPicturesLive /\ PictureIsTheFrame
  BY DEF Init, QueuesBounded, QueuedPicturesLive, PictureIsTheFrame
<1>5. QED
  BY <1>1, <1>2, <1>3, <1>4 DEF PoolInv

-----------------------------------------------------------------------------------
(* What a step does to the decoders, in the three ways it can.  Others(t): every   *)
(* thread but t goes on with what it is doing.                                     *)
DecodersRight == ClaimsExclusive /\ CursorKnown /\ Positioned

Others(t) ==
  \A u \in Threads \ {t} :
    Decoding(u)' => Decoding(u) /\ Target(u)' = Target(u) /\ Target(u) \in Assets

LEMMA Untouched ==
  ASSUME DecodersRight, NEW t \in Threads, ~Decoding(t), ~Decoding(t)',
         Others(t), \A u \in Threads \ {t} : Decoding(u) => Decoding(u)',
         \A u \in Threads \ {t} : Decoding(u) => Believed(u)' = Believed(u),
         decoders' = decoders
  PROVE  DecodersRight'
<1>1. ClaimsExclusive'
  BY DEF DecodersRight, ClaimsExclusive, Others, Active
<1>2. CursorKnown'
  BY DEF DecodersRight, CursorKnown, Active
<1>3. Positioned'
  BY DEF DecodersRight, Positioned, Others
<1>4. QED
  BY <1>1, <1>2, <1>3 DEF DecodersRight

(* A thread claims an unused decoder that stands where the thread believes.        *)
LEMMA Claimed ==
  ASSUME DecodersRight, PoolTypeOK, NEW t \in Threads, ~Decoding(t),
         Others(t), \A u \in Threads \ {t} : Decoding(u) => Decoding(u)',
         \A u \in Threads \ {t} : Decoding(u) /\ Believed(u) /\ Target(u) # Target(t)' => Believed(u)',
         Target(t)' \in Assets, Active(Target(t)'), ~decoders[Target(t)'].busy,
         Claim(Target(t)'), Decoding(t)', Believed(t)'
  PROVE  DecodersRight'
<1> DEFINE a == Target(t)'
<1>1. /\ decoders'[a] = [decoders[a] EXCEPT !.busy = TRUE]
      /\ \A b \in Assets \ {a} : decoders'[b] = decoders[b]
      /\ decoders[a] \in Entries
  BY DEF Claim, PoolTypeOK, Active
<1>2. decoders'[a] \in Entries /\ decoders'[a].busy /\ decoders'[a] # None
  BY <1>1, PoolAssumption DEF Entries
<1>3. \A u \in Threads : Decoding(u) => Target(u) # a
  BY DEF DecodersRight, ClaimsExclusive
<1> HIDE DEF a
<1>4. ClaimsExclusive'
  <2>1. \A u \in Threads : Decoding(u)' => Active(Target(u))' /\ decoders'[Target(u)'].busy
    BY <1>1, <1>2, <1>3 DEF DecodersRight, ClaimsExclusive, Others, Active, a
  <2>2. \A u, v \in Threads : Decoding(u)' /\ Decoding(v)' /\ Target(u)' = Target(v)' => u = v
    BY <1>3 DEF DecodersRight, ClaimsExclusive, Others, a
  <2>3. \A b \in Assets : Active(b)' /\ decoders'[b].busy =>
          \E u \in Threads : Decoding(u)' /\ Target(u)' = b
    <3> SUFFICES ASSUME NEW b \in Assets \ {a}, Active(b), decoders[b].busy
                 PROVE  \E u \in Threads : Decoding(u)' /\ Target(u)' = b
      BY <1>1 DEF Active, a
    <3> QED
      BY DEF DecodersRight, ClaimsExclusive, Others
  <2>4. QED
    BY <2>1, <2>2, <2>3 DEF ClaimsExclusive
<1>5. CursorKnown'
  BY <1>1, <1>2 DEF DecodersRight, CursorKnown, Active
<1>6. Positioned'
  BY <1>3 DEF DecodersRight, Positioned, Others, a
<1>7. QED
  BY <1>4, <1>5, <1>6 DEF DecodersRight

(* A thread gives its claim up and leaves a decoder whose cursor is known or lost. *)
LEMMA Released ==
  ASSUME DecodersRight, PoolTypeOK, NEW t \in Threads, Decoding(t), ~Decoding(t)',
         Others(t), \A u \in Threads \ {t} : Decoding(u) => Decoding(u)',
         \A u \in Threads \ {t} : Decoding(u) /\ Believed(u) /\ Target(u) # Target(t) => Believed(u)',
         Target(t) \in Assets,
         NEW e \in Entries, ~e.busy, e.hasExpected => e.nextExpected = e.cursor,
         Release(Target(t), e)
  PROVE  DecodersRight'
<1> DEFINE a == Target(t)
<1>1. /\ decoders'[a] = e
      /\ \A b \in Assets \ {a} : decoders'[b] = decoders[b]
  BY DEF Release, PoolTypeOK
<1>2. \A u \in Threads \ {t} : Decoding(u) => Target(u) # a
  BY DEF DecodersRight, ClaimsExclusive
<1> HIDE DEF a
<1>3. ClaimsExclusive'
  BY <1>1, <1>2 DEF DecodersRight, ClaimsExclusive, Others, Active, a
<1>4. CursorKnown'
  BY <1>1 DEF DecodersRight, CursorKnown, Active
<1>5. Positioned'
  BY <1>2 DEF DecodersRight, Positioned, Others, a
<1>6. QED
  BY <1>3, <1>4, <1>5 DEF DecodersRight

LEMMA TargetsAreAssets ==
  ASSUME PoolInv
  PROVE  /\ \A u \in Threads : Decoding(u) => Target(u) \in Assets
         /\ step[Renderer] \in Wanting => Target(Renderer) \in Assets
         /\ \A i \in 1..Len(lru) : lru[i] \in Assets
<1> USE PoolAssumption DEF PoolInv
<1>1. /\ \A u \in Threads : Decoding(u) => Target(u) \in Assets
      /\ step[Renderer] \in Wanting => Target(Renderer) \in Assets
  BY DEF Decoding, Target, Roles, Threads, Jobs, Requests, Wanting
<1>2. \A i \in 1..Len(lru) : lru[i] \in Assets
  BY ElementOfSeq DEF PoolTypeOK
<1>3. QED
  BY <1>1, <1>2

LEMMA CacheUntouched ==
  ASSUME PoolInv, \A a \in Assets : Active(a)' <=> Active(a), lru' = lru,
         Target(Renderer)' = Target(Renderer), step'[Renderer] = step[Renderer]
  PROVE  Resident'
  BY TargetsAreAssets DEF PoolInv, Resident, Wanting

-----------------------------------------------------------------------------------
(* Worker steps.                                                                   *)

(* A worker that is not decoding goes to another step in which it is not decoding. *)
LEMMA WorkerMoves ==
  ASSUME PoolInv, NEW w \in Workers, ~Decoding(w),
         NEW s \in WorkerSteps \ {"decoding"}, To(w, s),
         NEW v \in Jobs \cup {None}, s = "claiming" => v \in Jobs,
         job' = [job EXCEPT ![w] = v], jobs' \in Seq(Jobs), asleep' \subseteq Threads,
         UNCHANGED <<decoders, queues, stopping, request, lru, picture>>
  PROVE  PoolInv'
<1> USE PoolAssumption DEF PoolInv
<1>1. PoolTypeOK'
  BY DEF PoolTypeOK, Threads, To, WorkerSteps
<1>2. /\ \A u \in Threads \ {w} : step'[u] = step[u]
      /\ \A u \in Workers \ {w} : job'[u] = job[u]
      /\ step'[w] = s /\ job'[w] = v
  BY DEF PoolTypeOK, Threads, To
<1>3. Roles'
  BY <1>2 DEF Roles, Threads
<1>4. Resident'
  BY <1>2 DEF Resident, Active, Target, Threads
<1>5. DecodersRight'
  <2>1. \A u \in Threads \ {w} : (Decoding(u)' <=> Decoding(u)) /\ Target(u)' = Target(u)
    BY <1>2 DEF Decoding, Target, Threads
  <2>2. \A u \in Threads : Decoding(u) => Target(u) \in Assets
    BY TargetsAreAssets
  <2>3. \A u \in Threads \ {w} : Believed(u)' = Believed(u)
    BY <1>2, <2>1 DEF Believed, Threads
  <2>4. QED
    BY <1>2, <2>1, <2>2, <2>3, Untouched DEF Others, DecodersRight, Decoding, Threads
<1>6. QueuesBounded' /\ QueuedPicturesLive' /\ PictureIsTheFrame'
  BY DEF QueuesBounded, QueuedPicturesLive, PictureIsTheFrame, Active
<1>7. QED
  BY <1>1, <1>3, <1>4, <1>5, <1>6 DEF DecodersRight

LEMMA JobClaimed ==
  ASSUME PoolInv, NEW w \in Workers, ~Decoding(w), NEW j \in Jobs, ClaimForJob(w, j),
         jobs' \in Seq(Jobs), UNCHANGED <<queues, stopping, request, lru, picture>>
  PROVE  PoolInv'
<1> USE PoolAssumption DEF PoolInv
<1> DEFINE a == AssetOf[j.clip]
           e == decoders[a]
<1>1. a \in Assets
  BY DEF Jobs
<1>2. CASE /\ Active(a) /\ ~e.busy /\ e.hasExpected /\ e.nextExpected = j.position
           /\ To(w, "decoding") /\ job' = [job EXCEPT ![w] = j]
           /\ Claim(a) /\ UNCHANGED asleep
  <2> USE <1>1, <1>2
  <2> HIDE DEF a
  <2>0. /\ decoders'[a] = [decoders[a] EXCEPT !.busy = TRUE]
        /\ \A b \in Assets \ {a} : decoders'[b] = decoders[b]
        /\ decoders[a] \in Entries /\ decoders'[a] \in Entries
    BY DEF Claim, PoolTypeOK, Active, Entries
  <2>1. PoolTypeOK'
    BY <2>0 DEF PoolTypeOK, Threads, To, Claim
  <2>2. /\ \A u \in Threads \ {w} : step'[u] = step[u]
        /\ \A u \in Workers \ {w} : job'[u] = job[u]
        /\ step'[w] = "decoding" /\ job'[w] = j /\ Target(w)' = a
    BY DEF PoolTypeOK, Threads, To, Target, a
  <2>3. Roles'
    BY <2>2 DEF Roles, Threads, WorkerSteps
  <2>4. \A b \in Assets : Active(b)' <=> Active(b)
    BY <2>0 DEF Active, Entries
  <2>5. Resident'
    BY <2>2, <2>4, CacheUntouched DEF Target, Threads
  <2>6. DecodersRight'
    <3>1. \A u \in Threads \ {w} : (Decoding(u)' <=> Decoding(u)) /\ Target(u)' = Target(u)
      BY <2>2 DEF Decoding, Target, Threads
    <3>2. \A u \in Threads : Decoding(u) => Target(u) \in Assets
      BY TargetsAreAssets
    <3>3. \A u \in Threads \ {w} : Decoding(u) /\ Believed(u) /\ Target(u) # a => Believed(u)'
      BY <2>0, <2>2, <3>1, <3>2 DEF Believed, Threads
    <3>4. Believed(w)'
      BY <2>0, <2>2 DEF Believed, CursorKnown, Entries
    <3>5. QED
      BY <2>2, <3>1, <3>2, <3>3, <3>4, Claimed DEF Others, DecodersRight, Decoding, Threads
  <2>7. QueuesBounded' /\ PictureIsTheFrame'
    BY DEF QueuesBounded, PictureIsTheFrame
  <2>8. QueuedPicturesLive'
    BY <2>4 DEF QueuedPicturesLive
  <2>9. QED
    BY <2>1, <2>3, <2>5, <2>6, <2>7, <2>8 DEF DecodersRight
<1>3. CASE decoders' = decoders /\ \E s \in {"idle", "claiming"} : \E v \in {None, j} :
             /\ s = "claiming" => v = j
             /\ To(w, s) /\ job' = [job EXCEPT ![w] = v] /\ asleep' \subseteq Threads
  <2>1. PICK s \in {"idle", "claiming"}, v \in {None, j} :
             /\ s = "claiming" => v = j
             /\ To(w, s) /\ job' = [job EXCEPT ![w] = v] /\ asleep' \subseteq Threads
    BY <1>3
  <2>2. QED
    BY <1>3, <2>1, WorkerMoves DEF WorkerSteps
<1>4. QED
  <2>1. asleep \cup {w} \subseteq Threads
    BY DEF PoolTypeOK, Threads
  <2>2. [decoders EXCEPT ![a] = e] = decoders
    BY <1>1 DEF PoolTypeOK
  <2>3. QED
    BY <1>2, <1>3, <2>1, <2>2 DEF ClaimForJob, Release, PoolTypeOK

LEMMA WorkerWaitsPreserves ==
  ASSUME PoolInv, NEW w \in Workers, WorkerWaits(w) PROVE PoolInv'
<1>1. PICK s \in {"waiting", "exited"} : To(w, s)
  BY DEF WorkerWaits
<1>2. /\ ~Decoding(w) /\ job[w] \in Jobs \cup {None} /\ job = [job EXCEPT ![w] = job[w]]
      /\ jobs \in Seq(Jobs) /\ asleep \subseteq Threads
  BY DEF WorkerWaits, Decoding, PoolInv, PoolTypeOK
<1>3. QED
  BY <1>1, <1>2, WorkerMoves DEF WorkerWaits, WorkerSteps

LEMMA TakeJobPreserves ==
  ASSUME PoolInv, NEW w \in Workers, TakeJob(w) PROVE PoolInv'
<1> DEFINE j == Head(jobs)
<1>1. jobs \in Seq(Jobs) /\ j \in Jobs /\ jobs' \in Seq(Jobs) /\ ~Decoding(w)
  BY EmptySeq, HeadTailProperties DEF TakeJob, Decoding, PoolInv, PoolTypeOK
<1>2. CASE ClaimForJob(w, j)
  BY <1>1, <1>2, JobClaimed DEF TakeJob
<1>3. CASE UNCHANGED <<decoders, step, job, asleep>>
  <2>1. PoolTypeOK'
    BY <1>1, <1>3 DEF TakeJob, PoolInv, PoolTypeOK
  <2>2. QED
    BY <1>3, <2>1 DEF TakeJob, PoolInv, Roles, Resident, ClaimsExclusive, CursorKnown, Positioned,
         Believed, QueuesBounded, QueuedPicturesLive, PictureIsTheFrame, Decoding, Active, Target
<1>4. QED
  BY <1>2, <1>3 DEF TakeJob

LEMMA ClaimAgainPreserves ==
  ASSUME PoolInv, NEW w \in Workers, ClaimAgain(w) PROVE PoolInv'
<1>1. /\ ~Decoding(w) /\ job[w] \in Jobs /\ jobs \in Seq(Jobs) /\ asleep \subseteq Threads
  BY DEF ClaimAgain, Decoding, PoolInv, PoolTypeOK, Roles
<1>2. CASE ClaimForJob(w, job[w])
  BY <1>1, <1>2, JobClaimed DEF ClaimAgain
<1>3. CASE /\ To(w, "exited") /\ job' = [job EXCEPT ![w] = None]
           /\ UNCHANGED <<decoders, asleep>>
  <2>1. "exited" \in WorkerSteps \ {"decoding"} /\ "exited" # "claiming"
    BY DEF WorkerSteps
  <2>2. jobs' \in Seq(Jobs) /\ asleep' \subseteq Threads
        /\ UNCHANGED <<decoders, queues, stopping, request, lru, picture>>
    BY <1>1, <1>3 DEF ClaimAgain
  <2>3. QED
    BY <1>1, <1>3, <2>1, <2>2, WorkerMoves
<1>4. QED
  BY <1>2, <1>3 DEF ClaimAgain

(* What a finished decode may leave behind.                                        *)
LEMMA LeftBehind ==
  ASSUME NEW f \in Frames
  PROVE  After(f) \in Entries /\ ~After(f).busy /\ After(f).nextExpected = After(f).cursor
  BY PoolAssumption DEF After, Entries, Frames

LEMMA LostBehind ==
  ASSUME NEW d \in Entries, NEW e \in Lost(d)
  PROVE  e \in Entries /\ ~e.busy /\ ~e.hasExpected
<1>1. PICK c \in 0..(LastFrame + 1) :
        e = [busy |-> FALSE, hasExpected |-> FALSE, nextExpected |-> d.nextExpected, cursor |-> c]
  BY DEF Lost
<1>2. d.nextExpected \in 0..(LastFrame + 1)
  BY DEF Entries
<1>3. QED
  BY <1>1, <1>2 DEF Entries

LEMMA FinishJobPreserves ==
  ASSUME PoolInv, NEW w \in Workers, FinishJob(w) PROVE PoolInv'
<1> USE PoolAssumption DEF PoolInv
<1> DEFINE c == job[w].clip
           a == AssetOf[c]
           f == Reached(decoders[a].cursor, job[w].position)
<1>1. /\ Decoding(w) /\ job[w] \in Jobs /\ c \in Clips /\ a \in Assets /\ a = Target(w)
      /\ Active(a) /\ decoders[a] \in Entries /\ decoders[a].cursor = job[w].position
      /\ To(w, "idle") /\ job' = [job EXCEPT ![w] = None]
      /\ UNCHANGED <<jobs, stopping, request, lru, picture>>
  <2>1. /\ step[w] = "decoding" /\ w \in Threads /\ w # Renderer /\ To(w, "idle")
        /\ job' = [job EXCEPT ![w] = None]
        /\ UNCHANGED <<jobs, stopping, request, lru, picture>>
    BY DEF FinishJob, Decoding, Threads
  <2>2. job[w] \in Jobs
    BY <2>1 DEF Roles
  <2>3. c \in Clips /\ a \in Assets
    BY <2>2 DEF Jobs
  <2>4. a = Target(w) /\ Decoding(w)
    BY <2>1 DEF Target, Decoding
  <2>5. Active(a)
    BY <2>1, <2>4 DEF ClaimsExclusive
  <2>6. decoders[a] \in Entries
    BY <2>3, <2>5 DEF Active, PoolTypeOK
  <2>7. decoders[a].cursor = job[w].position
    BY <2>1, <2>4 DEF Positioned, Believed
  <2>8. QED
    BY <2>1, <2>2, <2>3, <2>4, <2>5, <2>6, <2>7
<1>2. f = job[w].position
  BY <1>1 DEF Reached, Entries, Jobs
<1>3. PICK e \in Entries : /\ ~e.busy /\ (e.hasExpected => e.nextExpected = e.cursor)
                           /\ Release(a, e)
  BY <1>1, LeftBehind, LostBehind DEF FinishJob
<1>4. \/ queues' = queues
      \/ /\ Len(queues[c]) < QueueCapacity
         /\ \E p \in Pictures : /\ p.asset = a
                                /\ queues' = [queues EXCEPT ![c] = Append(@, p)]
  <2>1. \A g \in Frames : [asset |-> a, frame |-> g] \in Pictures
    BY <1>1 DEF Pictures
  <2>2. QED
    BY <1>1, <2>1 DEF FinishJob
<1>5. /\ queues' \in [Clips -> Seq(Pictures)] /\ QueuesBounded'
      /\ \A d \in Clips : \A i \in 1..Len(queues'[d]) :
           queues'[d][i].asset = AssetOf[d] /\ (Active(AssetOf[d]) \/ d = c)
  <2>1. CASE queues' = queues
    BY <2>1 DEF PoolTypeOK, QueuesBounded, QueuedPicturesLive
  <2>2. CASE /\ Len(queues[c]) < QueueCapacity
             /\ \E p \in Pictures : /\ p.asset = a
                                    /\ queues' = [queues EXCEPT ![c] = Append(@, p)]
    <3>1. PICK p \in Pictures : p.asset = a /\ queues' = [queues EXCEPT ![c] = Append(@, p)]
      BY <2>2
    <3>2. queues[c] \in Seq(Pictures) /\ Len(queues[c]) \in Nat
      BY <1>1, LenProperties DEF PoolTypeOK
    <3>3. /\ queues'[c] \in Seq(Pictures) /\ Len(queues'[c]) = Len(queues[c]) + 1
          /\ \A i \in 1..Len(queues[c]) : queues'[c][i] = queues[c][i]
          /\ queues'[c][Len(queues[c]) + 1] = p
          /\ \A d \in Clips \ {c} : queues'[d] = queues[d]
      BY <1>1, <3>1, <3>2, AppendProperties DEF PoolTypeOK
    <3>4. QED
      BY SMTT(30), <1>1, <2>2, <3>1, <3>2, <3>3 DEF PoolTypeOK, QueuesBounded, QueuedPicturesLive
  <2>3. QED
    BY <1>4, <2>1, <2>2
<1> HIDE DEF f, a
<1>6. /\ decoders'[a] = e /\ e # None
      /\ \A b \in Assets \ {a} : decoders'[b] = decoders[b]
      /\ \A b \in Assets : Active(b)' <=> Active(b)
  BY <1>1, <1>3 DEF Release, PoolTypeOK, Active
<1>7. /\ \A u \in Threads \ {w} : step'[u] = step[u]
      /\ \A u \in Workers \ {w} : job'[u] = job[u]
      /\ step'[w] = "idle" /\ job'[w] = None
  BY <1>1 DEF PoolTypeOK, Threads, To
<1>8. PoolTypeOK'
  BY <1>1, <1>3, <1>5 DEF PoolTypeOK, To, Release, Threads
<1>9. Roles'
  BY <1>1, <1>7 DEF Roles, Threads, WorkerSteps
<1>10. Resident'
  BY <1>1, <1>6, <1>7, CacheUntouched DEF Target, Threads
<1>11. DecodersRight'
  <2>1. \A u \in Threads \ {w} : (Decoding(u)' <=> Decoding(u)) /\ Target(u)' = Target(u)
    BY <1>1, <1>7 DEF Decoding, Target, Threads
  <2>2. \A u \in Threads \ {w} : Decoding(u) /\ Believed(u) /\ Target(u) # a => Believed(u)'
    BY <1>1, <1>6, <1>7, <2>1, TargetsAreAssets DEF Believed, Threads
  <2>3. QED
    BY <1>1, <1>3, <1>7, <2>1, <2>2, TargetsAreAssets, Released
       DEF Others, DecodersRight, Decoding, Threads
<1>12. QueuedPicturesLive'
  BY <1>1, <1>5, <1>6 DEF QueuedPicturesLive, a
<1>13. PictureIsTheFrame'
  BY <1>1 DEF PictureIsTheFrame
<1>14. QED
  BY <1>5, <1>8, <1>9, <1>10, <1>11, <1>12, <1>13 DEF DecodersRight

-----------------------------------------------------------------------------------
(* Renderer steps.                                                                 *)

(* The renderer goes to a step in which it does not decode.                        *)
LEMMA RendererMoves ==
  ASSUME PoolInv, ~Decoding(Renderer), NEW s \in RendererSteps \ {"decoding"}, To(Renderer, s),
         request' \in Requests \cup {None}, s \in Wanting => request' \in Requests,
         UNCHANGED <<decoders, job>>
  PROVE  /\ Roles' /\ DecodersRight' /\ step'[Renderer] = s
         /\ step' \in [Threads -> WorkerSteps \cup RendererSteps]
<1> USE PoolAssumption DEF PoolInv
<1>1. /\ \A w \in Workers : step'[w] = step[w] /\ w # Renderer
      /\ step'[Renderer] = s
      /\ step' \in [Threads -> WorkerSteps \cup RendererSteps]
  BY DEF PoolTypeOK, Threads, To, RendererSteps, WorkerSteps
<1>2. Roles'
  BY <1>1 DEF Roles
<1>3. \A u \in Threads \ {Renderer} : /\ Decoding(u)' <=> Decoding(u)
                                      /\ Target(u)' = Target(u)
                                      /\ Believed(u)' = Believed(u)
  BY <1>1 DEF Decoding, Target, Believed, Threads
<1>4. DecodersRight'
  BY <1>1, <1>3, TargetsAreAssets, Untouched DEF Others, DecodersRight, Decoding, Threads
<1>5. QED
  BY <1>1, <1>2, <1>4

(* Several threads move at once, none of them to or from decoding.                 *)
LEMMA OthersMove ==
  ASSUME PoolInv, ~Decoding(Renderer), ~Decoding(Renderer)',
         \A w \in Workers : Decoding(w)' <=> Decoding(w), UNCHANGED <<decoders, job>>
  PROVE  DecodersRight'
<1>1. \A u \in Threads \ {Renderer} : Target(u)' = Target(u) /\ Believed(u)' = Believed(u)
  BY DEF Target, Believed, Threads
<1>2. QED
  BY <1>1, TargetsAreAssets, Untouched, PoolAssumption DEF Others, DecodersRight, PoolInv, Threads

LEMMA MovedToFront ==
  ASSUME NEW i \in 1..Len(lru), lru \in Seq(Assets),
         \A k, m \in 1..Len(lru) : lru[k] = lru[m] => k = m
  PROVE  /\ ToFront(i) \in Seq(Assets) /\ Len(ToFront(i)) = Len(lru)
         /\ ToFront(i)[1] = lru[i]
         /\ \A k \in 1..Len(lru) : \E m \in 1..Len(lru) : ToFront(i)[k] = lru[m]
         /\ \A m \in 1..Len(lru) : \E k \in 1..Len(lru) : ToFront(i)[k] = lru[m]
         /\ \A k, m \in 1..Len(lru) : ToFront(i)[k] = ToFront(i)[m] => k = m
<1> DEFINE n == Len(lru)
           s == ToFront(i)
<1>1. n \in Nat /\ \A k \in 1..n : lru[k] \in Assets
  BY LenProperties, ElementOfSeq
<1> HIDE DEF n
<1>2. /\ s = [k \in 1..n |-> IF k = 1 THEN lru[i] ELSE IF k <= i THEN lru[k - 1] ELSE lru[k]]
      /\ i \in 1..n
  BY DEF ToFront, n
<1>3. \A k \in 1..n : s[k] \in Assets
  BY <1>1, <1>2
<1>4. s \in Seq(Assets) /\ Len(s) = n
  BY <1>1, <1>2, <1>3, SeqDef
<1>5. s[1] = lru[i]
  BY <1>1, <1>2
<1>6. \A k \in 1..n : \E m \in 1..n : s[k] = lru[m]
  BY <1>1, <1>2
<1>7. ASSUME NEW m \in 1..n PROVE \E k \in 1..n : s[k] = lru[m]
  <2>1. CASE m = i
    BY <1>1, <1>2, <2>1
  <2>2. CASE m < i
    <3>1. m + 1 \in 1..n /\ m + 1 # 1 /\ m + 1 <= i /\ (m + 1) - 1 = m
      BY <1>1, <1>2, <2>2
    <3>2. s[m + 1] = lru[m]
      BY <1>2, <3>1
    <3>3. QED
      BY <3>1, <3>2
  <2>3. CASE m > i
    BY <1>1, <1>2, <2>3
  <2>4. QED
    BY <1>1, <1>2, <2>1, <2>2, <2>3
<1>8. \A k, m \in 1..n : s[k] = s[m] => k = m
  BY <1>1, <1>2 DEF n
<1>9. QED
  BY <1>4, <1>5, <1>6, <1>7, <1>8 DEF n

LEMMA RequestPreserves ==
  ASSUME PoolInv, NEW c \in Clips, NEW p \in Frames, Request(c, p) PROVE PoolInv'
<1> USE PoolAssumption DEF PoolInv
<1>1. /\ request' \in Requests /\ request'.clip = c /\ picture' = None
      /\ step[Renderer] = "idle" /\ ~Decoding(Renderer) /\ Target(Renderer)' = AssetOf[c]
      /\ UNCHANGED <<decoders, queues, jobs, stopping, job, asleep>>
  BY DEF Request, Requests, Decoding, Target
<1>2. PICK s \in {"looking", "opening"} : To(Renderer, s)
  BY DEF Request
<1>3. /\ Roles' /\ DecodersRight' /\ step'[Renderer] = s
      /\ step' \in [Threads -> WorkerSteps \cup RendererSteps]
  BY <1>1, <1>2, RendererMoves DEF RendererSteps
<1>4. /\ lru \in Seq(Assets) /\ Len(lru) \in Nat
      /\ \A k, m \in 1..Len(lru) : lru[k] = lru[m] => k = m
  BY LenProperties DEF PoolTypeOK, Resident
<1>5. lru' \in Seq(Assets) /\ Resident'
  <2>1. CASE \E i \in 1..Len(lru) :
               lru[i] = AssetOf[c] /\ lru' = ToFront(i) /\ To(Renderer, "looking")
    <3>1. PICK i \in 1..Len(lru) :
                 lru[i] = AssetOf[c] /\ lru' = ToFront(i) /\ To(Renderer, "looking")
      BY <2>1
    <3> DEFINE f == ToFront(i)
    <3>2. /\ f \in Seq(Assets) /\ Len(f) = Len(lru) /\ f[1] = lru[i]
          /\ \A k \in 1..Len(lru) : \E m \in 1..Len(lru) : f[k] = lru[m]
          /\ \A m \in 1..Len(lru) : \E k \in 1..Len(lru) : f[k] = lru[m]
          /\ \A k, m \in 1..Len(lru) : f[k] = f[m] => k = m
      <4> HIDE DEF PoolInv
      <4> QED BY <1>4, MovedToFront
    <3>3. lru' = f
      BY <3>1
    <3> HIDE DEF f
    <3>4. f # <<>> /\ step'[Renderer] = "looking"
      BY <1>4, <3>1, <3>2 DEF To, PoolTypeOK, Threads
    <3>5. \A k \in 1..Len(f) : decoders'[f[k]] # None
      <4> TAKE k \in 1..Len(f)
      <4>1. PICK m \in 1..Len(lru) : f[k] = lru[m]
        BY <3>2
      <4>2. QED
        BY <1>1, <4>1 DEF Resident, Active
    <3>6. \A b \in Assets : Active(b)' => \E k \in 1..Len(f) : f[k] = b
      <4> SUFFICES ASSUME NEW b \in Assets, Active(b) PROVE \E k \in 1..Len(f) : f[k] = b
        BY <1>1 DEF Active
      <4>1. PICK m \in 1..Len(lru) : lru[m] = b
        BY DEF Resident
      <4>2. QED
        BY <3>2, <4>1
    <3>7. Len(f) <= CacheCapacity /\ f[1] = Target(Renderer)' /\ CacheCapacity \in Nat
      BY <1>1, <3>1, <3>2 DEF Resident
    <3>8. \A k, m \in 1..Len(f) : f[k] = f[m] => k = m
      BY <3>2
    <3>9. Resident'
      <4> HIDE DEF PoolInv
      <4>1. Len(f) \in Nat /\ Len(f) <= CacheCapacity + 1
        BY <1>4, <3>2, <3>7
      <4>2. /\ \A k \in 1..Len(lru') : Active(lru[k])'
            /\ \A b \in Assets : Active(b)' => \E k \in 1..Len(lru') : lru'[k] = b
            /\ \A k, m \in 1..Len(lru') : lru'[k] = lru'[m] => k = m
        BY <3>3, <3>5, <3>6, <3>8 DEF Active
      <4>3. /\ Len(lru') <= CacheCapacity + 1 /\ Len(lru') <= CacheCapacity
            /\ lru' # <<>> /\ lru'[1] = Target(Renderer)'
        BY <3>3, <3>4, <3>7, <4>1
      <4>4. QED
        BY <3>4, <4>2, <4>3 DEF Resident
    <3>10. QED
      BY <3>2, <3>3, <3>9
  <2>2. CASE /\ \A i \in 1..Len(lru) : lru[i] # AssetOf[c]
             /\ To(Renderer, "opening") /\ UNCHANGED lru
    <3>1. step'[Renderer] = "opening" /\ AssetOf[c] \in Assets /\ ~Active(AssetOf[c])
      BY <2>2 DEF To, PoolTypeOK, Threads, Resident
    <3>2. QED
      BY <1>1, <1>4, <2>2, <3>1 DEF Resident, Active
  <2>3. QED
    BY <2>1, <2>2 DEF Request
<1>6. PoolTypeOK'
  BY <1>1, <1>3, <1>5 DEF PoolTypeOK, WorkerSteps, RendererSteps
<1>7. QueuesBounded' /\ QueuedPicturesLive' /\ PictureIsTheFrame'
  BY <1>1 DEF QueuesBounded, QueuedPicturesLive, PictureIsTheFrame, Active
<1>8. QED
  BY <1>3, <1>5, <1>6, <1>7 DEF DecodersRight

LEMMA OpenFailsPreserves ==
  ASSUME PoolInv, OpenFails PROVE PoolInv'
<1> USE PoolAssumption DEF PoolInv
<1>1. /\ Roles' /\ DecodersRight' /\ step'[Renderer] = "idle"
      /\ step' \in [Threads -> WorkerSteps \cup RendererSteps]
  BY RendererMoves DEF OpenFails, Decoding, RendererSteps, Wanting
<1>2. Resident'
  BY <1>1 DEF OpenFails, Resident, Active
<1>3. PoolTypeOK'
  BY <1>1 DEF OpenFails, PoolTypeOK, WorkerSteps, RendererSteps
<1>4. QueuesBounded' /\ QueuedPicturesLive' /\ PictureIsTheFrame'
  BY DEF OpenFails, QueuesBounded, QueuedPicturesLive, PictureIsTheFrame, Active
<1>5. QED
  BY <1>1, <1>2, <1>3, <1>4 DEF DecodersRight

LEMMA OpenDecoderPreserves ==
  ASSUME PoolInv, OpenDecoder PROVE PoolInv'
<1> USE PoolAssumption DEF PoolInv
<1> DEFINE a == Target(Renderer)
<1>1. /\ a \in Assets /\ ~Active(a) /\ request \in Requests /\ ~Decoding(Renderer)
      /\ step[Renderer] = "opening" /\ To(Renderer, "evicting")
      /\ decoders' = [decoders EXCEPT ![a] = Opened] /\ lru' = <<a>> \o lru
      /\ Target(Renderer)' = a
      /\ UNCHANGED <<queues, jobs, stopping, job, request, asleep, picture>>
  BY TargetsAreAssets DEF OpenDecoder, Resident, Roles, Wanting, Decoding, Target
<1> HIDE DEF a
<1>2. /\ decoders'[a] = Opened /\ Opened # None /\ Opened \in Entries
      /\ \A b \in Assets \ {a} : decoders'[b] = decoders[b]
  <2>1. Opened \in Entries
    BY DEF Opened, Entries
  <2>2. QED
    BY <1>1, <2>1 DEF PoolTypeOK
<1>3. /\ step'[Renderer] = "evicting"
      /\ \A w \in Workers : step'[w] = step[w] /\ w # Renderer
      /\ step' \in [Threads -> WorkerSteps \cup RendererSteps]
  BY <1>1 DEF To, PoolTypeOK, Threads, WorkerSteps, RendererSteps
<1>4. Roles'
  BY <1>1, <1>3 DEF Roles, RendererSteps, Wanting
<1>5. /\ lru \in Seq(Assets) /\ Len(lru) \in Nat
      /\ lru' \in Seq(Assets) /\ Len(lru') = Len(lru) + 1 /\ lru'[1] = a
      /\ \A i \in 1..Len(lru) : lru'[i + 1] = lru[i]
      /\ \A i \in 2..Len(lru') : lru'[i] = lru[i - 1] /\ i - 1 \in 1..Len(lru)
  <2>1. lru \in Seq(Assets) /\ <<a>> \in Seq(Assets) /\ Len(<<a>>) = 1 /\ Len(lru) \in Nat
    BY <1>1, LenProperties DEF PoolTypeOK
  <2>2. QED
    BY <1>1, <2>1, ConcatProperties
<1>6. PoolTypeOK'
  BY <1>1, <1>2, <1>3, <1>5 DEF PoolTypeOK, WorkerSteps, RendererSteps
<1>7. Resident'
  <2>1. \A b \in Assets : Active(b)' <=> Active(b) \/ b = a
    BY <1>1, <1>2 DEF Active
  <2>2. ASSUME NEW i \in 1..Len(lru') PROVE decoders'[lru'[i]] # None
    <3>1. CASE i = 1
      BY <1>2, <1>5, <3>1
    <3>2. CASE i # 1
      <4>1. lru'[i] = lru[i - 1] /\ i - 1 \in 1..Len(lru)
        BY <1>5, <3>2
      <4>2. lru[i - 1] \in Assets /\ Active(lru[i - 1])
        BY <4>1, TargetsAreAssets DEF Resident
      <4>3. QED
        BY <2>1, <4>1, <4>2 DEF Active
    <3>3. QED
      BY <3>1, <3>2
  <2>3. ASSUME NEW b \in Assets, Active(b)' PROVE \E i \in 1..Len(lru') : lru'[i] = b
    <3>1. CASE b = a
      BY <1>5, <3>1
    <3>2. CASE b # a
      <4>1. PICK m \in 1..Len(lru) : lru[m] = b
        BY <2>1, <2>3, <3>2 DEF Resident
      <4>2. m + 1 \in 1..Len(lru') /\ lru'[m + 1] = b
        BY <1>5, <4>1
      <4>3. QED
        BY <4>2
    <3>3. QED
      BY <3>1, <3>2
  <2>4. \A i \in 1..Len(lru) : lru[i] # a
    BY <1>1 DEF Resident
  <2>5. ASSUME NEW i \in 1..Len(lru'), NEW j \in 1..Len(lru'), lru'[i] = lru'[j] PROVE i = j
    <3>1. \A k \in 1..Len(lru') : k = 1 \/ (lru'[k] = lru[k - 1] /\ k - 1 \in 1..Len(lru))
      BY <1>5
    <3>2. CASE i = 1 \/ j = 1
      BY <1>5, <2>4, <2>5, <3>1, <3>2
    <3>3. CASE i # 1 /\ j # 1
      <4>1. i - 1 = j - 1
        BY <2>5, <3>1, <3>3 DEF Resident
      <4>2. QED
        BY <1>5, <4>1
    <3>4. QED
      BY <3>2, <3>3
  <2>6. lru' # <<>>
    BY <1>5
  <2>7. QED
    BY <1>1, <1>3, <1>5, <2>2, <2>3, <2>5, <2>6 DEF Resident, Active
<1>8. DecodersRight'
  <2>1. \A u \in Threads : Decoding(u)' =>
          /\ Decoding(u) /\ Target(u)' = Target(u) /\ Target(u) \in Assets \ {a}
          /\ u # Renderer
    BY <1>1, <1>3, TargetsAreAssets DEF Decoding, Target, Threads, ClaimsExclusive
  <2>2. \A u \in Threads : Decoding(u) => Decoding(u)'
    BY <1>1, <1>3 DEF Decoding, Threads
  <2>3. ClaimsExclusive'
    BY <1>2, <2>1, <2>2 DEF ClaimsExclusive, Active, Opened
  <2>4. CursorKnown'
    BY <1>2 DEF CursorKnown, Active, Opened
  <2>5. Positioned'
    BY <1>1, <1>2, <2>1 DEF Positioned, Believed, Threads
  <2>6. QED
    BY <2>3, <2>4, <2>5 DEF DecodersRight
<1>9. QueuesBounded' /\ QueuedPicturesLive' /\ PictureIsTheFrame'
  BY <1>1, <1>2 DEF QueuesBounded, QueuedPicturesLive, PictureIsTheFrame, Active
<1>10. QED
  BY <1>4, <1>6, <1>7, <1>8, <1>9 DEF DecodersRight

LEMMA EvictionDonePreserves ==
  ASSUME PoolInv, EvictionDone PROVE PoolInv'
<1> USE PoolAssumption DEF PoolInv
<1>1. request \in Requests /\ ~Decoding(Renderer)
  BY DEF EvictionDone, Roles, Wanting, Decoding
<1>2. /\ Roles' /\ DecodersRight' /\ step'[Renderer] = "looking"
      /\ step' \in [Threads -> WorkerSteps \cup RendererSteps]
  BY <1>1, RendererMoves DEF EvictionDone, RendererSteps
<1>3. Resident'
  BY <1>2 DEF EvictionDone, Resident, Active, Target
<1>4. PoolTypeOK'
  BY <1>2 DEF EvictionDone, PoolTypeOK, WorkerSteps, RendererSteps
<1>5. QueuesBounded' /\ QueuedPicturesLive' /\ PictureIsTheFrame'
  BY DEF EvictionDone, QueuesBounded, QueuedPicturesLive, PictureIsTheFrame, Active
<1>6. QED
  BY <1>2, <1>3, <1>4, <1>5 DEF DecodersRight

(* The last of the list: it is resident, and it is not the one just asked for.     *)
LEMMA VictimFacts ==
  ASSUME PoolInv, step[Renderer] = "evicting", Len(lru) > CacheCapacity
  PROVE  /\ lru \in Seq(Assets) /\ Len(lru) \in Nat /\ Len(lru) >= 2
         /\ Len(lru) = CacheCapacity + 1
         /\ Victim = lru[Len(lru)] /\ Victim \in Assets /\ Active(Victim)
         /\ Victim # lru[1] /\ lru[1] = Target(Renderer)
<1> USE PoolAssumption DEF PoolInv
<1>1. lru \in Seq(Assets) /\ Len(lru) \in Nat
  BY LenProperties DEF PoolTypeOK
<1>2. Len(lru) >= 2 /\ Len(lru) = CacheCapacity + 1
  BY <1>1 DEF Resident
<1>3. 1 \in 1..Len(lru) /\ Len(lru) \in 1..Len(lru) /\ Len(lru) # 1
  BY <1>1, <1>2
<1>4. Victim = lru[Len(lru)] /\ Victim \in Assets /\ Active(Victim)
  BY <1>3, TargetsAreAssets DEF Victim, Resident
<1>5. Victim # lru[1] /\ lru[1] = Target(Renderer)
  BY <1>3, <1>4 DEF Resident
<1>6. QED
  BY <1>1, <1>2, <1>4, <1>5

LEMMA EvictPreserves ==
  ASSUME PoolInv, Evict PROVE PoolInv'
<1> USE PoolAssumption DEF PoolInv
<1>1. CASE asleep' = asleep \cup {Renderer} /\ UNCHANGED <<decoders, queues, lru>>
  <2>1. PoolTypeOK'
    BY <1>1 DEF Evict, PoolTypeOK, Threads
  <2>2. QED
    BY <1>1, <2>1 DEF Evict, Roles, Resident, ClaimsExclusive, CursorKnown, Positioned,
         Believed, QueuesBounded, QueuedPicturesLive, PictureIsTheFrame, Decoding, Active, Target
<1>2. CASE ~decoders[Victim].busy /\ Retire(Victim) /\ lru' = SubSeq(lru, 1, Len(lru) - 1)
  <2> DEFINE a == Victim
             n == Len(lru) - 1
  <2>1. /\ step[Renderer] = "evicting" /\ UNCHANGED <<jobs, stopping, step, job, request, picture>>
        /\ lru \in Seq(Assets) /\ Len(lru) \in Nat /\ n \in Nat \ {0} /\ n <= CacheCapacity
        /\ a = lru[n + 1] /\ a \in Assets /\ Active(a)
        /\ lru[1] # a /\ lru[1] = Target(Renderer)
    BY VictimFacts DEF Evict
  <2>2. /\ decoders' = [decoders EXCEPT ![a] = None] /\ queues' = [c \in Clips |-> <<>>]
        /\ asleep' = {} /\ lru' = SubSeq(lru, 1, n)
    BY <1>2 DEF Retire
  <2> HIDE DEF a, n
  <2>3. /\ decoders'[a] = None
        /\ \A b \in Assets \ {a} : decoders'[b] = decoders[b]
    BY <2>1, <2>2 DEF PoolTypeOK
  <2>4. /\ lru' \in Seq(Assets) /\ Len(lru') = n
        /\ \A i \in 1..n : lru'[i] = lru[i]
    <3>1. \A i \in 1..n : lru[i] \in Assets
      BY <2>1, TargetsAreAssets DEF n
    <3>2. QED
      BY <2>1, <2>2, <3>1, SubSeqProperties
  <2>5. PoolTypeOK'
    <3>1. <<>> \in Seq(Pictures)
      BY EmptySeq
    <3>2. QED
      BY <2>1, <2>2, <2>4, <3>1 DEF PoolTypeOK
  <2>6. Roles'
    BY <2>1 DEF Roles
  <2>7. Resident'
    <3>1. \A i \in 1..n : lru[i] # a /\ decoders'[lru[i]] # None
      BY <2>1, <2>3, TargetsAreAssets DEF Resident, Active, n
    <3>2. ASSUME NEW b \in Assets, decoders'[b] # None PROVE \E i \in 1..n : lru[i] = b
      <4>1. b # a /\ Active(b)
        BY <2>3, <3>2 DEF Active
      <4>2. PICK i \in 1..Len(lru) : lru[i] = b
        BY <4>1 DEF Resident
      <4>3. i \in 1..n
        BY <2>1, <4>1, <4>2 DEF n
      <4>4. QED
        BY <4>2, <4>3
    <3>3. \A i, j \in 1..n : lru[i] = lru[j] => i = j
      BY <2>1 DEF Resident, n
    <3>4. Target(Renderer)' = Target(Renderer)
      BY <2>1 DEF Target
    <3>5. lru' # <<>> /\ lru'[1] = Target(Renderer)'
      BY <2>1, <2>4, <3>4
    <3>6. /\ \A k \in 1..Len(lru') : Active(lru[k])'
          /\ \A b \in Assets : Active(b)' => \E k \in 1..Len(lru') : lru'[k] = b
          /\ \A k, m \in 1..Len(lru') : lru'[k] = lru'[m] => k = m
      BY <2>4, <3>1, <3>2, <3>3 DEF Active
    <3>7. step'[Renderer] = "evicting" /\ Len(lru') <= CacheCapacity + 1
      BY <2>1, <2>4
    <3>8. QED
      BY <3>5, <3>6, <3>7 DEF Resident
  <2>8. DecodersRight'
    <3>1. \A u \in Threads : /\ Decoding(u)' <=> Decoding(u)
                             /\ Target(u)' = Target(u)
                             /\ Decoding(u) => Target(u) \in Assets \ {a}
      BY <1>2, <2>1, TargetsAreAssets DEF Decoding, Target, ClaimsExclusive, a
    <3>2. ClaimsExclusive'
      BY <2>3, <3>1 DEF ClaimsExclusive, Active
    <3>3. CursorKnown'
      BY <2>3 DEF CursorKnown, Active
    <3>4. Positioned'
      BY <2>1, <2>3, <3>1 DEF Positioned, Believed
    <3>5. QED
      BY <3>2, <3>3, <3>4 DEF DecodersRight
  <2>9. QueuesBounded' /\ QueuedPicturesLive' /\ PictureIsTheFrame'
    BY <2>1, <2>2 DEF QueuesBounded, QueuedPicturesLive, PictureIsTheFrame
  <2>10. QED
    BY <2>5, <2>6, <2>7, <2>8, <2>9 DEF DecodersRight
<1>3. QED
  BY <1>1, <1>2 DEF Evict

(* What is left behind element i of a sequence.                                    *)
LEMMA SuffixFacts ==
  ASSUME NEW S, NEW s \in Seq(S), NEW i \in 1..Len(s)
  PROVE  /\ SubSeq(s, i + 1, Len(s)) \in Seq(S)
         /\ Len(SubSeq(s, i + 1, Len(s))) = Len(s) - i
         /\ \A k \in 1..(Len(s) - i) : SubSeq(s, i + 1, Len(s))[k] = s[i + k]
<1> DEFINE m == i + 1
<1>1. Len(s) \in Nat /\ m \in Int /\ m <= Len(s) + 1
  BY LenProperties
<1>2. \A k \in m..Len(s) : s[k] \in S
  BY <1>1, ElementOfSeq
<1>3. /\ SubSeq(s, m, Len(s)) \in Seq(S)
      /\ Len(SubSeq(s, m, Len(s))) = IF m <= Len(s) THEN Len(s) - m + 1 ELSE 0
      /\ \A k \in 1..(Len(s) - m + 1) : SubSeq(s, m, Len(s))[k] = s[m + k - 1]
  <2> HIDE DEF m
  <2>1. QED
    BY <1>1, <1>2, SubSeqProperties
<1>4. \A k \in 1..(Len(s) - i) : m + k - 1 = i + k
  BY <1>1
<1>5. QED
  BY <1>1, <1>3, <1>4

(* A queue gets shorter.                                                           *)
LEMMA QueueShrinks ==
  ASSUME PoolInv, NEW c \in Clips, NEW s \in Seq(Pictures), Len(s) <= Len(queues[c]),
         \A i \in 1..Len(s) : \E k \in 1..Len(queues[c]) : s[i] = queues[c][k],
         queues' = [queues EXCEPT ![c] = s], \A a \in Assets : Active(a)' <=> Active(a)
  PROVE  queues' \in [Clips -> Seq(Pictures)] /\ QueuesBounded' /\ QueuedPicturesLive'
<1> USE PoolAssumption DEF PoolInv
<1>1. queues' \in [Clips -> Seq(Pictures)]
  BY DEF PoolTypeOK
<1>2. /\ queues'[c] = s /\ queues[c] \in Seq(Pictures)
      /\ \A d \in Clips \ {c} : queues'[d] = queues[d]
  BY DEF PoolTypeOK
<1>3. Len(s) \in Nat /\ Len(queues[c]) \in Nat
  BY <1>2, LenProperties
<1>4. QueuesBounded'
  BY <1>2, <1>3 DEF QueuesBounded
<1>5. ASSUME NEW d \in Clips, NEW i \in 1..Len(queues'[d])
      PROVE  queues'[d][i].asset = AssetOf[d] /\ Active(AssetOf[d])'
  <2>1. PICK k \in 1..Len(queues[d]) : queues'[d][i] = queues[d][k]
    BY SMTT(30), <1>2, <1>5
  <2>2. QED
    BY <2>1 DEF QueuedPicturesLive
<1>6. QED
  BY <1>1, <1>4, <1>5 DEF QueuedPicturesLive

LEMMA RequestClaimed ==
  ASSUME PoolInv, ClaimForRequest, step[Renderer] \in {"looking", "claiming"},
         queues' \in [Clips -> Seq(Pictures)],
         (\A a \in Assets : Active(a)' <=> Active(a)) => QueuesBounded' /\ QueuedPicturesLive',
         UNCHANGED <<jobs, stopping, job, lru, picture>>
  PROVE  PoolInv'
<1> USE PoolAssumption DEF PoolInv
<1> DEFINE a == Target(Renderer)
           e == decoders[a]
<1>1. /\ request \in Requests /\ ~Decoding(Renderer) /\ a \in Assets
      /\ lru # <<>> /\ lru[1] = a /\ Len(lru) <= CacheCapacity /\ Len(lru) \in Nat
  BY TargetsAreAssets, LenProperties DEF Roles, Wanting, Decoding, Resident, PoolTypeOK
<1>2. Active(a) /\ e \in Entries
  <2>1. 1 \in 1..Len(lru)
    BY <1>1, EmptySeq DEF PoolTypeOK
  <2>2. Active(lru[1])
    BY <2>1 DEF Resident
  <2>3. Active(a)
    BY <1>1, <2>2
  <2>4. e \in Entries
    BY <1>1, <2>3 DEF Active, PoolTypeOK
  <2>5. QED
    BY <2>3, <2>4
<1> HIDE DEF a
<1>3. CASE /\ asleep' = asleep \cup {Renderer} /\ To(Renderer, "claiming")
           /\ UNCHANGED <<decoders, request>>
  <2>1. /\ Roles' /\ DecodersRight' /\ step'[Renderer] = "claiming"
        /\ step' \in [Threads -> WorkerSteps \cup RendererSteps]
    BY <1>1, <1>3, RendererMoves DEF RendererSteps, PoolTypeOK
  <2>2. Resident'
    <3>1. Target(Renderer)' = a /\ \A b \in Assets : Active(b)' <=> Active(b)
      BY <1>3 DEF Target, Active, a
    <3>2. QED
      BY <1>1, <2>1, <3>1, TargetsAreAssets DEF Resident
  <2>3. PoolTypeOK'
    BY <1>3, <2>1 DEF PoolTypeOK, WorkerSteps, RendererSteps, Threads
  <2>4. QueuesBounded' /\ QueuedPicturesLive' /\ PictureIsTheFrame'
    BY <1>3 DEF PictureIsTheFrame, Active
  <2>5. QED
    BY <2>1, <2>2, <2>3, <2>4 DEF DecodersRight
<1>4. CASE /\ ~e.busy
           /\ request' = [request EXCEPT !.seek =
                            ~(e.hasExpected /\ e.nextExpected = request.position)]
           /\ Claim(a) /\ To(Renderer, "decoding") /\ UNCHANGED asleep
  <2>1. /\ decoders'[a] = [e EXCEPT !.busy = TRUE] /\ decoders'[a] \in Entries
        /\ \A b \in Assets \ {a} : decoders'[b] = decoders[b]
        /\ \A b \in Assets : Active(b)' <=> Active(b)
    BY <1>1, <1>2, <1>4 DEF Claim, PoolTypeOK, Active, Entries
  <2>2. /\ request' \in Requests /\ request'.position = request.position
        /\ request'.seek = ~(e.hasExpected /\ e.nextExpected = request.position)
        /\ Target(Renderer)' = a
    BY <1>1, <1>2, <1>4 DEF Requests, Target, a, Entries
  <2>3. /\ step'[Renderer] = "decoding"
        /\ \A w \in Workers : step'[w] = step[w] /\ w # Renderer
        /\ step' \in [Threads -> WorkerSteps \cup RendererSteps]
    BY <1>4 DEF PoolTypeOK, Threads, To, RendererSteps, WorkerSteps
  <2>4. Roles'
    BY <2>2, <2>3 DEF Roles, RendererSteps
  <2>5. PoolTypeOK'
    BY <1>1, <1>4, <2>1, <2>2, <2>3 DEF PoolTypeOK, WorkerSteps, RendererSteps, Claim
  <2>6. Resident'
    BY <1>1, <2>1, <2>2, <2>3, TargetsAreAssets DEF Resident
  <2>7. DecodersRight'
    <3>1. \A u \in Threads \ {Renderer} : (Decoding(u)' <=> Decoding(u)) /\ Target(u)' = Target(u)
      BY <2>3 DEF Decoding, Target, Threads
    <3>2. \A u \in Threads \ {Renderer} :
            Decoding(u) /\ Believed(u) /\ Target(u) # a => Believed(u)'
      BY <2>1, <3>1, TargetsAreAssets DEF Believed, Threads
    <3>3. Believed(Renderer)'
      BY <1>1, <1>2, <1>4, <2>1, <2>2 DEF Believed, CursorKnown, Entries
    <3>4. QED
      BY <1>1, <1>2, <1>4, <2>2, <2>3, <3>1, <3>2, <3>3, TargetsAreAssets, Claimed
         DEF Others, DecodersRight, Decoding, Threads
  <2>8. QueuesBounded' /\ QueuedPicturesLive' /\ PictureIsTheFrame'
    BY <2>1 DEF PictureIsTheFrame
  <2>9. QED
    BY <2>4, <2>5, <2>6, <2>7, <2>8 DEF DecodersRight
<1>5. QED
  BY <1>2, <1>3, <1>4 DEF ClaimForRequest, a

LEMMA LookAgainPreserves ==
  ASSUME PoolInv, LookAgain PROVE PoolInv'
<1>1. /\ queues' = queues /\ queues \in [Clips -> Seq(Pictures)]
      /\ QueuesBounded /\ QueuedPicturesLive /\ step[Renderer] = "claiming"
  BY DEF LookAgain, PoolInv, PoolTypeOK
<1>2. (\A a \in Assets : Active(a)' <=> Active(a)) => QueuesBounded' /\ QueuedPicturesLive'
  BY <1>1, PoolAssumption DEF QueuesBounded, QueuedPicturesLive
<1>3. QED
  BY <1>1, <1>2, RequestClaimed DEF LookAgain

LEMMA LookPreserves ==
  ASSUME PoolInv, Look PROVE PoolInv'
<1> USE PoolAssumption DEF PoolInv
<1> DEFINE c == request.clip
           q == queues[c]
<1>1. /\ request \in Requests /\ c \in Clips /\ q \in Seq(Pictures) /\ Len(q) \in Nat
      /\ step[Renderer] = "looking" /\ ~Decoding(Renderer)
      /\ UNCHANGED <<jobs, stopping, job, lru>>
  BY LenProperties DEF Look, Roles, Wanting, Requests, PoolTypeOK, Decoding
<1>2. CASE /\ queues' = [queues EXCEPT ![c] = <<>>]
           /\ ClaimForRequest /\ UNCHANGED picture
  <2>1. <<>> \in Seq(Pictures) /\ Len(<<>>) = 0
    BY EmptySeq
  <2>2. queues' \in [Clips -> Seq(Pictures)]
    BY <1>1, <1>2, <2>1 DEF PoolTypeOK
  <2>3. (\A a \in Assets : Active(a)' <=> Active(a)) => QueuesBounded' /\ QueuedPicturesLive'
    <3>1. \A i \in 1..Len(<<>>) : \E k \in 1..Len(q) : <<>>[i] = q[k]
      BY <2>1
    <3>2. Len(<<>>) <= Len(q)
      BY <1>1, <2>1
    <3> HIDE DEF PoolInv
    <3>3. QED
      BY <1>1, <1>2, <2>1, <3>1, <3>2, QueueShrinks
  <2>4. QED
    BY <1>1, <1>2, <2>2, <2>3, RequestClaimed
<1>3. ASSUME NEW i \in 1..Len(q), q[i].frame = request.position,
             queues' = [queues EXCEPT ![c] = SubSeq(q, i + 1, Len(q))],
             Deliver(q[i]), UNCHANGED <<decoders, request, asleep>>
      PROVE  PoolInv'
  <2> DEFINE s == SubSeq(q, i + 1, Len(q))
  <2>1. /\ s \in Seq(Pictures) /\ Len(s) = Len(q) - i
        /\ \A k \in 1..(Len(q) - i) : s[k] = q[i + k]
    <3> HIDE DEF q
    <3>1. QED
      BY <1>1, SuffixFacts
  <2> HIDE DEF s, q
  <2>2. queues' \in [Clips -> Seq(Pictures)] /\ QueuesBounded' /\ QueuedPicturesLive'
    <3>1. Len(s) <= Len(q) /\ \A k \in 1..Len(s) : \E m \in 1..Len(q) : s[k] = q[m]
      BY <1>1, <2>1
    <3>2. \A a \in Assets : Active(a)' <=> Active(a)
      BY <1>3 DEF Active
    <3>3. QED
      BY <1>1, <1>3, <2>1, <3>1, <3>2, QueueShrinks DEF q, s
  <2>3. /\ q[i] \in Pictures /\ q[i].asset = AssetOf[c] /\ q[i].frame = request.position
        /\ q[i] = [asset |-> AssetOf[c], frame |-> request.position]
    <3>1. q[i] \in Pictures
      BY <1>1, <1>3, ElementOfSeq
    <3>2. q[i].asset = AssetOf[c]
      BY <1>1, <1>3 DEF QueuedPicturesLive, q
    <3>3. QED
      BY <1>3, <3>1, <3>2 DEF Pictures
  <2>4. PictureIsTheFrame' /\ picture' \in [clip : Clips, position : Frames, shows : Pictures]
    BY <1>1, <1>3, <2>3 DEF PictureIsTheFrame, Deliver, Requests
  <2>5. /\ Roles' /\ DecodersRight' /\ step'[Renderer] = "prefetching"
        /\ step' \in [Threads -> WorkerSteps \cup RendererSteps]
    BY <1>1, <1>3, RendererMoves DEF RendererSteps, Deliver
  <2>6. Resident'
    BY <1>1, <1>3, <2>5 DEF Resident, Active
  <2>7. PoolTypeOK'
    BY <1>1, <1>3, <2>2, <2>4, <2>5 DEF PoolTypeOK, WorkerSteps, RendererSteps
  <2>8. QED
    BY <2>2, <2>4, <2>5, <2>6, <2>7 DEF DecodersRight
<1>4. QED
  BY <1>2, <1>3 DEF Look

LEMMA FinishRequestPreserves ==
  ASSUME PoolInv, FinishRequest PROVE PoolInv'
<1> USE PoolAssumption DEF PoolInv
<1> DEFINE a == Target(Renderer)
           f == IF request.seek THEN request.position
                ELSE Reached(decoders[a].cursor, request.position)
<1>1. /\ step[Renderer] = "decoding" /\ Decoding(Renderer) /\ request \in Requests
      /\ a \in Assets /\ a = AssetOf[request.clip] /\ Active(a) /\ decoders[a] \in Entries
      /\ UNCHANGED <<queues, jobs, stopping, job, lru>>
  <2>1. /\ step[Renderer] = "decoding" /\ Decoding(Renderer) /\ Renderer \in Threads
        /\ UNCHANGED <<queues, jobs, stopping, job, lru>>
    BY DEF FinishRequest, Decoding, Threads
  <2>2. request \in Requests
    BY <2>1 DEF Roles, Wanting
  <2>3. a \in Assets /\ a = AssetOf[request.clip]
    BY <2>2 DEF Requests, Target
  <2>4. Active(a)
    BY <2>1 DEF ClaimsExclusive
  <2>5. decoders[a] \in Entries
    BY <2>3, <2>4 DEF Active, PoolTypeOK
  <2>6. QED
    BY <2>1, <2>2, <2>3, <2>4, <2>5
<1>2. f = request.position
  BY <1>1 DEF Reached, Entries, Requests, Frames, Positioned, Believed, Threads
<1>3. PICK e \in Entries : /\ ~e.busy /\ (e.hasExpected => e.nextExpected = e.cursor)
                           /\ Release(a, e)
  BY <1>1, LeftBehind, LostBehind DEF FinishRequest
<1>4. \/ /\ To(Renderer, "prefetching") /\ request' = request
         /\ picture' = [clip |-> request.clip, position |-> request.position,
                        shows |-> [asset |-> a, frame |-> request.position]]
      \/ To(Renderer, "idle") /\ request' = None /\ UNCHANGED picture
  BY <1>1, <1>2 DEF FinishRequest, Deliver
<1> HIDE DEF f, a
<1>5. /\ decoders'[a] = e /\ e # None
      /\ \A b \in Assets \ {a} : decoders'[b] = decoders[b]
      /\ \A b \in Assets : Active(b)' <=> Active(b)
  BY <1>1, <1>3 DEF Release, PoolTypeOK, Active
<1>6. /\ \A w \in Workers : step'[w] = step[w] /\ w # Renderer
      /\ step'[Renderer] \in {"prefetching", "idle"}
      /\ step'[Renderer] = "prefetching" => request' = request
      /\ step' \in [Threads -> WorkerSteps \cup RendererSteps]
  BY <1>4 DEF PoolTypeOK, Threads, To, RendererSteps, WorkerSteps
<1>7. PictureIsTheFrame' /\ picture' \in [clip : Clips, position : Frames, shows : Pictures] \cup {None}
  BY <1>1, <1>4 DEF PictureIsTheFrame, Requests, Pictures, PoolTypeOK
<1>8. PoolTypeOK'
  BY <1>1, <1>3, <1>4, <1>6, <1>7 DEF PoolTypeOK, Release, WorkerSteps, RendererSteps
<1>9. Roles'
  BY <1>1, <1>6 DEF Roles, RendererSteps, Wanting
<1>10. Resident'
  BY <1>1, <1>5, <1>6, TargetsAreAssets DEF Resident
<1>11. DecodersRight'
  <2>1. \A u \in Threads \ {Renderer} : (Decoding(u)' <=> Decoding(u)) /\ Target(u)' = Target(u)
    BY <1>1, <1>6 DEF Decoding, Target, Threads
  <2>2. \A u \in Threads \ {Renderer} :
          Decoding(u) /\ Believed(u) /\ Target(u) # a => Believed(u)'
    BY <1>1, <1>5, <2>1, TargetsAreAssets DEF Believed, Threads
  <2>3. QED
    BY <1>1, <1>3, <1>6, <2>1, <2>2, TargetsAreAssets, Released
       DEF Others, DecodersRight, Decoding, Threads, a
<1>12. QueuesBounded' /\ QueuedPicturesLive'
  BY <1>1, <1>5 DEF QueuesBounded, QueuedPicturesLive
<1>13. QED
  BY <1>7, <1>8, <1>9, <1>10, <1>11, <1>12 DEF DecodersRight

LEMMA PrefetchPreserves ==
  ASSUME PoolInv, Prefetch PROVE PoolInv'
<1> USE PoolAssumption DEF PoolInv
<1> DEFINE c    == request.clip
           next == request.position + 1
           room == QueueCapacity - Len(queues[c])
           n    == IF next > LastFrame \/ room <= 0 THEN 0
                   ELSE IF room < PrefetchDepth THEN room ELSE PrefetchDepth
<1>1. /\ request \in Requests /\ c \in Clips /\ next \in Nat /\ next <= LastFrame + 1
      /\ step[Renderer] = "prefetching" /\ ~Decoding(Renderer)
      /\ request' = None
      /\ UNCHANGED <<decoders, queues, stopping, job, asleep, lru, picture>>
  BY DEF Prefetch, Roles, Wanting, Requests, Frames, Decoding
<1>2. n \in Nat /\ n <= PrefetchDepth /\ (n > 0 => next <= LastFrame)
  <2>1. Len(queues[c]) \in Nat
    BY <1>1, LenProperties DEF PoolTypeOK
  <2> HIDE DEF c, next
  <2>2. QED
    BY <1>1, <2>1
<1>3. jobs' = jobs \o [i \in 1..n |-> [clip |-> c, position |-> next + i - 1]]
  BY DEF Prefetch
<1> DEFINE added == [i \in 1..n |-> [clip |-> c, position |-> next + i - 1]]
<1>4. jobs' \in Seq(Jobs)
  <2> HIDE DEF n, c, next
  <2>1. \A i \in 1..n : [clip |-> c, position |-> next + i - 1] \in Jobs
    BY <1>1, <1>2 DEF Jobs
  <2>2. added \in [1..n -> Jobs]
    BY <2>1
  <2>3. added \in Seq(Jobs)
    BY <1>2, <2>2, SeqDef
  <2> HIDE DEF added
  <2>4. QED
    BY <1>3, <2>3, ConcatProperties DEF PoolTypeOK, added
<1>5. /\ step'[Renderer] = "idle" /\ ~Decoding(Renderer)'
      /\ \A w \in Workers : step'[w] = step[w] \/ (step[w] = "waiting" /\ step'[w] = "idle")
      /\ step' \in [Threads -> WorkerSteps \cup RendererSteps]
  BY DEF Prefetch, PoolTypeOK, Threads, WorkerSteps, RendererSteps, Decoding
<1>6. PoolTypeOK'
  BY <1>1, <1>4, <1>5 DEF PoolTypeOK, WorkerSteps, RendererSteps
<1>7. Roles'
  BY <1>1, <1>5 DEF Roles, WorkerSteps, RendererSteps, Wanting
<1>8. Resident'
  BY <1>1, <1>5 DEF Resident, Active
<1>9. DecodersRight'
  BY <1>1, <1>5, OthersMove DEF Decoding
<1>10. QueuesBounded' /\ QueuedPicturesLive' /\ PictureIsTheFrame'
  BY <1>1 DEF QueuesBounded, QueuedPicturesLive, PictureIsTheFrame, Active
<1>11. QED
  BY <1>6, <1>7, <1>8, <1>9, <1>10 DEF DecodersRight

LEMMA ShutdownPreserves ==
  ASSUME PoolInv, Shutdown PROVE PoolInv'
<1> USE PoolAssumption DEF PoolInv
<1>1. /\ step'[Renderer] = "joining" /\ ~Decoding(Renderer) /\ ~Decoding(Renderer)'
      /\ step[Renderer] = "idle"
      /\ \A w \in Workers : step'[w] = step[w] \/ (step[w] = "waiting" /\ step'[w] = "idle")
      /\ step' \in [Threads -> WorkerSteps \cup RendererSteps]
      /\ UNCHANGED <<decoders, queues, job, request, lru, picture>>
  BY DEF Shutdown, PoolTypeOK, Threads, WorkerSteps, RendererSteps, Decoding
<1>2. jobs' \in Seq(Jobs)
  BY EmptySeq DEF Shutdown
<1>3. PoolTypeOK'
  BY <1>1, <1>2 DEF Shutdown, PoolTypeOK, WorkerSteps, RendererSteps
<1>4. Roles'
  BY <1>1 DEF Roles, WorkerSteps, RendererSteps, Wanting
<1>5. Resident'
  BY <1>1 DEF Resident, Active
<1>6. DecodersRight'
  BY <1>1, OthersMove DEF Decoding
<1>7. QueuesBounded' /\ QueuedPicturesLive' /\ PictureIsTheFrame'
  BY <1>1 DEF QueuesBounded, QueuedPicturesLive, PictureIsTheFrame, Active
<1>8. QED
  BY <1>3, <1>4, <1>5, <1>6, <1>7 DEF DecodersRight

LEMMA JoinedPreserves ==
  ASSUME PoolInv, Joined PROVE PoolInv'
<1> USE PoolAssumption DEF PoolInv
<1>1. /\ \A t \in Threads : step'[t] = "exited"
      /\ step' \in [Threads -> WorkerSteps \cup RendererSteps]
      /\ decoders' = [a \in Assets |-> None] /\ queues' = [c \in Clips |-> <<>>]
      /\ lru' = <<>>
      /\ UNCHANGED <<jobs, stopping, job, request, asleep, picture>>
  BY DEF Joined, PoolTypeOK, Threads, To, WorkerSteps, RendererSteps
<1>2. PoolTypeOK'
  <2>1. <<>> \in Seq(Pictures) /\ <<>> \in Seq(Assets)
    BY EmptySeq
  <2>2. QED
    BY <1>1, <2>1 DEF PoolTypeOK, WorkerSteps, RendererSteps
<1>3. Roles' /\ Resident'
  BY <1>1 DEF Roles, Resident, WorkerSteps, RendererSteps, Wanting, Active, Threads
<1>4. DecodersRight'
  BY <1>1 DEF DecodersRight, ClaimsExclusive, CursorKnown, Positioned, Decoding, Active, Threads
<1>5. QueuesBounded' /\ QueuedPicturesLive' /\ PictureIsTheFrame'
  BY <1>1 DEF QueuesBounded, QueuedPicturesLive, PictureIsTheFrame
<1>6. QED
  BY <1>2, <1>3, <1>4, <1>5 DEF DecodersRight

-----------------------------------------------------------------------------------
(* PoolInv holds in every state, for any number of clips, assets and workers, any  *)
(* capacities, and any length of the queue of jobs.                                *)
LEMMA InvStep == PoolInv /\ [Next]_poolVars => PoolInv'
<1> SUFFICES ASSUME PoolInv, [Next]_poolVars PROVE PoolInv'
  OBVIOUS
<1>1. ASSUME NEW w \in Workers, WorkerStep(w) PROVE PoolInv'
  BY <1>1, WorkerWaitsPreserves, TakeJobPreserves, ClaimAgainPreserves, FinishJobPreserves
     DEF WorkerStep
<1>2. ASSUME NEW c \in Clips, NEW p \in Frames, Request(c, p) PROVE PoolInv'
  BY <1>2, RequestPreserves
<1>3. CASE RendererStep
  BY <1>3, OpenDecoderPreserves, OpenFailsPreserves, EvictPreserves, EvictionDonePreserves,
     LookPreserves, LookAgainPreserves, FinishRequestPreserves, PrefetchPreserves,
     JoinedPreserves DEF RendererStep
<1>4. CASE Shutdown
  BY <1>4, ShutdownPreserves
<1>5. CASE UNCHANGED poolVars
  <2>1. PoolTypeOK' /\ Roles' /\ QueuesBounded'
    BY <1>5 DEF poolVars, PoolInv, PoolTypeOK, Roles, QueuesBounded
  <2>2. Resident'
    BY <1>5 DEF poolVars, PoolInv, Resident, Active, Target
  <2>3. ClaimsExclusive' /\ CursorKnown' /\ Positioned'
    BY <1>5 DEF poolVars, PoolInv, ClaimsExclusive, CursorKnown, Positioned, Believed,
                Decoding, Active, Target
  <2>4. QueuedPicturesLive' /\ PictureIsTheFrame'
    BY <1>5 DEF poolVars, PoolInv, QueuedPicturesLive, PictureIsTheFrame, Active
  <2>5. QED
    BY <2>1, <2>2, <2>3, <2>4 DEF PoolInv
<1>6. QED
  BY <1>1, <1>2, <1>3, <1>4, <1>5 DEF Next

THEOREM PoolInvariant == Spec => []PoolInv
  BY InvInit, InvStep, PTL DEF Spec

(* Type correctness.                                                               *)
THEOREM PoolTyped == Spec => []PoolTypeOK
<1>1. PoolInv => PoolTypeOK
  BY DEF PoolInv
<1>2. QED
  BY <1>1, PoolInvariant, PTL

(* No decoder is used by two threads or destroyed under one: the claim protocol of *)
(* DecodeWorkerPool.cpp:9-17.                                                      *)
THEOREM PoolExclusive == Spec => []ClaimsExclusive
<1>1. PoolInv => ClaimsExclusive
  BY DEF PoolInv
<1>2. QED
  BY <1>1, PoolInvariant, PTL

(* The recorded position of an idle decoder is where it stands, so that a request  *)
(* seeks exactly when it has to.                                                   *)
THEOREM PoolCursorKnown == Spec => []CursorKnown
<1>1. PoolInv => CursorKnown
  BY DEF PoolInv
<1>2. QED
  BY <1>1, PoolInvariant, PTL

(* Every picture delivered is the frame that was asked for.                        *)
THEOREM PoolPictures == Spec => []PictureIsTheFrame
<1>1. PoolInv => PictureIsTheFrame
  BY DEF PoolInv
<1>2. QED
  BY <1>1, PoolInvariant, PTL

(* Queues never exceed their capacity, and hold pictures of open decoders only.    *)
THEOREM PoolQueues == Spec => [](QueuesBounded /\ QueuedPicturesLive)
<1>1. PoolInv => QueuesBounded /\ QueuedPicturesLive
  BY DEF PoolInv
<1>2. QED
  BY <1>1, PoolInvariant, PTL

(* The provider's list names exactly the open decoders, within its capacity.       *)
THEOREM PoolResidents == Spec => []ResidentAreActive
<1>1. PoolInv => ResidentAreActive
  <2> SUFFICES ASSUME PoolInv PROVE ResidentAreActive
    OBVIOUS
  <2>1. {lru[i] : i \in 1..Len(lru)} = {a \in Assets : Active(a)}
    BY TargetsAreAssets DEF PoolInv, Resident
  <2>2. QED
    BY <2>1 DEF PoolInv, Resident, ResidentAreActive
<1>2. QED
  BY <1>1, PoolInvariant, PTL
====================================================================================
