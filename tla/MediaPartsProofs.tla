----------------------------- MODULE MediaPartsProofs -----------------------------
(***********************************************************************************)
(* Theorems about the media parts: the teardown queue, for any objects and any     *)
(* number of threads that retire them; the cache of the peak envelopes, for any    *)
(* assets, extractor threads and capacities; the encoder, for any output, rate     *)
(* and number of samples; the decoder, for any file, delay of its codecs and       *)
(* order of reads and seeks; the calls of an import, for any callers, spellings    *)
(* and files; the mixer, for any clips, sources and windows; the compositor and    *)
(* its pool, for any tracks, renderers, frames and budget; the sound device, for   *)
(* any buffer and any sizes of what is submitted.                                  *)
(*                                                                                 *)
(* The queue counts what it takes and what it has destroyed, on three kinds of     *)
(* threads. The counts tell the truth because every object is in one place at a    *)
(* time (Apart): queued, in the hands of one thread, or destroyed; and because     *)
(* the worker ends only with an empty queue, so that shutdown() finds nothing      *)
(* left over to destroy (Emptied).                                                 *)
(*                                                                                 *)
(* An asset is extracted once at a time because it is in flight from the moment    *)
(* it is queued (InFlightIsWork), each asset in one place (EachOnce), and what is  *)
(* in the cache is not asked for again (CachedIsSettled).                          *)
(*                                                                                 *)
(* Every sample gets into the file because until the end every chunk is whole and  *)
(* what remains is in the queue (Chunked), and an export that may stop between     *)
(* any two steps leaves nothing at the path because of what each step of the way   *)
(* has already opened (OnTheWay).                                                  *)
(*                                                                                 *)
(* A packet is given out in its turn because what was given and what is held back  *)
(* are together, in order, what was read (EveryPacketInTurn, which is inductive):  *)
(* the other stream has a cursor of its own and a bad packet is skipped by         *)
(* whoever read it. Sound does not go back because the time that the next one is   *)
(* compared with is the last that was stamped (Stamped).                           *)
(*                                                                                 *)
(* An import that finds no rival answers with the entry that is listed, because    *)
(* calls that meet at a location have both been told (RivalsKnow) and what is      *)
(* remembered of a location is listed, or is of an earlier project (CacheKnown).   *)
(*                                                                                 *)
(* A fold is the last value of a function that steps through what is folded        *)
(* (Folds); a sum over a set does not depend on the order (SumAgrees), which is    *)
(* what the pool's figures rest on (Accounts). A picture is drawn bottom to top    *)
(* because what was gathered lists each track's clips in their order, every layer  *)
(* once (Gathered), and a layer is inserted after those of its own and of lower    *)
(* tracks (InsertByTrack). The clock of a device tells the truth because at every  *)
(* moment of a call each frame is queued, played, overflowed or still to be        *)
(* counted (Where).                                                                *)
(***********************************************************************************)
EXTENDS MCMediaParts, SequenceLemmas

-----------------------------------------------------------------------------------
(* The teardown queue. *)

Handling == {"destroying", "counting"}

(* Where each kind of thread can be, and which of them holds an object.    *)
Places ==
    /\ at[Worker] \in {"idle", "ended"} \cup Handling
    /\ at[Owner] \in {"idle", "joining", "ended"}
    /\ \A c \in Callers : at[c] \in {"idle", "draining"} \cup Handling
    /\ \A t \in Threads : item[t] # NoObject <=> at[t] \in Handling

(* No object is in two places.                                             *)
Apart ==
    /\ \A i, j \in 1 .. Len(queue) : queue[i] = queue[j] => i = j
    /\ \A i \in 1 .. Len(queue) : queue[i] \notin destroyed
    /\ \A i \in 1 .. Len(queue), t \in Threads : queue[i] # item[t]
    /\ \A t, u \in Threads : item[t] # NoObject /\ item[t] = item[u] => t = u
    /\ \A t \in Threads : at[t] = "destroying" => item[t] \notin destroyed
    /\ \A t \in Threads : at[t] = "counting" => item[t] \in destroyed

(* What was destroyed has been counted or is about to be.                  *)
AllCounted == Cardinality(destroyed) = retired + Cardinality(Held \cap destroyed)

Emptied == at[Worker] = "ended" => stopping /\ queue = <<>>

TeardownInv ==
    /\ TeardownTypeOK /\ Places /\ Apart /\ Emptied
    /\ AllCounted /\ PendingIsExact

-----------------------------------------------------------------------------
(* The objects in hand, when one thread takes an object up ...             *)
LEMMA TakeUp ==
    ASSUME NEW t \in Threads, NEW o \in Objects,
           item \in [Threads -> Objects \cup {NoObject}],
           item[t] = NoObject, item' = [item EXCEPT ![t] = o]
    PROVE  Held' = Held \cup {o}
<1> NoObject \notin Objects
  BY TeardownAssumption
<1> QED
  BY DEF Held

(* ... and when it lets go of the object that only it holds.               *)
LEMMA LetGo ==
    ASSUME NEW t \in Threads,
           item \in [Threads -> Objects \cup {NoObject}],
           \A u \in Threads : item[t] # NoObject /\ item[t] = item[u] => t = u,
           item' = [item EXCEPT ![t] = NoObject]
    PROVE  Held' = Held \ {item[t]}
BY DEF Held

(* The sets that are counted are finite.                                   *)
LEMMA Countable ==
    ASSUME TeardownTypeOK
    PROVE  /\ IsFiniteSet(Held) /\ Held \subseteq Objects
           /\ IsFiniteSet(destroyed) /\ IsFiniteSet(Held \cap destroyed)
           /\ Cardinality(Held) \in Nat /\ Cardinality(destroyed) \in Nat
           /\ Cardinality(Held \cap destroyed) \in Nat /\ Len(queue) \in Nat
<1>1. Held \subseteq Objects /\ destroyed \subseteq Objects /\ IsFiniteSet(Objects)
  BY TeardownAssumption DEF TeardownTypeOK, Held
<1>2. IsFiniteSet(Held) /\ IsFiniteSet(destroyed)
  BY <1>1, FS_Subset
<1>3. IsFiniteSet(Held \cap destroyed)
  BY <1>2, FS_Subset
<1> QED
  BY <1>1, <1>2, <1>3, FS_CardinalityType, LenProperties DEF TeardownTypeOK

(* Nothing the counts are about has moved.                                 *)
LEMMA Unmoved ==
    ASSUME TeardownInv, UNCHANGED <<queue, accepted, retired, item, destroyed>>
    PROVE  AllCounted' /\ PendingIsExact'
BY DEF TeardownInv, AllCounted, PendingIsExact, Held

-----------------------------------------------------------------------------
LEMMA TeardownInvInit == TeardownInit => TeardownInv
<1> SUFFICES ASSUME TeardownInit PROVE TeardownInv
  OBVIOUS
<1>1. TeardownTypeOK
  BY EmptySeq DEF TeardownInit, TeardownTypeOK
<1>2. Held = {} /\ Len(queue) = 0
  BY EmptySeq DEF TeardownInit, Held
<1>3. Places /\ Apart /\ Emptied
  BY <1>2, TeardownAssumption
  DEF TeardownInit, Places, Apart, Emptied, Threads, Handling
<1>4. AllCounted /\ PendingIsExact
  BY <1>2, FS_EmptySet DEF TeardownInit, AllCounted, PendingIsExact
<1> QED
  BY <1>1, <1>3, <1>4 DEF TeardownInv
-----------------------------------------------------------------------------
LEMMA SubmitInv ==
    ASSUME TeardownInv, NEW c \in Callers, NEW o \in Objects, Submit(c, o)
    PROVE  TeardownInv'
<1> USE DEF TeardownInv
<1>0. c \in Threads /\ c # Worker /\ c # Owner /\ item[c] = NoObject /\ o # NoObject
  BY TeardownAssumption DEF Submit, Threads, Places, Handling
<1>1. o \notin destroyed /\ o \notin Held /\ \A i \in 1 .. Len(queue) : queue[i] # o
  BY DEF Submit, Queued
<1>2. \A t \in Threads : item[t] # o
  BY <1>0, <1>1 DEF Held
<1>3. CASE stopping
  <2> USE <1>3
  <2>1. /\ item' = [item EXCEPT ![c] = o] /\ at' = [at EXCEPT ![c] = "destroying"]
        /\ accepted' = accepted + 1
        /\ UNCHANGED <<queue, asleep, stopping, retired, destroyed>>
    BY DEF Submit, Goto
  <2>2. TeardownTypeOK'
    BY <2>1, <1>0 DEF TeardownTypeOK
  <2>3. Held' = Held \cup {o}
    BY <2>1, <1>0, TakeUp DEF TeardownTypeOK
  <2>4. Places' /\ Apart' /\ Emptied'
    BY <2>1, <1>0, <1>1, <1>2 DEF TeardownTypeOK, Places, Apart, Emptied, Handling, Threads
  <2>5. AllCounted'
    <3>1. Held' \cap destroyed' = Held \cap destroyed
      BY <2>1, <2>3, <1>1
    <3> QED
      BY <2>1, <3>1 DEF AllCounted
  <2>6. PendingIsExact'
    <3>1. Cardinality(Held') = Cardinality(Held) + 1
      BY <2>3, <1>1, Countable, FS_AddElement
    <3> QED
      BY <2>1, <3>1, Countable DEF PendingIsExact, TeardownTypeOK
  <2> QED
    BY <2>2, <2>4, <2>5, <2>6
<1>4. CASE ~stopping
  <2> USE <1>4
  <2>1. /\ queue' = Append(queue, o) /\ asleep' = asleep \ {Worker}
        /\ accepted' = accepted + 1
        /\ UNCHANGED <<item, at, stopping, retired, destroyed>>
    BY DEF Submit
  <2>2. /\ queue' \in Seq(Objects) /\ Len(queue') = Len(queue) + 1 /\ Len(queue) \in Nat
        /\ queue'[Len(queue) + 1] = o
        /\ \A i \in 1 .. Len(queue) : queue'[i] = queue[i]
    BY <2>1, AppendProperties, LenProperties DEF TeardownTypeOK
  <2>3. TeardownTypeOK'
    BY <2>1, <2>2 DEF TeardownTypeOK
  <2>4. Places' /\ Emptied'
    BY <2>1 DEF Places, Emptied
  <2>5. Apart'
    <3>1. \A i \in 1 .. Len(queue') : i \in 1 .. Len(queue) \/ i = Len(queue) + 1
      BY <2>2
    <3> QED
      BY <2>1, <2>2, <3>1, <1>1, <1>2 DEF Apart
  <2>6. AllCounted' /\ PendingIsExact'
    <3>1. Held' = Held
      BY <2>1 DEF Held
    <3> QED
      BY <2>1, <2>2, <3>1, Countable DEF AllCounted, PendingIsExact, TeardownTypeOK
  <2> QED
    BY <2>3, <2>4, <2>5, <2>6
<1> QED
  BY <1>3, <1>4 DEF TeardownTypeOK

LEMMA DestroyInv ==
    ASSUME TeardownInv, NEW t \in Threads, Destroy(t)
    PROVE  TeardownInv'
<1> USE DEF TeardownInv
<1>1. /\ at[t] = "destroying" /\ destroyed' = destroyed \cup {item[t]}
      /\ at' = [at EXCEPT ![t] = "counting"]
      /\ UNCHANGED <<queue, stopping, accepted, retired, item, asleep>>
  BY DEF Destroy, Goto
<1>2. item[t] # NoObject /\ item[t] \in Objects /\ item[t] \notin destroyed /\ t # Owner
  BY <1>1 DEF Places, Apart, TeardownTypeOK, Handling
<1>3. TeardownTypeOK'
  BY <1>1, <1>2 DEF TeardownTypeOK
<1>4. Places' /\ Emptied'
  BY <1>1, <1>2 DEF TeardownTypeOK, Places, Emptied, Handling, Threads
<1>5. Apart'
  BY <1>1, <1>2 DEF TeardownTypeOK, Apart
<1>6. Held' = Held /\ item[t] \in Held
  BY <1>1, <1>2 DEF Held
<1>7. Held' \cap destroyed' = (Held \cap destroyed) \cup {item[t]}
  BY <1>1, <1>6
<1>8. AllCounted'
  <2>1. /\ Cardinality(Held' \cap destroyed') = Cardinality(Held \cap destroyed) + 1
        /\ Cardinality(destroyed') = Cardinality(destroyed) + 1
    BY <1>1, <1>2, <1>7, Countable, FS_AddElement
  <2> QED
    BY <1>1, <2>1, Countable DEF AllCounted, TeardownTypeOK
<1>9. PendingIsExact'
  BY <1>1, <1>6 DEF PendingIsExact
<1> QED
  BY <1>3, <1>4, <1>5, <1>8, <1>9

LEMMA CountInv ==
    ASSUME TeardownInv, NEW t \in Threads, Count(t)
    PROVE  TeardownInv'
<1> USE DEF TeardownInv
<1>1. /\ at[t] = "counting" /\ retired' = retired + 1
      /\ at' = [at EXCEPT ![t] = "idle"] /\ item' = [item EXCEPT ![t] = NoObject]
      /\ asleep' \subseteq asleep
      /\ UNCHANGED <<queue, stopping, accepted, destroyed>>
  BY DEF Count, Goto
<1>2. item[t] # NoObject /\ item[t] \in destroyed /\ t # Owner
  BY <1>1 DEF Places, Apart, Handling
<1>3. TeardownTypeOK'
  BY <1>1 DEF TeardownTypeOK
<1>4. Places' /\ Emptied'
  BY <1>1, <1>2 DEF TeardownTypeOK, Places, Emptied, Handling, Threads
<1>5. Apart'
  <2>1. \A i \in 1 .. Len(queue) : queue[i] # NoObject
    BY TeardownAssumption, ElementOfSeq DEF TeardownTypeOK
  <2> QED
    BY <1>1, <2>1 DEF TeardownTypeOK, Apart
<1>6. Held' = Held \ {item[t]} /\ item[t] \in Held
  <2>1. Held' = Held \ {item[t]}
    BY <1>1, LetGo DEF TeardownTypeOK, Apart
  <2> QED
    BY <1>2, <2>1 DEF Held
<1>7. Held' \cap destroyed' = (Held \cap destroyed) \ {item[t]}
  BY <1>1, <1>6
<1>8. AllCounted'
  <2>1. Cardinality(Held' \cap destroyed') = Cardinality(Held \cap destroyed) - 1
    <3> DEFINE S == Held \cap destroyed
    <3>1. IsFiniteSet(S) /\ item[t] \in S
      BY <1>2, <1>6, Countable
    <3>2. Cardinality(S \ {item[t]}) = Cardinality(S) - 1
      <4> HIDE DEF S
      <4> QED
        BY <3>1, FS_RemoveElement
    <3> QED
      BY <1>7, <3>2
  <2> QED
    BY <1>1, <2>1, Countable DEF AllCounted, TeardownTypeOK
<1>9. PendingIsExact'
  <2>1. Cardinality(Held') = Cardinality(Held) - 1
    BY <1>6, Countable, FS_RemoveElement
  <2> QED
    BY <1>1, <2>1, Countable DEF PendingIsExact, TeardownTypeOK
<1> QED
  BY <1>3, <1>4, <1>5, <1>8, <1>9

LEMMA WorkerTakesInv ==
    ASSUME TeardownInv, WorkerTakes
    PROVE  TeardownInv'
<1> USE DEF TeardownInv
<1> DEFINE o == Head(queue)
<1>0. Worker \in Threads /\ Worker # Owner /\ Worker \notin Callers
  BY TeardownAssumption DEF Threads
<1>1. /\ at[Worker] = "idle" /\ queue # <<>> /\ queue' = Tail(queue)
      /\ item' = [item EXCEPT ![Worker] = o] /\ at' = [at EXCEPT ![Worker] = "destroying"]
      /\ UNCHANGED <<stopping, accepted, retired, asleep, destroyed>>
  BY DEF WorkerTakes, Goto
<1>2. /\ Len(queue) \in Nat \ {0} /\ o \in Objects /\ o = queue[1]
      /\ queue' \in Seq(Objects) /\ Len(queue') = Len(queue) - 1
      /\ \A i \in 1 .. Len(queue') : queue'[i] = queue[i + 1]
  BY <1>1, EmptySeq, HeadTailProperties, LenProperties DEF TeardownTypeOK
<1>3. o # NoObject /\ item[Worker] = NoObject /\ o \notin destroyed
  BY <1>0, <1>1, <1>2, TeardownAssumption DEF Places, Handling, Apart
<1>4. /\ \A t \in Threads : item[t] # o
      /\ \A i \in 1 .. Len(queue') : queue'[i] # o
  <2>1. \A i \in 1 .. Len(queue') : i + 1 \in 1 .. Len(queue) /\ i + 1 # 1
    BY <1>2
  <2> QED
    BY <1>2, <2>1 DEF Apart
<1>5. TeardownTypeOK'
  BY <1>0, <1>1, <1>2 DEF TeardownTypeOK
<1>6. Places' /\ Emptied'
  BY <1>0, <1>1, <1>3 DEF TeardownTypeOK, Places, Emptied, Handling, Threads
<1>7. Apart'
  <2>1. \A i \in 1 .. Len(queue') : i + 1 \in 1 .. Len(queue)
    BY <1>2
  <2>2. \A i, j \in 1 .. Len(queue') : queue'[i] = queue'[j] => i = j
    BY <1>2, <2>1 DEF Apart
  <2>3. \A i \in 1 .. Len(queue') : queue'[i] \notin destroyed'
    BY <1>1, <1>2, <2>1 DEF Apart
  <2>4. \A i \in 1 .. Len(queue'), t \in Threads : queue'[i] # item'[t]
    BY <1>0, <1>1, <1>2, <1>4, <2>1 DEF Apart, TeardownTypeOK
  <2>5. /\ \A t, u \in Threads : item'[t] # NoObject /\ item'[t] = item'[u] => t = u
        /\ \A t \in Threads : at'[t] = "destroying" => item'[t] \notin destroyed'
        /\ \A t \in Threads : at'[t] = "counting" => item'[t] \in destroyed'
    BY <1>0, <1>1, <1>3, <1>4 DEF Apart, TeardownTypeOK
  <2> QED
    BY <2>2, <2>3, <2>4, <2>5 DEF Apart
<1>8. Held' = Held \cup {o} /\ o \notin Held
  BY <1>0, <1>1, <1>2, <1>3, <1>4, TakeUp DEF Held, TeardownTypeOK
<1>9. Held' \cap destroyed' = Held \cap destroyed
  BY <1>1, <1>3, <1>8
<1>10. AllCounted'
  BY <1>1, <1>9 DEF AllCounted
<1>11. PendingIsExact'
  <2>1. Cardinality(Held') = Cardinality(Held) + 1
    BY <1>8, Countable, FS_AddElement
  <2> QED
    BY <1>1, <1>2, <2>1, Countable DEF PendingIsExact, TeardownTypeOK
<1> QED
  BY <1>5, <1>6, <1>7, <1>10, <1>11

(* The steps that move no object.                                          *)
LEMMA WaitingInv ==
    ASSUME TeardownInv,
           \/ WorkerSleeps \/ WorkerEnds \/ Shutdown
           \/ \E c \in Callers : Drain(c) \/ DrainReturns(c)
    PROVE  TeardownInv'
<1> USE DEF TeardownInv
<1>1. UNCHANGED <<queue, accepted, retired, item, destroyed>>
  BY DEF WorkerSleeps, WorkerEnds, Shutdown, Drain, DrainReturns
<1>2. AllCounted' /\ PendingIsExact'
  BY <1>1, Unmoved
<1> SUFFICES TeardownTypeOK' /\ Places' /\ Apart' /\ Emptied'
  BY <1>2
<1> USE TeardownAssumption DEF Threads, TeardownTypeOK, Places, Apart, Emptied, Handling, Goto
<1>3. CASE WorkerSleeps
  BY <1>3 DEF WorkerSleeps
<1>4. CASE WorkerEnds
  BY <1>4 DEF WorkerEnds
<1>5. CASE Shutdown
  BY <1>5 DEF Shutdown
<1>6. ASSUME NEW c \in Callers, Drain(c) \/ DrainReturns(c)
      PROVE  TeardownTypeOK' /\ Places' /\ Apart' /\ Emptied'
  <2>1. asleep' \subseteq Threads
    BY <1>6 DEF Drain, DrainReturns
  <2>2. at' = at \/ \E place \in {"idle", "draining"} : at' = [at EXCEPT ![c] = place]
    BY <1>6 DEF Drain, DrainReturns
  <2>3. c # Worker /\ c # Owner /\ at[c] \notin {"destroying", "counting"} /\ stopping' = stopping
    BY <1>6 DEF Drain, DrainReturns
  <2> QED
    BY <1>1, <2>1, <2>2, <2>3
<1> QED
  BY <1>3, <1>4, <1>5, <1>6

(* shutdown() returns: the worker has left nothing in the queue.           *)
LEMMA ShutdownReturnsInv ==
    ASSUME TeardownInv, ShutdownReturns
    PROVE  TeardownInv'
<1> USE DEF TeardownInv
<1>1. queue = <<>> /\ Len(queue) = 0 /\ Queued = {}
  BY EmptySeq DEF ShutdownReturns, Emptied, Queued
<1>2. UNCHANGED <<queue, accepted, retired, item, destroyed, stopping>>
  BY <1>1 DEF ShutdownReturns, TeardownTypeOK
<1>3. at' = [at EXCEPT ![Owner] = "ended"] /\ asleep' \subseteq asleep /\ at[Owner] = "joining"
  BY DEF ShutdownReturns, Goto
<1>4. Owner \in Threads /\ Owner # Worker /\ Owner \notin Callers
  BY TeardownAssumption DEF Threads
<1>5. TeardownTypeOK'
  BY <1>2, <1>3 DEF TeardownTypeOK
<1>6. Places' /\ Apart' /\ Emptied'
  BY <1>2, <1>3, <1>4 DEF TeardownTypeOK, Places, Apart, Emptied, Handling, Threads
<1> QED
  BY <1>2, <1>5, <1>6, Unmoved

LEMMA TeardownInvNext == TeardownInv /\ [TeardownNext]_teardownVars => TeardownInv'
<1> SUFFICES ASSUME TeardownInv, [TeardownNext]_teardownVars PROVE TeardownInv'
  OBVIOUS
<1>1. CASE UNCHANGED teardownVars
  <2>1. AllCounted' /\ PendingIsExact'
    BY <1>1, Unmoved DEF teardownVars
  <2> QED
    BY <1>1, <2>1
    DEF teardownVars, TeardownInv, TeardownTypeOK, Places, Apart, Emptied
<1>2. ASSUME NEW t \in Threads, ThreadStep(t) PROVE TeardownInv'
  BY <1>2, DestroyInv, CountInv DEF ThreadStep
<1>3. CASE WorkerStep
  BY <1>2, <1>3, WorkerTakesInv, WaitingInv DEF WorkerStep, Threads
<1>4. CASE Shutdown \/ ShutdownReturns
  BY <1>4, WaitingInv, ShutdownReturnsInv
<1>5. ASSUME NEW c \in Callers, CallerStep(c) \/ Drain(c) \/ \E o \in Objects : Submit(c, o)
      PROVE  TeardownInv'
  BY <1>2, <1>5, WaitingInv, SubmitInv DEF CallerStep, Threads
<1> QED
  BY <1>1, <1>3, <1>4, <1>5 DEF TeardownNext

-----------------------------------------------------------------------------
LEMMA TeardownInvHolds == TeardownSpec => []TeardownInv
BY TeardownInvInit, TeardownInvNext, PTL DEF TeardownSpec

(* Type correctness of the queue, its threads and its counts.              *)
THEOREM TeardownTyped == TeardownSpec => []TeardownTypeOK
<1>1. TeardownInv => TeardownTypeOK
  BY DEF TeardownInv
<1> QED
  BY <1>1, TeardownInvHolds, PTL

(* What drain() and pending() rest on, for any number of objects and of    *)
(* threads: the two counts differ by exactly the objects on their way, and *)
(* when they are equal every object handed over so far is destroyed.       *)
THEOREM TeardownCounts == TeardownSpec => []TeardownSound
<1>1. TeardownInv => TeardownSound
  <2> SUFFICES ASSUME TeardownInv, accepted = retired
               PROVE  queue = <<>> /\ Held = {} /\ Cardinality(destroyed) = accepted
    BY DEF TeardownInv, TeardownSound, DrainedIsDestroyed
  <2>1. Len(queue) = 0 /\ Cardinality(Held) = 0
    BY Countable DEF TeardownInv, PendingIsExact, TeardownTypeOK
  <2>2. queue = <<>> /\ Held = {}
    BY <2>1, Countable, EmptySeq, FS_EmptySet DEF TeardownInv, TeardownTypeOK
  <2>3. Cardinality(Held \cap destroyed) = 0
    BY <2>2, FS_EmptySet
  <2> QED
    BY <2>2, <2>3 DEF TeardownInv, AllCounted, TeardownTypeOK
<1> QED
  BY <1>1, TeardownInvHolds, PTL

(* The worker leaves nothing behind: when it has ended, shutdown() finds   *)
(* an empty queue, and no object is destroyed on the thread that owns it.  *)
THEOREM WorkerLeavesNothing == TeardownSpec => [](at[Worker] = "ended" => queue = <<>>)
<1>1. TeardownInv => (at[Worker] = "ended" => queue = <<>>)
  BY DEF TeardownInv, Emptied
<1> QED
  BY <1>1, TeardownInvHolds, PTL

-----------------------------------------------------------------------------------
(* The peak envelopes. *)

(* What is queued and what is being extracted: each asset once, nothing that is in *)
(* the cache; the cache holds an asset once.                                       *)
Working == {w \in Extractors : doing[w] = "extracting"}
EnvelopeRecords ==
  /\ EnvelopeTypeOK
  /\ \A w \in Extractors : doing[w] \in {"extracting", "reporting"} => job[w] \in Assets
  /\ IsInjective(jobs) /\ IsInjective(recency)

EachOnce ==
  /\ \A v, w \in Working : job[v] = job[w] => v = w
  /\ ToSet(jobs) \cap Extracting = {}

InFlightIsWork == IF closing THEN jobs = <<>> ELSE inFlight = ToSet(jobs) \cup Extracting

EnvelopeInv == EnvelopeRecords /\ EachOnce /\ InFlightIsWork /\ CachedIsSettled

LEMMA ExtractingIs == Extracting = {job[w] : w \in Working}
BY DEF Extracting, Working

LEMMA EnvelopesStart == EnvelopeInit => EnvelopeInv
<1> SUFFICES ASSUME EnvelopeInit PROVE EnvelopeInv
  OBVIOUS
<1> USE EnvelopeAssumption DEF EnvelopeInit
<1>1. ToSet(<<>>) = {} /\ IsInjective(<<>>) /\ <<>> \in Seq(Assets) /\ Len(<<>>) = 0
  BY DEF ToSet, IsInjective
<1>2. Working = {} /\ Extracting = {}
  BY DEF Working, Extracting
<1>3. EnvelopeRecords
  <2>1. Len(recency) <= EnvelopeCapacity /\ 0 \in 0..MaxScrolls
    BY <1>1
  <2>2. EnvelopeTypeOK
    BY <1>1, <2>1 DEF EnvelopeTypeOK
  <2>3. QED
    BY <1>1, <2>2 DEF EnvelopeRecords
<1>4. QED
  BY <1>1, <1>2, <1>3 DEF EnvelopeInv, EachOnce, InFlightIsWork, CachedIsSettled, Cached

LEMMA CountsAreExact == EnvelopeInv => EnvelopesSound
<1> SUFFICES ASSUME EnvelopeInv PROVE EnvelopesSound
  OBVIOUS
<1>1. IsFiniteSet(ToSet(jobs)) /\ Cardinality(ToSet(jobs)) = Len(jobs) /\ Len(jobs) \in Nat
  BY InjectiveLength DEF EnvelopeInv, EnvelopeRecords, EnvelopeTypeOK
<1>2. IsFiniteSet(Working) /\ Cardinality(Working) \in Nat
  BY EnvelopeAssumption, FS_Subset, FS_CardinalityType DEF Working
<1>3. IsFiniteSet(Extracting) /\ Cardinality(Extracting) = Cardinality(Working)
  <2> DEFINE f == [w \in Working |-> job[w]]
  <2>1. f \in Bijection(Working, Extracting)
    BY ExtractingIs DEF Bijection, Injection, Surjection, IsInjective, EnvelopeInv, EachOnce
  <2>2. QED
    BY <1>2, <2>1, FS_Bijection DEF ExistsBijection
<1>4. Cardinality(ToSet(jobs) \cup Extracting) = Cardinality(ToSet(jobs)) + Cardinality(Extracting)
  <2>1. Cardinality(ToSet(jobs) \cap Extracting) = 0
    <3>1. ToSet(jobs) \cap Extracting = {}
      BY DEF EnvelopeInv, EachOnce
    <3>2. QED
      BY Zenon, <3>1, FS_EmptySet
  <2>2. Cardinality(ToSet(jobs) \cup Extracting)
          = Cardinality(ToSet(jobs)) + Cardinality(Extracting) - Cardinality(ToSet(jobs) \cap Extracting)
    BY <1>1, <1>3, FS_Union
  <2>3. QED
    BY <1>1, <1>2, <1>3, <2>1, <2>2
<1>5. PendingIsWorkedOn
  BY <1>1, <1>3, <1>4 DEF PendingIsWorkedOn, Working, EnvelopeInv, InFlightIsWork
<1>6. QED
  BY <1>5 DEF EnvelopesSound, EnvelopeInv

LEMMA LookupKeeps == ASSUME EnvelopeInv, NEW a \in Assets, Lookup(a) PROVE EnvelopeInv'
<1> USE EnvelopeAssumption
<1>1. /\ toPaint' = toPaint \ {a}
      /\ UNCHANGED <<closing, doing, job, failed, scene, dirty, scrolls, closer>>
      /\ Extracting' = Extracting /\ Working' = Working
  BY DEF Lookup, Extracting, Working
<1>2. EnvelopeTypeOK /\ IsInjective(jobs) /\ IsInjective(recency)
  BY DEF EnvelopeInv, EnvelopeRecords
<1>3. CASE a \in Cached
  <2>1. recency' = <<a>> \o RemoveFirst(recency, a) /\ UNCHANGED <<jobs, inFlight, waiting>>
    BY <1>3 DEF Lookup, Touched
  <2>2. /\ recency' \in Seq(Assets) /\ IsInjective(recency') /\ ToSet(recency') = ToSet(recency) \cup {a}
        /\ Len(recency') <= Len(recency)
    BY <1>2, <1>3, <2>1, TouchedSet DEF EnvelopeTypeOK, Cached
  <2>3. Cached' = Cached
    BY <1>3, <2>2 DEF Cached
  <2>4. EnvelopeRecords'
    BY <1>1, <1>2, <2>1, <2>2, <2>3 DEF EnvelopeInv, EnvelopeRecords, EnvelopeTypeOK
  <2>5. QED
    BY <1>1, <2>1, <2>3, <2>4 DEF EnvelopeInv, EachOnce, InFlightIsWork, CachedIsSettled
<1>4. CASE a \notin Cached /\ (closing \/ a \in inFlight)
  <2>1. UNCHANGED <<jobs, inFlight, waiting, recency>>
    BY <1>4 DEF Lookup, Schedule
  <2>2. Cached' = Cached
    BY <2>1 DEF Cached
  <2>3. EnvelopeRecords'
    BY <1>1, <1>2, <2>1, <2>2 DEF EnvelopeInv, EnvelopeRecords, EnvelopeTypeOK
  <2>4. QED
    BY <1>1, <2>1, <2>2, <2>3 DEF EnvelopeInv, EachOnce, InFlightIsWork, CachedIsSettled
<1>5. CASE a \notin Cached /\ ~(closing \/ a \in inFlight)
  <2>1. inFlight' = inFlight \cup {a} /\ jobs' = Append(jobs, a) /\ waiting' \subseteq waiting /\ recency' = recency
    BY <1>5 DEF Lookup, Schedule, WakeOne
  <2>2. Cached' = Cached
    BY <2>1 DEF Cached
  <2>3. a \notin ToSet(jobs) \cup Extracting /\ inFlight = ToSet(jobs) \cup Extracting
    BY <1>5 DEF EnvelopeInv, InFlightIsWork
  <2>4. jobs' \in Seq(Assets) /\ IsInjective(jobs') /\ ToSet(jobs') = ToSet(jobs) \cup {a}
    BY <1>2, <2>1, <2>3, AppendedSet DEF EnvelopeTypeOK
  <2>5. EnvelopeRecords'
    BY <1>1, <1>2, <2>1, <2>2, <2>4 DEF EnvelopeInv, EnvelopeRecords, EnvelopeTypeOK
  <2>6. QED
    BY <1>1, <1>5, <2>1, <2>2, <2>3, <2>4, <2>5 DEF EnvelopeInv, EachOnce, InFlightIsWork, CachedIsSettled
<1>6. QED
  BY <1>3, <1>4, <1>5

(* What a worker does changes only its own place.                                  *)
LEMMA PlaceOf ==
  ASSUME EnvelopeTypeOK, NEW w \in Extractors, NEW place, Becomes(w, place)
  PROVE  /\ doing'[w] = place /\ \A v \in Extractors : v # w => doing'[v] = doing[v]
         /\ Working' = IF place = "extracting" THEN Working \cup {w} ELSE Working \ {w}
BY DEF EnvelopeTypeOK, Becomes, Working

LEMMA StartsKeeps == ASSUME EnvelopeInv, NEW w \in Extractors, WorkerStarts(w) PROVE EnvelopeInv'
<1>1. /\ doing[w] = "waiting" /\ w \notin waiting /\ jobs # <<>> /\ ~closing
      /\ job' = [job EXCEPT ![w] = Head(jobs)] /\ jobs' = Tail(jobs) /\ Becomes(w, "extracting")
      /\ UNCHANGED <<inFlight, waiting, recency, failed, closing, scene, toPaint, dirty, scrolls, closer>>
  BY DEF WorkerStarts, view
<1>2. EnvelopeTypeOK /\ IsInjective(jobs) /\ IsInjective(recency)
  BY DEF EnvelopeInv, EnvelopeRecords
<1>3. /\ jobs' \in Seq(Assets) /\ IsInjective(jobs') /\ Head(jobs) \in Assets
      /\ ToSet(jobs') = ToSet(jobs) \ {Head(jobs)} /\ Head(jobs) \in ToSet(jobs)
  BY <1>1, <1>2, TailSet DEF EnvelopeTypeOK
<1>4. /\ doing'[w] = "extracting" /\ \A v \in Extractors : v # w => doing'[v] = doing[v]
      /\ Working' = Working \cup {w} /\ w \notin Working
  BY <1>1, <1>2, PlaceOf DEF Working
<1>5. job'[w] = Head(jobs) /\ (\A v \in Extractors : v # w => job'[v] = job[v]) /\ job' \in [Extractors -> Assets \cup {NoAsset}]
  BY <1>1, <1>2, <1>3 DEF EnvelopeTypeOK
<1>6. Extracting' = Extracting \cup {Head(jobs)}
  <2>1. Extracting' = {job'[v] : v \in Working'} /\ Extracting = {job[v] : v \in Working} /\ Working \subseteq Extractors
    BY DEF Extracting, Working
  <2>2. \A v \in Working : job'[v] = job[v]
    BY <1>4, <1>5, <2>1
  <2>3. QED
    BY <1>4, <1>5, <2>1, <2>2
<1>7. Cached' = Cached
  BY <1>1 DEF Cached
<1>8. EnvelopeRecords'
  <2>1. doing' \in [Extractors -> {"waiting", "extracting", "reporting", "ended"}]
    BY <1>1, <1>2 DEF EnvelopeTypeOK, Becomes
  <2>2. EnvelopeTypeOK'
    BY <1>1, <1>2, <1>3, <1>5, <1>7, <2>1 DEF EnvelopeTypeOK
  <2>3. QED
    BY <1>1, <1>2, <1>3, <1>4, <1>5, <2>2 DEF EnvelopeInv, EnvelopeRecords
<1>9. EachOnce'
  <2>1. \A v \in Working : job[v] # Head(jobs) /\ v \in Extractors
    BY <1>3, ExtractingIs DEF EnvelopeInv, EachOnce, Working
  <2>2. QED
    BY <1>3, <1>4, <1>5, <1>6, <2>1 DEF EnvelopeInv, EachOnce
<1>10. InFlightIsWork' /\ CachedIsSettled'
  BY <1>1, <1>3, <1>6, <1>7 DEF EnvelopeInv, InFlightIsWork, CachedIsSettled
<1>11. QED
  BY <1>8, <1>9, <1>10 DEF EnvelopeInv

LEMMA StoresKeeps == ASSUME EnvelopeInv, NEW w \in Extractors, WorkerStores(w) PROVE EnvelopeInv'
<1> USE EnvelopeAssumption
<1> DEFINE a == job[w]
           order == Touched(a)
<1>1. /\ doing[w] = "extracting" /\ recency' = Evicted(order)
      /\ failed' \subseteq ToSet(recency')
      /\ inFlight' = inFlight \ {a} /\ Becomes(w, "reporting")
      /\ UNCHANGED <<jobs, job, waiting, closing, scene, toPaint, dirty, scrolls, closer>>
  BY DEF WorkerStores, view
<1>2. EnvelopeTypeOK /\ IsInjective(jobs) /\ IsInjective(recency) /\ a \in Assets /\ w \in Working
  BY <1>1 DEF EnvelopeInv, EnvelopeRecords, Working
<1>3. /\ order \in Seq(Assets) /\ IsInjective(order) /\ ToSet(order) = Cached \cup {a} /\ Len(order) \in Nat
  BY <1>2, TouchedSet DEF Touched, EnvelopeTypeOK, Cached
<1>4. /\ recency' \in Seq(Assets) /\ IsInjective(recency') /\ ToSet(recency') \subseteq Cached \cup {a}
      /\ Len(recency') <= EnvelopeCapacity
  <2> DEFINE m == IF Len(order) > EnvelopeCapacity THEN EnvelopeCapacity ELSE Len(order)
  <2>1. m \in 0..Len(order) /\ m <= EnvelopeCapacity
    BY <1>3
  <2>2. recency' = SubSeq(order, 1, m)
    BY <1>1 DEF Evicted
  <2> HIDE DEF order, m
  <2>3. QED
    BY <1>3, <2>1, <2>2, PrefixSet
<1>5. /\ doing'[w] = "reporting" /\ \A v \in Extractors : v # w => doing'[v] = doing[v]
      /\ Working' = Working \ {w}
  BY <1>1, <1>2, PlaceOf
<1>6. Extracting' = Extracting \ {a}
  <2>1. Extracting' = {job'[v] : v \in Working'} /\ Extracting = {job[v] : v \in Working}
    BY DEF Extracting, Working
  <2>2. \A v \in Working : v # w => job[v] # a
    BY <1>2 DEF EnvelopeInv, EachOnce
  <2>3. QED
    BY <1>1, <1>2, <1>5, <2>1, <2>2
<1>7. a \in Extracting /\ a \notin ToSet(jobs) /\ Cached' \subseteq Cached \cup {a}
  BY <1>2, <1>4, ExtractingIs DEF EnvelopeInv, EachOnce, Cached
<1>8. EnvelopeRecords'
  <2>1. doing' \in [Extractors -> {"waiting", "extracting", "reporting", "ended"}]
    BY <1>1, <1>2 DEF EnvelopeTypeOK, Becomes
  <2>2. failed' \subseteq Cached' /\ inFlight' \subseteq Assets
    BY <1>1, <1>2 DEF Cached, EnvelopeTypeOK
  <2>3. EnvelopeTypeOK'
    BY <1>1, <1>2, <1>4, <2>1, <2>2 DEF EnvelopeTypeOK
  <2>4. QED
    BY <1>1, <1>2, <1>4, <1>5, <2>3 DEF EnvelopeInv, EnvelopeRecords
<1>9. EachOnce' /\ InFlightIsWork' /\ CachedIsSettled'
  BY <1>1, <1>5, <1>6, <1>7 DEF EnvelopeInv, EachOnce, InFlightIsWork, CachedIsSettled
<1>10. QED
  BY <1>8, <1>9 DEF EnvelopeInv

LEMMA PlacesKeep ==
  ASSUME EnvelopeInv, NEW w \in Extractors, WorkerWaits(w) \/ WorkerReports(w) \/ ExtractorEnds(w)
  PROVE  EnvelopeInv'
<1> USE EnvelopeAssumption
<1>1. /\ UNCHANGED <<jobs, inFlight, recency, failed, closing, scene, toPaint, scrolls, closer>>
      /\ waiting' \subseteq waiting \cup {w} /\ dirty' \in BOOLEAN
      /\ \/ doing' = doing /\ job' = job
         \/ /\ doing[w] = "reporting" /\ Becomes(w, "waiting") /\ job' = [job EXCEPT ![w] = NoAsset]
         \/ doing[w] = "waiting" /\ Becomes(w, "ended") /\ job' = job
  BY DEF WorkerWaits, WorkerReports, ExtractorEnds, view, EnvelopeInv, EnvelopeRecords, EnvelopeTypeOK
<1>2. EnvelopeTypeOK
  BY DEF EnvelopeInv, EnvelopeRecords
<1>3. /\ doing' \in [Extractors -> {"waiting", "extracting", "reporting", "ended"}]
      /\ job' \in [Extractors -> Assets \cup {NoAsset}]
      /\ Working' = Working /\ \A v \in Working : job'[v] = job[v]
      /\ \A v \in Extractors : doing'[v] \in {"extracting", "reporting"} => doing'[v] = doing[v] /\ job'[v] = job[v]
  BY <1>1, <1>2 DEF EnvelopeTypeOK, Becomes, Working
<1>4. Extracting' = Extracting /\ Cached' = Cached
  <2>1. Extracting' = {job'[v] : v \in Working'} /\ Extracting = {job[v] : v \in Working}
    BY DEF Extracting, Working
  <2>2. QED
    BY <1>1, <1>3, <2>1 DEF Cached
<1>5. EnvelopeTypeOK'
  BY <1>1, <1>2, <1>3, <1>4 DEF EnvelopeTypeOK
<1>6. EnvelopeRecords' /\ EachOnce'
  BY <1>1, <1>3, <1>4, <1>5 DEF EnvelopeInv, EnvelopeRecords, EachOnce
<1>7. QED
  BY <1>1, <1>4, <1>6 DEF EnvelopeInv, InFlightIsWork, CachedIsSettled

LEMMA ViewKeeps == ASSUME EnvelopeInv, Paint \/ Scroll \/ Closed PROVE EnvelopeInv'
<1> USE EnvelopeAssumption
<1>1. /\ UNCHANGED <<jobs, inFlight, doing, job, waiting, recency, failed, closing>>
      /\ scene' \subseteq Assets /\ toPaint' \subseteq Assets /\ dirty' \in BOOLEAN /\ scrolls' \in 0..MaxScrolls
      /\ closer' \in {"open", "joining", "closed"}
  <2>1. EnvelopeTypeOK
    BY DEF EnvelopeInv, EnvelopeRecords
  <2>2. CASE Paint
    BY <2>1, <2>2 DEF Paint, service, EnvelopeTypeOK
  <2>3. CASE Scroll
    <3>1. scrolls' \in 0..MaxScrolls
      BY <2>1, <2>3 DEF Scroll, EnvelopeTypeOK
    <3>2. scene' \subseteq Assets
      BY <2>3 DEF Scroll
    <3>3. QED
      BY <2>1, <2>3, <3>1, <3>2 DEF Scroll, service, EnvelopeTypeOK
  <2>4. CASE Closed
    BY <2>1, <2>4 DEF Closed, service, view, EnvelopeTypeOK
  <2>5. QED
    BY <2>2, <2>3, <2>4
<1>2. Extracting' = Extracting /\ Cached' = Cached /\ Working' = Working
  BY <1>1 DEF Extracting, Cached, Working
<1>3. EnvelopeRecords'
  BY <1>1, <1>2 DEF EnvelopeInv, EnvelopeRecords, EnvelopeTypeOK
<1>4. QED
  BY <1>1, <1>2, <1>3 DEF EnvelopeInv, EachOnce, InFlightIsWork, CachedIsSettled

LEMMA CloseKeeps == ASSUME EnvelopeInv, CloseService PROVE EnvelopeInv'
<1>1. /\ closing' = TRUE /\ jobs' = <<>> /\ inFlight' = {} /\ waiting' = {} /\ closer' = "joining"
      /\ UNCHANGED <<doing, job, recency, failed, scene, toPaint, dirty, scrolls>>
  BY DEF CloseService, view
<1>2. Extracting' = Extracting /\ Cached' = Cached /\ Working' = Working
  BY <1>1 DEF Extracting, Cached, Working
<1>3. ToSet(jobs') = {} /\ IsInjective(jobs') /\ jobs' \in Seq(Assets)
  BY <1>1 DEF ToSet, IsInjective
<1>4. EnvelopeRecords'
  BY <1>1, <1>2, <1>3 DEF EnvelopeInv, EnvelopeRecords, EnvelopeTypeOK
<1>5. QED
  BY <1>1, <1>2, <1>3, <1>4 DEF EnvelopeInv, EachOnce, InFlightIsWork, CachedIsSettled

LEMMA EnvelopesStep == EnvelopeInv /\ [EnvelopeNext]_envelopeVars => EnvelopeInv'
<1> SUFFICES ASSUME EnvelopeInv, [EnvelopeNext]_envelopeVars PROVE EnvelopeInv'
  OBVIOUS
<1>1. CASE EnvelopeNext
  BY <1>1, LookupKeeps, StartsKeeps, StoresKeeps, PlacesKeep, ViewKeeps, CloseKeeps
  DEF EnvelopeNext, ExtractorStep, ViewStep
<1>2. CASE UNCHANGED envelopeVars
  <2>1. Extracting' = Extracting /\ Cached' = Cached /\ Working' = Working
    BY <1>2 DEF envelopeVars, Extracting, Cached, Working
  <2>2. QED
    BY <1>2, <2>1 DEF envelopeVars, EnvelopeInv, EnvelopeRecords, EnvelopeTypeOK, EachOnce, InFlightIsWork, CachedIsSettled
<1>3. QED
  BY <1>1, <1>2

(* What is pending is worked on, once, and what is cached is not worked on again.  *)
THEOREM EnvelopesAreSound == EnvelopeSpec => [](EnvelopeTypeOK /\ EnvelopesSound)
<1>1. EnvelopeInv => EnvelopeTypeOK
  BY DEF EnvelopeInv, EnvelopeRecords
<1>2. QED
  BY EnvelopesStart, EnvelopesStep, CountsAreExact, <1>1, PTL DEF EnvelopeSpec

-----------------------------------------------------------------------------------
(* The encoder. *)

Timed ==
  /\ request.rate[1] \in Nat \ {0} /\ request.rate[2] \in Nat \ {0} /\ request.total \in Nat \ {0}
  /\ rendered \in Nat /\ (phase = "sounding" => rendered > 0)

(* Until the end every chunk is whole.                                             *)
Chunked ==
  /\ submitted \in Nat /\ fifo \in Nat /\ fifo < ChunkSize /\ chunks \in Seq(Nat)
  /\ phase # "ended" =>
       /\ \A i \in 1..Len(chunks) : chunks[i] = ChunkSize
       /\ Len(chunks) * ChunkSize + fifo = submitted

(* What was tried to open, and what is at the path, at each step of the way.       *)
OnTheWay ==
  /\ phase \in {"choosing", "opening", "rendering", "sounding", "ended"}
  /\ phase # "ended" => result = "none"
  /\ phase = "choosing" => opens = <<>>
  /\ phase = "opening" =>
       \/ opens = <<>> /\ route \in {"hardware", "software"}
       \/ opens = <<"hardware">> /\ route = "software"
  /\ opens = <<>> /\ phase # "ended" => output \in {"none", "older"}

EncodingInv == Timed /\ Chunked /\ OnTheWay /\ EncodingSound

-----------------------------------------------------------------------------------
(* A quotient rounded down.                                                        *)
LEMMA Times ==
  ASSUME NEW k \in Nat, NEW x \in Nat, NEW y \in Nat, x <= y
  PROVE  k * x <= k * y
<1>1. y - x \in Nat /\ y = x + (y - x)
  OBVIOUS
<1>2. k * y = k * x + k * (y - x) /\ k * (y - x) \in Nat /\ k * x \in Nat
  BY <1>1
<1>3. QED
  BY <1>2

LEMMA Floor ==
  ASSUME NEW a \in Nat, NEW k \in Nat \ {0}
  PROVE  /\ a \div k \in Nat /\ k * (a \div k) <= a /\ a < k * ((a \div k) + 1)
         /\ a % k \in Nat /\ a % k < k /\ a = k * (a \div k) + (a % k)
OBVIOUS

LEMMA FloorBounds ==
  ASSUME NEW a \in Nat, NEW k \in Nat \ {0}, NEW t \in Nat
  PROVE  (k * t <= a => t <= a \div k) /\ (a < k * t => a \div k < t)
<1> DEFINE q == a \div k
<1>1. q \in Nat /\ k * q <= a /\ a < k * (q + 1)
  BY Floor
<1> HIDE DEF q
<1>2. ASSUME k * t <= a PROVE t <= q
  <2>1. CASE q + 1 <= t
    <3>1. k * (q + 1) <= k * t
      BY <1>1, <2>1, Times
    <3>2. QED
      BY <1>1, <1>2, <3>1
  <2>2. QED
    BY <1>1, <2>1
<1>3. ASSUME a < k * t PROVE q < t
  <2>1. CASE t <= q
    <3>1. k * t <= k * q
      BY <1>1, <2>1, Times
    <3>2. QED
      BY <1>1, <1>3, <3>1
  <2>2. QED
    BY <1>1, <2>1
<1>4. QED
  BY <1>2, <1>3 DEF q

(* As many pictures as the engine plans reach the end of the timeline, and one      *)
(* fewer do not.                                                                    *)
LEMMA Planned ==
  ASSUME EncodingAssumption, Timed
  PROVE  /\ PlannedFrameCount \in Nat
         /\ DurationForFrames(PlannedFrameCount) >= request.total
         /\ PlannedFrameCount > 1 => DurationForFrames(PlannedFrameCount - 1) < request.total
<1> DEFINE num == request.rate[1]
           K == Ticks * request.rate[2]
           T == request.total
           whole == (T * num) \div K
           dur(n) == (K * n) \div num
<1>1. Ticks \in Nat \ {0} /\ request.rate[2] \in Nat \ {0} /\ num \in Nat \ {0} /\ T \in Nat \ {0}
  BY DEF EncodingAssumption, Timed
<1>2. K \in Nat \ {0} /\ T * num \in Nat
  <2>1. \A x, y \in Nat \ {0} : x * y \in Nat \ {0}
    OBVIOUS
  <2>2. QED
    BY <1>1, <2>1
<1>3. /\ FramesForDuration(T) = whole /\ \A n : DurationForFrames(n) = dur(n)
  BY DEF FramesForDuration, DurationForFrames
<1> HIDE DEF num, K, T
<1>4. whole \in Nat /\ K * whole <= T * num /\ T * num < K * (whole + 1)
  BY <1>2, Floor
<1>5. T <= dur(whole + 1)
  <2>1. K * (whole + 1) \in Nat /\ num * T <= K * (whole + 1)
    <3> HIDE DEF whole
    <3>1. num * T = T * num /\ whole + 1 \in Nat
      BY <1>1, <1>4
    <3>2. \A x, y \in Nat : x * y \in Nat
      OBVIOUS
    <3>3. QED
      BY <1>2, <1>4, <3>1, <3>2
  <2>2. QED
    BY <1>1, <2>1, FloorBounds
<1>6. ASSUME whole > 0 PROVE dur(whole - 1) < T
  <2> DEFINE w == whole - 1
  <2> HIDE DEF whole
  <2>1. w \in Nat /\ whole = w + 1
    BY <1>4, <1>6
  <2> HIDE DEF w
  <2>2. K * whole = K * w + K /\ K * w \in Nat
    BY <1>2, <2>1
  <2>3. K * w < num * T
    <3>1. num * T = T * num
      BY <1>1
    <3>2. QED
      BY <1>2, <1>4, <2>2, <3>1
  <2>4. (K * w) \div num < T
    BY <1>1, <2>2, <2>3, FloorBounds
  <2>5. QED
    BY <2>4 DEF w
<1>7. dur(0) < T
  <2>1. K * 0 = 0 /\ 0 < num * T
    <3>1. \A x, y \in Nat \ {0} : 0 < x * y
      OBVIOUS
    <3>2. QED
      BY <1>1, <1>2, <3>1
  <2>2. QED
    BY <1>1, <2>1, FloorBounds
<1> HIDE DEF whole, dur
<1>8. PlannedFrameCount = IF dur(whole) < T THEN whole + 1 ELSE whole
  <2>1. whole < 1 => whole = 0
    BY <1>4
  <2>2. whole + 1 >= 1
    BY <1>4
  <2>3. QED
    BY <1>3, <1>4, <1>7, <2>1, <2>2 DEF PlannedFrameCount, T
<1>9. CASE dur(whole) < T
  <2>1. PlannedFrameCount = whole + 1 /\ (whole + 1) - 1 = whole /\ whole + 1 \in Nat
    BY <1>4, <1>8, <1>9
  <2>2. dur(PlannedFrameCount) >= T /\ dur(PlannedFrameCount - 1) < T /\ PlannedFrameCount \in Nat
    <3>1. dur(whole + 1) >= T
      <4>1. dur(whole + 1) \in Nat
        <5>1. K * (whole + 1) \in Nat
          BY <1>2, <1>4
        <5>2. QED
          BY <1>1, <5>1, Floor DEF dur
      <4>2. QED
        BY <1>1, <1>5, <4>1
    <3>2. QED
      BY <1>9, <2>1, <3>1
  <2>3. QED
    BY <1>3, <2>2 DEF T
<1>10. CASE ~(dur(whole) < T)
  <2>1. PlannedFrameCount = whole /\ whole > 0
    <3>1. whole # 0
      BY <1>7, <1>10
    <3>2. QED
      BY <1>4, <1>8, <1>10, <3>1
  <2>2. dur(whole) \in Nat
    <3>1. K * whole \in Nat
      BY <1>2, <1>4
    <3>2. QED
      BY <1>1, <3>1, Floor DEF dur
  <2>3. dur(whole) >= T /\ dur(whole - 1) < T
    BY <1>1, <1>6, <1>10, <2>1, <2>2
  <2>4. QED
    BY <1>3, <1>4, <2>1, <2>3 DEF T
<1>11. QED
  BY <1>9, <1>10

(* The sound of a picture's interval is a number of samples.                        *)
LEMMA Interval ==
  ASSUME EncodingAssumption, Timed, NEW n \in Nat
  PROVE  IntervalSamples(n) \in Nat
<1> DEFINE num == request.rate[1]
           K == Ticks * request.rate[2]
           a == K * n
           b == K * (n + 1)
<1>1. Ticks \in Nat \ {0} /\ Rate \in Nat /\ num \in Nat \ {0} /\ K \in Nat /\ a \in Nat /\ b \in Nat
  <2>1. Ticks \in Nat \ {0} /\ Rate \in Nat /\ num \in Nat \ {0} /\ request.rate[2] \in Nat
    BY DEF EncodingAssumption, Timed
  <2>2. \A x, y \in Nat : x * y \in Nat
    OBVIOUS
  <2>3. K \in Nat
    BY <2>1, <2>2
  <2> HIDE DEF K
  <2>4. a \in Nat /\ b \in Nat
    BY <2>2, <2>3
  <2>5. QED
    BY <2>1, <2>3, <2>4
<1>2. a <= b
  <2> HIDE DEF K
  <2>1. QED
    BY <1>1, Times
<1>3. IntervalSamples(n) = (((b \div num) - (a \div num)) * Rate + Ticks \div 2) \div Ticks
  BY DEF IntervalSamples, DurationToFrames, DurationForFrames
<1> HIDE DEF a, b, num
<1>4. /\ a \div num \in Nat /\ b \div num \in Nat /\ num * (a \div num) <= a
  BY <1>1, Floor
<1> DEFINE p == a \div num
           q == b \div num
<1>5. p <= q
  <2>1. num * p \in Nat /\ num * p <= b
    <3> HIDE DEF q
    <3>1. \A x, y \in Nat : x * y \in Nat
      OBVIOUS
    <3>2. num * p \in Nat
      BY <1>1, <1>4, <3>1
    <3> HIDE DEF p
    <3>3. num * p <= a
      BY <1>4 DEF p
    <3>4. QED
      BY <1>1, <1>2, <3>2, <3>3
  <2>2. QED
    BY <1>1, <1>4, <2>1, FloorBounds
<1>6. p \in Nat /\ q \in Nat
  BY <1>4
<1> HIDE DEF p, q
<1>7. (q - p) \in Nat
  BY <1>5, <1>6
<1>8. (q - p) * Rate + Ticks \div 2 \in Nat
  <2>1. Ticks \div 2 \in Nat
    BY <1>1, Floor
  <2>2. \A x, y \in Nat : x * y \in Nat
    OBVIOUS
  <2>3. QED
    BY <1>1, <1>7, <2>1, <2>2
<1>9. QED
  BY <1>1, <1>3, <1>8, Floor DEF p, q

-----------------------------------------------------------------------------------
LEMMA EncodingStart == ASSUME EncodingAssumption, EncodingInit PROVE EncodingInv
<1>1. /\ request \in [rate : FrameRates, total : Durations, audio : BOOLEAN, hardware : BOOLEAN, routed : BOOLEAN]
      /\ phase = "choosing" /\ opens = <<>> /\ output \in {"none", "older"}
      /\ rendered = 0 /\ submitted = 0 /\ fifo = 0 /\ chunks = <<>> /\ result = "none"
  BY DEF EncodingInit
<1>2. Timed
  BY <1>1 DEF Timed, EncodingAssumption
<1>3. ChunkSize \in Nat \ {0}
  BY DEF EncodingAssumption
<1>4. Len(<<>>) = 0 /\ <<>> \in Seq(Nat)
  OBVIOUS
<1>5. Chunked
  BY <1>1, <1>3, <1>4 DEF Chunked
<1>6. OnTheWay
  BY <1>1 DEF OnTheWay
<1>7. EverySampleEncoded
  BY <1>1, <1>3, <1>4 DEF EverySampleEncoded, Encoded
<1>8. WholeFileOrNone /\ PicturesCoverTimeline /\ OneWayToSoftware
  BY <1>1 DEF WholeFileOrNone, PicturesCoverTimeline, OneWayToSoftware
<1>9. QED
  BY <1>2, <1>5, <1>6, <1>7, <1>8 DEF EncodingInv, EncodingSound

(* Before the end all chunks are whole, so what is encoded is their number times     *)
(* their size; the last one may be shorter.                                          *)
LEMMA Amount ==
  ASSUME NEW s \in Seq(Nat), NEW C \in Nat \ {0}, \A i \in 1..Len(s) : s[i] = C
  PROVE  (IF s = <<>> THEN 0 ELSE (Len(s) - 1) * C + Last(s)) = Len(s) * C
<1>1. CASE s = <<>>
  BY <1>1
<1>2. CASE s # <<>>
  <2> DEFINE n == Len(s) - 1
  <2>1. n \in Nat /\ Len(s) = n + 1 /\ Last(s) = C
    BY <1>2 DEF Last
  <2>2. (n + 1) * C = n * C + C
    <3> HIDE DEF n
    <3> QED
      BY <2>1
  <2>3. QED
    BY <1>2, <2>1, <2>2
<1>3. QED
  BY <1>1, <1>2

LEMMA Underway ==
  ASSUME EncodingAssumption, Chunked', OnTheWay', phase' # "ended"
  PROVE  EverySampleEncoded' /\ WholeFileOrNone' /\ PicturesCoverTimeline'
<1>1. ChunkSize \in Nat \ {0}
  BY DEF EncodingAssumption
<1>2. Encoded' = Len(chunks') * ChunkSize
  BY <1>1, Amount DEF Chunked, Encoded
<1>3. \A i \in 1..Len(chunks') - 1 : chunks'[i] = ChunkSize
  BY DEF Chunked
<1>4. EverySampleEncoded'
  BY <1>2, <1>3 DEF Chunked, OnTheWay, EverySampleEncoded
<1>5. QED
  BY <1>4 DEF OnTheWay, WholeFileOrNone, PicturesCoverTimeline

LEMMA Tried ==
  ASSUME NEW s, NEW r \in {"hardware", "software"}, s \in {<<>>, <<"hardware">>}, s # <<>> => r = "software"
  PROVE  /\ Append(s, r) \in {<<"hardware">>, <<"software">>, <<"hardware", "software">>} /\ Append(s, r) # <<>>
         /\ r = "hardware" => Append(s, r) = <<"hardware">>
<1>1. Append(<<>>, r) = <<r>>
  OBVIOUS
<1>0. ASSUME NEW x \in {"hardware", "software"}, NEW y \in {"hardware", "software"}
      PROVE  Append(<<x>>, y) = <<x, y>>
  <2> DEFINE S == {"hardware", "software"}
             t == Append(<<x>>, y)
             u == <<x, y>>
  <2>1. <<x>> \in Seq(S) /\ Len(<<x>>) = 1 /\ <<x>>[1] = x
    OBVIOUS
  <2>2. t \in Seq(S) /\ Len(t) = 2 /\ t[1] = x /\ t[2] = y
    BY <2>1
  <2>3. u \in Seq(S) /\ Len(u) = 2 /\ u[1] = x /\ u[2] = y
    OBVIOUS
  <2> HIDE DEF t, u, S
  <2>4. \A i \in 1..2 : i = 1 \/ i = 2
    OBVIOUS
  <2>5. QED
    BY <2>2, <2>3, <2>4, SeqEqual DEF t, u
<1>2. \A x, y : <<x>> # <<>> /\ <<x, y>> # <<>>
  OBVIOUS
<1>3. CASE s = <<>>
  <2>1. Append(s, r) = <<r>>
    BY <1>1, <1>3
  <2>2. QED
    BY <1>2, <2>1
<1>4. CASE s = <<"hardware">>
  <2>1. r = "software"
    BY <1>2, <1>4
  <2>2. Append(s, r) = <<"hardware", "software">>
    BY <1>0, <1>4, <2>1
  <2>3. QED
    BY <1>2, <2>1, <2>2
<1>5. QED
  BY <1>3, <1>4

(* The steps before the first picture, and those that end without a file.            *)
LEMMA RouteKeeps ==
  ASSUME EncodingAssumption, EncodingInv,
         SelectSoftware \/ ProbeRefuses \/ InitSucceeds \/ InitFails \/ Opened
  PROVE  EncodingInv'
<1>1. UNCHANGED <<request, rendered, submitted, fifo, chunks, result>>
  BY DEF SelectSoftware, ProbeRefuses, InitSucceeds, InitFails, Choose, Opened, counts
<1>2. \/ phase = "choosing" /\ UNCHANGED <<opens, output>> /\ phase' = "opening" /\ route' \in {"hardware", "software"}
      \/ phase = "choosing" /\ UNCHANGED <<opens, output, phase>>
      \/ phase = "opening" /\ opens' = Append(opens, route) /\ phase' = "rendering" /\ output' = "partial"
  BY DEF SelectSoftware, ProbeRefuses, InitSucceeds, InitFails, Choose, Opened
<1>3. phase # "ended" /\ phase' \notin {"sounding", "ended"} /\ result = "none"
  BY <1>2 DEF EncodingInv, OnTheWay
<1>4. Timed' /\ Chunked'
  BY <1>1, <1>3 DEF EncodingInv, Timed, Chunked
<1>5. phase = "opening" => opens \in {<<>>, <<"hardware">>} /\ (opens # <<>> => route = "software")
                           /\ route \in {"hardware", "software"}
  BY DEF EncodingInv, OnTheWay
<1>6. OnTheWay' /\ OneWayToSoftware'
  <2>1. CASE phase = "opening" /\ opens' = Append(opens, route) /\ phase' = "rendering"
    <3>1. opens' \in {<<"hardware">>, <<"software">>, <<"hardware", "software">>}
      BY <1>5, <2>1, Tried
    <3>2. opens' # <<>>
      BY <1>5, <2>1, Tried
    <3>3. QED
      BY <1>1, <1>3, <2>1, <3>1, <3>2 DEF OnTheWay, OneWayToSoftware
  <2>2. CASE phase = "choosing" /\ UNCHANGED <<opens, output>> /\ phase' = "opening" /\ route' \in {"hardware", "software"}
    BY <1>1, <1>3, <2>2 DEF EncodingInv, OnTheWay, OneWayToSoftware
  <2>3. CASE phase = "choosing" /\ UNCHANGED <<opens, output, phase>>
    BY <1>1, <1>3, <2>3 DEF EncodingInv, OnTheWay, OneWayToSoftware
  <2>4. QED
    BY <1>2, <2>1, <2>2, <2>3
<1>7. EverySampleEncoded' /\ WholeFileOrNone' /\ PicturesCoverTimeline'
  BY <1>3, <1>4, <1>6, Underway
<1>8. QED
  BY <1>4, <1>6, <1>7 DEF EncodingInv, EncodingSound

(* Whatever ends the export without a success.                                       *)
LEMMA EndsWithout ==
  ASSUME EncodingAssumption, EncodingInv, phase # "ended", phase' = "ended",
         result' \in {"rejected", "cancelled", "failed"}, output' \in {"none", "older"},
         UNCHANGED <<request, rendered, submitted, fifo, chunks>>, OneWayToSoftware'
  PROVE  EncodingInv'
<1>1. EverySampleEncoded
  BY DEF EncodingInv, EncodingSound
<1>2. EverySampleEncoded'
  BY <1>1 DEF EverySampleEncoded, Encoded
<1>3. Timed' /\ Chunked'
  BY DEF EncodingInv, Timed, Chunked
<1>4. OnTheWay'
  BY DEF OnTheWay
<1>5. WholeFileOrNone' /\ PicturesCoverTimeline'
  BY DEF WholeFileOrNone, PicturesCoverTimeline
<1>6. QED
  BY <1>2, <1>3, <1>4, <1>5 DEF EncodingInv, EncodingSound

LEMMA FailKeeps ==
  ASSUME EncodingAssumption, EncodingInv,
         Rejected \/ OpenFails \/ Stops("cancelled") \/ Stops("failed") \/ FinishFails
  PROVE  EncodingInv'
<1>1. CASE Rejected
  <2>1. /\ phase = "opening" /\ opens = <<>> /\ phase' = "ended" /\ result' = "rejected" /\ output' = output
        /\ UNCHANGED <<request, opens, rendered, submitted, fifo, chunks>>
    BY <1>1 DEF Rejected, End, counts
  <2>2. output \in {"none", "older"} /\ OneWayToSoftware'
    BY <2>1 DEF EncodingInv, OnTheWay, OneWayToSoftware
  <2>3. QED
    BY <2>1, <2>2, EndsWithout
<1>2. CASE OpenFails
  <2>1. /\ phase = "opening" /\ opens' = Append(opens, route)
        /\ UNCHANGED <<request, rendered, submitted, fifo, chunks>>
    BY <1>2 DEF OpenFails, counts
  <2>2. /\ opens \in {<<>>, <<"hardware">>} /\ (opens # <<>> => route = "software")
        /\ route \in {"hardware", "software"}
    BY <2>1 DEF EncodingInv, OnTheWay
  <2>3. OneWayToSoftware'
    BY <2>1, <2>2, Tried DEF OneWayToSoftware
  <2>4. CASE route = "hardware" /\ route' = "software" /\ UNCHANGED <<phase, result>>
    <3>1. opens' = <<"hardware">>
      BY <2>1, <2>2, <2>4, Tried
    <3>2. Timed' /\ Chunked'
      BY <2>1, <2>4 DEF EncodingInv, Timed, Chunked
    <3>3. OnTheWay'
      BY <2>1, <2>4, <3>1 DEF EncodingInv, OnTheWay
    <3>4. phase' # "ended"
      BY <2>1, <2>4
    <3>5. QED
      BY <2>3, <3>2, <3>3, <3>4, Underway DEF EncodingInv, EncodingSound
  <2>5. CASE phase' = "ended" /\ result' = "failed" /\ output' = "none"
    BY <2>1, <2>3, <2>5, EndsWithout
  <2>6. QED
    BY <1>2, <2>4, <2>5 DEF OpenFails, End
<1>3. ASSUME NEW r \in {"cancelled", "failed"}, Stops(r) PROVE EncodingInv'
  <2>1. /\ phase # "ended" /\ phase' = "ended" /\ result' = r /\ output' = "none"
        /\ UNCHANGED <<request, opens, rendered, submitted, fifo, chunks>>
    BY <1>3 DEF Stops, End, counts
  <2>2. OneWayToSoftware'
    BY <2>1 DEF EncodingInv, EncodingSound, OneWayToSoftware
  <2>3. QED
    BY <2>1, <2>2, EndsWithout
<1>4. CASE FinishFails
  <2>1. /\ phase # "ended" /\ phase' = "ended" /\ result' = "failed" /\ output' = "none"
        /\ UNCHANGED <<request, opens, rendered, submitted, fifo, chunks>>
    BY <1>4 DEF FinishFails, End, counts
  <2>2. OneWayToSoftware'
    BY <2>1 DEF EncodingInv, EncodingSound, OneWayToSoftware
  <2>3. QED
    BY <2>1, <2>2, EndsWithout
<1>5. QED
  BY <1>1, <1>2, <1>3, <1>4

LEMMA FrameKeeps == ASSUME EncodingAssumption, EncodingInv, RenderFrame PROVE EncodingInv'
<1>1. /\ phase = "rendering" /\ rendered' = rendered + 1 /\ phase' \in {"sounding", "rendering"}
      /\ UNCHANGED <<request, opens, output, submitted, fifo, chunks, result>>
  BY DEF RenderFrame
<1>2. Timed' /\ Chunked'
  BY <1>1 DEF EncodingInv, Timed, Chunked
<1>3. OnTheWay' /\ OneWayToSoftware'
  BY <1>1 DEF EncodingInv, EncodingSound, OnTheWay, OneWayToSoftware
<1>4. phase' # "ended"
  BY <1>1
<1>5. QED
  BY <1>2, <1>3, <1>4, Underway DEF EncodingInv, EncodingSound

(* Whole chunks are encoded, the rest waits.                                         *)
LEMMA MixKeeps == ASSUME EncodingAssumption, EncodingInv, MixInterval PROVE EncodingInv'
<1> DEFINE samples == IntervalSamples(rendered - 1)
           total == fifo + samples
           whole == total \div ChunkSize
           more == [n \in 1..whole |-> ChunkSize]
           C == ChunkSize
<1>1. /\ phase = "sounding" /\ phase' = "rendering"
      /\ submitted' = submitted + samples /\ fifo' = total % C /\ chunks' = chunks \o more
      /\ UNCHANGED <<request, opens, output, rendered, result>>
  BY DEF MixInterval
<1>2. samples \in Nat
  <2>1. rendered - 1 \in Nat
    BY <1>1 DEF EncodingInv, Timed
  <2>2. QED
    BY <2>1, Interval DEF EncodingInv
<1>3. /\ fifo \in Nat /\ submitted \in Nat /\ C \in Nat \ {0} /\ chunks \in Seq(Nat)
      /\ (\A i \in 1..Len(chunks) : chunks[i] = C) /\ Len(chunks) * C + fifo = submitted
  BY <1>1 DEF EncodingInv, Chunked, EncodingAssumption
<1> HIDE DEF samples
<1>4. total \in Nat
  BY <1>2, <1>3
<1> HIDE DEF total, C
<1>5. /\ total \div C \in Nat /\ total % C \in Nat /\ total % C < C /\ total = C * (total \div C) + (total % C)
  BY <1>3, <1>4, Floor
<1>6. whole \in Nat /\ total = C * whole + (total % C)
  BY <1>5 DEF C
<1> HIDE DEF whole
<1>7. more \in Seq(Nat) /\ Len(more) = whole /\ \A i \in 1..whole : more[i] = C
  BY <1>3, <1>6 DEF C
<1> HIDE DEF more
<1>8. /\ chunks' \in Seq(Nat) /\ Len(chunks') = Len(chunks) + whole
      /\ \A i \in 1..Len(chunks) + whole : chunks'[i] = IF i <= Len(chunks) THEN chunks[i] ELSE more[i - Len(chunks)]
  <2>1. chunks \in Seq(Nat) /\ more \in Seq(Nat)
    BY <1>3, <1>7
  <2> DEFINE both == chunks \o more
  <2>2. /\ both \in Seq(Nat) /\ Len(both) = Len(chunks) + Len(more)
        /\ \A i \in 1..Len(chunks) + Len(more) : both[i] = IF i <= Len(chunks) THEN chunks[i] ELSE more[i - Len(chunks)]
    BY <2>1, ConcatProperties
  <2>3. Len(more) = whole /\ chunks' = both
    BY <1>1, <1>7
  <2> HIDE DEF both
  <2>4. QED
    BY <2>2, <2>3
<1> DEFINE m == Len(chunks)
<1>9. m \in Nat
  BY <1>3
<1>10. \A i \in 1..m : chunks[i] = C
  BY <1>3
<1>11. /\ Len(chunks') = m + whole
       /\ \A i \in 1..m + whole : chunks'[i] = IF i <= m THEN chunks[i] ELSE more[i - m]
  BY <1>8
<1>12. m * C + fifo = submitted
  BY <1>3
<1> HIDE DEF m
<1>13. ASSUME NEW i \in 1..m + whole PROVE chunks'[i] = C
  <2>1. CASE i <= m
    <3>1. i \in 1..m
      BY <1>6, <1>9, <1>13, <2>1
    <3>2. QED
      BY <1>10, <1>11, <1>13, <2>1, <3>1
  <2>2. CASE ~(i <= m)
    <3>1. i - m \in 1..whole
      BY <1>6, <1>9, <1>13, <2>2
    <3>2. QED
      BY <1>7, <1>11, <1>13, <2>2, <3>1
  <2>3. QED
    BY <2>1, <2>2
<1>14. (m + whole) * C + (total % C) = submitted + samples
  <2>1. (m + whole) * C = m * C + C * whole /\ m * C \in Nat /\ C * whole \in Nat
    BY <1>3, <1>6, <1>9
  <2>2. total = fifo + samples
    BY DEF total
  <2>3. QED
    <3> DEFINE p == m * C
               q == C * whole
               rest == total % C
    <3>1. (m + whole) * C = p + q /\ p \in Nat /\ q \in Nat /\ rest \in Nat
      BY <1>5, <2>1
    <3>2. total = q + rest /\ p + fifo = submitted
      BY <1>6, <1>12
    <3> HIDE DEF p, q, rest
    <3>3. p + q + rest = submitted + samples
      BY <1>2, <1>3, <2>2, <3>1, <3>2
    <3>4. QED
      BY <3>1, <3>3 DEF rest
<1>15. submitted + samples \in Nat
  BY <1>2, <1>3
<1>16. Chunked'
  BY <1>1, <1>5, <1>8, <1>11, <1>13, <1>14, <1>15 DEF Chunked, C
<1>17. Timed' /\ OnTheWay' /\ OneWayToSoftware'
  BY <1>1 DEF EncodingInv, EncodingSound, Timed, OnTheWay, OneWayToSoftware
<1>18. phase' # "ended"
  BY <1>1
<1>19. QED
  BY <1>16, <1>17, <1>18, Underway DEF EncodingInv, EncodingSound

(* The rest is flushed as the last chunk, after the last picture that was planned.   *)
LEMMA FinishKeeps == ASSUME EncodingAssumption, EncodingInv, Finish PROVE EncodingInv'
<1>1. /\ phase = "rendering" /\ rendered = PlannedFrameCount
      /\ fifo' = 0 /\ chunks' = IF fifo > 0 THEN Append(chunks, fifo) ELSE chunks
      /\ phase' = "ended" /\ result' = "ok" /\ output' = "whole"
      /\ UNCHANGED <<request, opens, rendered, submitted>>
  BY DEF Finish, End
<1>2. /\ fifo \in Nat /\ submitted \in Nat /\ ChunkSize \in Nat \ {0} /\ chunks \in Seq(Nat)
      /\ (\A i \in 1..Len(chunks) : chunks[i] = ChunkSize) /\ Len(chunks) * ChunkSize + fifo = submitted
  BY <1>1 DEF EncodingInv, Chunked, EncodingAssumption
<1>3. /\ chunks' \in Seq(Nat) /\ Encoded' = submitted
      /\ \A i \in 1..Len(chunks') - 1 : chunks'[i] = ChunkSize
  <2>1. CASE fifo > 0
    <3> DEFINE m == Len(chunks)
               t == Append(chunks, fifo)
    <3>1. m \in Nat /\ t \in Seq(Nat) /\ Len(t) = m + 1 /\ (\A i \in 1..m : t[i] = chunks[i]) /\ t[m + 1] = fifo
      BY <1>2
    <3>2. t # <<>> /\ Last(t) = fifo
      BY <1>2, <3>1 DEF Last
    <3>3. chunks' = t
      BY <1>1, <2>1
    <3>4. (\A i \in 1..m : chunks[i] = ChunkSize) /\ m * ChunkSize + fifo = submitted
      BY <1>2
    <3> HIDE DEF m, t
    <3>5. Len(t) - 1 = m
      BY <3>1
    <3>6. Encoded' = m * ChunkSize + fifo
      BY <3>2, <3>3, <3>5 DEF Encoded
    <3>7. QED
      BY <3>1, <3>3, <3>4, <3>5, <3>6
  <2>2. CASE ~(fifo > 0)
    <3>1. chunks' = chunks /\ fifo = 0
      BY <1>1, <1>2, <2>2
    <3>2. Encoded' = Len(chunks) * ChunkSize
      BY <1>2, <3>1, Amount DEF Encoded
    <3>3. Len(chunks) * ChunkSize \in Nat
      BY <1>2
    <3>4. \A i \in 1..Len(chunks) - 1 : chunks[i] = ChunkSize
      BY <1>2
    <3>5. QED
      BY <1>2, <3>1, <3>2, <3>3, <3>4
  <2>3. QED
    BY <2>1, <2>2
<1>4. EverySampleEncoded'
  BY <1>1, <1>2, <1>3 DEF EverySampleEncoded
<1>5. PicturesCoverTimeline'
  <2>1. /\ DurationForFrames(rendered) >= request.total
        /\ rendered > 1 => DurationForFrames(rendered - 1) < request.total
    BY <1>1, Planned DEF EncodingInv
  <2>2. QED
    BY <1>1, <2>1 DEF PicturesCoverTimeline, DurationForFrames
<1>6. Timed' /\ Chunked' /\ OnTheWay' /\ OneWayToSoftware' /\ WholeFileOrNone'
  BY <1>1, <1>2, <1>3 DEF EncodingInv, EncodingSound, Timed, Chunked, OnTheWay, OneWayToSoftware, WholeFileOrNone
<1>7. QED
  BY <1>4, <1>5, <1>6 DEF EncodingInv, EncodingSound

LEMMA EncodingStep ==
  ASSUME EncodingAssumption, EncodingInv, [EncodingNext]_encodingVars
  PROVE  EncodingInv'
<1>1. CASE UNCHANGED encodingVars
  <2>1. UNCHANGED <<request, phase, route, opens, output, rendered, submitted, fifo, chunks, result>>
    BY <1>1 DEF encodingVars
  <2>2. Timed' /\ Chunked' /\ OnTheWay'
    BY <2>1 DEF EncodingInv, Timed, Chunked, OnTheWay
  <2>3. EverySampleEncoded' /\ WholeFileOrNone' /\ OneWayToSoftware'
    BY <2>1 DEF EncodingInv, EncodingSound, EverySampleEncoded, Encoded, WholeFileOrNone, OneWayToSoftware
  <2>4. PicturesCoverTimeline'
    BY <2>1 DEF EncodingInv, EncodingSound, PicturesCoverTimeline, DurationForFrames
  <2>5. QED
    BY <2>2, <2>3, <2>4 DEF EncodingInv, EncodingSound
<1>2. QED
  BY <1>1, RouteKeeps, FailKeeps, FrameKeeps, MixKeeps, FinishKeeps DEF EncodingNext

-----------------------------------------------------------------------------------
(* The decoder. *)

Numbered == 1..Len(Packets)

Cursors ==
  /\ reader = [s \in Streams |-> reader[s]] /\ begun = [s \in Streams |-> begun[s]]
  /\ given = [s \in Streams |-> given[s]]
  /\ \A s \in Streams :
       /\ reader[s] = [next |-> reader[s].next, held |-> reader[s].held, draining |-> reader[s].draining]
       /\ reader[s].next \in Nat \ {0} /\ begun[s] \in Nat /\ begun[s] <= reader[s].next
       /\ reader[s].held \in Seq(Numbered) /\ given[s] \in Seq(Numbered)

(* The last time that was stamped is the one that the next is compared with.       *)
Stamped ==
  /\ stamps \in Seq(Nat)
  /\ IF stamps = <<>> THEN latest = Absent ELSE latest = stamps[Len(stamps)]

DecodingInv == Cursors /\ call \in [on : Streams \cup {"none"}, attempt : Nat] /\ Stamped /\ DecodingSound

-----------------------------------------------------------------------------------
LEMMA Decodable ==
  ASSUME DecodingAssumption
  PROVE  /\ Packets \in Seq([stream : {"picture", "sound"}, pts : Nat, key : BOOLEAN, bad : BOOLEAN])
         /\ Absent \notin Nat /\ Len(Packets) \in Nat /\ DOMAIN Packets = Numbered
         /\ \A n \in Numbered : Packets[n].pts \in Nat /\ Packets[n].stream \in Streams /\ Packets[n].bad \in BOOLEAN
<1>1. Packets \in Seq([stream : {"picture", "sound"}, pts : Nat, key : BOOLEAN, bad : BOOLEAN]) /\ Absent \notin Nat
  BY DEF DecodingAssumption
<1>2. Len(Packets) \in Nat /\ DOMAIN Packets = Numbered
  BY <1>1 DEF Numbered
<1>3. \A n \in Numbered : Packets[n] \in [stream : {"picture", "sound"}, pts : Nat, key : BOOLEAN, bad : BOOLEAN]
  <2> DEFINE P == [stream : {"picture", "sound"}, pts : Nat, key : BOOLEAN, bad : BOOLEAN]
  <2>1. Packets \in Seq(P)
    BY <1>1
  <2> HIDE DEF P
  <2>2. \A n \in 1..Len(Packets) : Packets[n] \in P
    BY <2>1, ElementOfSeq
  <2>3. QED
    BY <2>2 DEF Numbered, P
<1>4. QED
  BY <1>1, <1>2, <1>3 DEF Streams

(* The longest held goes to the end of what was given.                              *)
LEMMA HandedOver ==
  ASSUME NEW S, NEW g \in Seq(S), NEW h \in Seq(S), h # <<>>
  PROVE  /\ Append(g, Head(h)) \o Tail(h) = g \o h
         /\ Append(g, Head(h)) \in Seq(S) /\ Tail(h) \in Seq(S) /\ Head(h) \in S
         /\ \E i \in DOMAIN h : h[i] = Head(h)
<1> DEFINE x == Head(h)
           t == Tail(h)
           a == Append(g, x)
           n == Len(g)
           k == Len(h)
<1>1. n \in Nat /\ k \in Nat \ {0} /\ x = h[1] /\ x \in S /\ DOMAIN h = 1..k
  OBVIOUS
<1>2. t \in Seq(S) /\ Len(t) = k - 1 /\ \A i \in 1..k - 1 : t[i] = h[i + 1]
  BY HeadTailProperties
<1>3. a \in Seq(S) /\ Len(a) = n + 1 /\ (\A i \in 1..n : a[i] = g[i]) /\ a[n + 1] = h[1]
  BY <1>1
<1> DEFINE l == a \o t
           r == g \o h
<1> HIDE DEF x, t, a
<1>4. /\ l \in Seq(S) /\ Len(l) = Len(a) + Len(t)
      /\ \A i \in 1..Len(a) + Len(t) : l[i] = IF i <= Len(a) THEN a[i] ELSE t[i - Len(a)]
  BY <1>2, <1>3, ConcatProperties
<1>5. /\ r \in Seq(S) /\ Len(r) = n + k
      /\ \A i \in 1..n + k : r[i] = IF i <= n THEN g[i] ELSE h[i - n]
  BY ConcatProperties
<1> HIDE DEF l, r, n, k
<1>6. Len(a) + Len(t) = n + k
  BY <1>1, <1>2, <1>3
<1>7. /\ Len(l) = n + k
      /\ \A i \in 1..n + k : l[i] = IF i <= n + 1 THEN a[i] ELSE t[i - (n + 1)]
  BY <1>3, <1>4, <1>6
<1>8. ASSUME NEW i \in 1..n + k PROVE l[i] = r[i]
  <2>1. CASE i <= n
    <3>1. i \in 1..n /\ i <= n + 1
      BY <1>1, <2>1
    <3>2. QED
      BY <1>3, <1>5, <1>7, <2>1, <3>1
  <2>2. CASE i = n + 1
    <3>1. i <= n + 1 /\ ~(i <= n) /\ i - n = 1
      BY <1>1, <2>2
    <3>2. QED
      BY <1>3, <1>5, <1>7, <2>2, <3>1
  <2>3. CASE i > n + 1
    <3>1. ~(i <= n + 1) /\ ~(i <= n) /\ i - (n + 1) \in 1..k - 1 /\ (i - (n + 1)) + 1 = i - n
      BY <1>1, <2>3
    <3>2. QED
      BY <1>2, <1>5, <1>7, <3>1
  <2>4. QED
    BY <1>1, <2>1, <2>2, <2>3
<1>9. l = r
  BY <1>4, <1>5, <1>7, <1>8, SeqEqual
<1>10. 1 \in DOMAIN h /\ h[1] = x
  BY <1>1 DEF x
<1>11. QED
  BY <1>1, <1>2, <1>3, <1>9, <1>10 DEF l, r, a, t, x

(* A further packet at the end of what is held.                                     *)
LEMMA HeldOneMore ==
  ASSUME NEW S, NEW g \in Seq(S), NEW h \in Seq(S), NEW x \in S
  PROVE  g \o Append(h, x) = Append(g \o h, x) /\ g \o h \in Seq(S)
<1> DEFINE n == Len(g)
           k == Len(h)
           b == Append(h, x)
           r == g \o h
           l == g \o b
           u == Append(r, x)
<1>1. n \in Nat /\ k \in Nat
  OBVIOUS
<1>2. b \in Seq(S) /\ Len(b) = k + 1 /\ (\A i \in 1..k : b[i] = h[i]) /\ b[k + 1] = x
  OBVIOUS
<1>3. /\ r \in Seq(S) /\ Len(r) = n + k
      /\ \A i \in 1..n + k : r[i] = IF i <= n THEN g[i] ELSE h[i - n]
  BY ConcatProperties
<1> HIDE DEF b, r
<1>4. /\ l \in Seq(S) /\ Len(l) = n + Len(b)
      /\ \A i \in 1..n + Len(b) : l[i] = IF i <= n THEN g[i] ELSE b[i - n]
  BY <1>2, ConcatProperties
<1>5. /\ u \in Seq(S) /\ Len(u) = Len(r) + 1 /\ (\A i \in 1..Len(r) : u[i] = r[i]) /\ u[Len(r) + 1] = x
  BY <1>3
<1> HIDE DEF n, k, l, u
<1>6. n + Len(b) = n + k + 1 /\ Len(r) + 1 = n + k + 1
  BY <1>1, <1>2, <1>3
<1>7. /\ Len(l) = n + k + 1 /\ Len(u) = n + k + 1
      /\ \A i \in 1..n + k + 1 : l[i] = IF i <= n THEN g[i] ELSE b[i - n]
      /\ (\A i \in 1..n + k : u[i] = r[i]) /\ u[n + k + 1] = x
  BY <1>3, <1>4, <1>5, <1>6
<1>8. ASSUME NEW i \in 1..n + k + 1 PROVE l[i] = u[i]
  <2>1. CASE i <= n
    <3>1. i \in 1..n + k
      BY <1>1, <2>1
    <3>2. QED
      BY <1>3, <1>7, <2>1, <3>1
  <2>2. CASE ~(i <= n) /\ i # n + k + 1
    <3>1. i \in 1..n + k /\ i - n \in 1..k
      BY <1>1, <2>2
    <3>2. QED
      BY <1>2, <1>3, <1>7, <2>2, <3>1
  <2>3. CASE i = n + k + 1
    <3>1. ~(i <= n) /\ i - n = k + 1
      BY <1>1, <2>3
    <3>2. QED
      BY <1>2, <1>7, <2>3, <3>1
  <2>4. QED
    BY <2>1, <2>2, <2>3
<1>9. l = u
  BY <1>4, <1>5, <1>7, <1>8, SeqEqual
<1>10. QED
  BY <1>3, <1>9 DEF l, u, r, b

(* What is in turn stays so with a later packet.                                    *)
LEMMA LaterPacket ==
  ASSUME NEW q \in Seq(Nat), NEW W, NEW x \in Nat, InTurn(q, W), \A y \in W : y < x
  PROVE  InTurn(Append(q, x), W \cup {x})
<1> DEFINE n == Len(q)
           u == Append(q, x)
<1>1. n \in Nat /\ DOMAIN q = 1..n /\ DOMAIN u = 1..n + 1 /\ (\A i \in 1..n : u[i] = q[i]) /\ u[n + 1] = x
  OBVIOUS
<1>2. {q[i] : i \in 1..n} = W /\ \A i, j \in 1..n : i < j => q[i] < q[j]
  BY <1>1 DEF InTurn, ToSet
<1> HIDE DEF n, u
<1>3. (\A i \in 1..n + 1 : i \in 1..n \/ i = n + 1) /\ (\A i \in 1..n : i \in 1..n + 1) /\ n + 1 \in 1..n + 1
  BY <1>1
<1>4. {u[i] : i \in 1..n + 1} = W \cup {x}
  BY <1>1, <1>2, <1>3
<1>5. ASSUME NEW i \in 1..n + 1, NEW j \in 1..n + 1, i < j PROVE u[i] < u[j]
  <2>1. i \in 1..n /\ (j \in 1..n \/ j = n + 1)
    BY <1>1, <1>5
  <2>2. q[i] \in W
    BY <1>2, <2>1
  <2>3. QED
    BY <1>1, <1>2, <1>5, <2>1, <2>2
<1>6. QED
  BY <1>1, <1>4, <1>5 DEF InTurn, ToSet, u

-----------------------------------------------------------------------------------
LEMMA Cursor ==
  ASSUME NEW c, c = [next |-> c.next, held |-> c.held, draining |-> c.draining], NEW x, NEW y
  PROVE  /\ [c EXCEPT !.held = y] = [next |-> c.next, held |-> y, draining |-> c.draining]
         /\ [c EXCEPT !.next = x] = [next |-> x, held |-> c.held, draining |-> c.draining]
         /\ [c EXCEPT !.next = x, !.held = y] = [next |-> x, held |-> y, draining |-> c.draining]
         /\ [c EXCEPT !.draining = x] = [next |-> c.next, held |-> c.held, draining |-> x]
<1>1. [c EXCEPT !.held = y] = [next |-> c.next, held |-> y, draining |-> c.draining]
  OBVIOUS
<1>2. [c EXCEPT !.next = x] = [next |-> x, held |-> c.held, draining |-> c.draining]
  OBVIOUS
<1>3. [c EXCEPT !.draining = x] = [next |-> c.next, held |-> c.held, draining |-> x]
  OBVIOUS
<1>4. [c EXCEPT !.next = x, !.held = y] = [next |-> x, held |-> y, draining |-> c.draining]
  <2> DEFINE d == [c EXCEPT !.next = x]
  <2>1. d = [next |-> x, held |-> c.held, draining |-> c.draining]
    BY <1>2
  <2>2. [c EXCEPT !.next = x, !.held = y] = [d EXCEPT !.held = y]
    OBVIOUS
  <2> HIDE DEF d
  <2>3. QED
    BY <2>1, <2>2
<1>5. QED
  BY <1>1, <1>2, <1>3, <1>4

LEMMA DecodingStart == ASSUME DecodingInit PROVE DecodingInv
<1>1. /\ reader = [s \in Streams |-> [next |-> 1, held |-> <<>>, draining |-> FALSE]]
      /\ call = NoCall /\ latest = Absent /\ stamps = <<>>
      /\ begun = [s \in Streams |-> 1] /\ given = [s \in Streams |-> <<>>]
  BY DEF DecodingInit
<1> DEFINE empty == <<>>
<1>2. /\ empty \in Seq(Numbered) /\ empty \in Seq(Nat) /\ Len(empty) = 0 /\ DOMAIN empty = {}
      /\ empty \o empty = empty
  BY ConcatEmptySeq
<1>3. /\ reader = [s \in Streams |-> [next |-> 1, held |-> empty, draining |-> FALSE]]
      /\ given = [s \in Streams |-> empty] /\ stamps = empty
  BY <1>1
<1>4. stamps = empty => (IF stamps = <<>> THEN latest = Absent ELSE latest = stamps[Len(stamps)])
  BY <1>1
<1> HIDE DEF empty
<1>5. \A s \in Streams :
        /\ reader[s] = [next |-> 1, held |-> empty, draining |-> FALSE]
        /\ reader[s].next = 1 /\ reader[s].held = empty /\ reader[s].draining = FALSE
        /\ begun[s] = 1 /\ given[s] = empty
  <2> DEFINE c == [next |-> 1, held |-> empty, draining |-> FALSE]
  <2>1. c.next = 1 /\ c.held = empty /\ c.draining = FALSE
    OBVIOUS
  <2>2. reader = [s \in Streams |-> c]
    BY <1>3
  <2> HIDE DEF c
  <2>3. \A s \in Streams : reader[s] = c /\ given[s] = empty
    BY <1>3, <2>2
  <2>4. \A s \in Streams : begun[s] = 1
    BY <1>1
  <2>5. QED
    BY <2>1, <2>3, <2>4 DEF c
<1>6. Cursors
  <2>1. /\ reader = [s \in Streams |-> reader[s]] /\ begun = [s \in Streams |-> begun[s]]
        /\ given = [s \in Streams |-> given[s]]
    BY <1>1, <1>3
  <2>2. ASSUME NEW s \in Streams
        PROVE  /\ reader[s] = [next |-> reader[s].next, held |-> reader[s].held, draining |-> reader[s].draining]
               /\ reader[s].next \in Nat \ {0} /\ begun[s] \in Nat /\ begun[s] <= reader[s].next
               /\ reader[s].held \in Seq(Numbered) /\ given[s] \in Seq(Numbered)
    <3>1. reader[s] = [next |-> reader[s].next, held |-> reader[s].held, draining |-> reader[s].draining]
      BY <1>5
    <3>2. reader[s].next = 1 /\ begun[s] = 1 /\ reader[s].held = empty /\ given[s] = empty
      BY <1>5
    <3>3. QED
      BY <1>2, <3>1, <3>2
  <2>3. QED
    BY <2>1, <2>2 DEF Cursors
<1>7. EveryPacketInTurn
  <2>1. \A s : Good(s, 1, 1) = {}
    BY DEF Good
  <2>2. InTurn(empty, {})
    BY <1>2 DEF InTurn, ToSet
  <2>3. ASSUME NEW s \in Streams PROVE InTurn(given[s] \o reader[s].held, Good(s, begun[s], reader[s].next))
    <3>1. given[s] \o reader[s].held = empty /\ Good(s, begun[s], reader[s].next) = {}
      BY <1>2, <1>5, <2>1
    <3>2. QED
      BY <2>2, <3>1
  <2>4. QED
    BY <2>3 DEF EveryPacketInTurn
<1>8. Stamped
  BY <1>2, <1>3, <1>4 DEF Stamped
<1>9. SoundInOrder
  BY <1>2, <1>3 DEF SoundInOrder
<1>10. QED
  BY <1>1, <1>6, <1>7, <1>8, <1>9 DEF DecodingInv, DecodingSound, NoCall

(* A frame moves from what is held to what was given.                                *)
LEMMA ReceivedKeeps ==
  ASSUME Cursors, EveryPacketInTurn, NEW s \in Streams, Received(s), begun' = begun
  PROVE  /\ Cursors' /\ EveryPacketInTurn'
         /\ Head(reader[s].held) \in Numbered /\ given[s] \in Seq(Numbered)
         /\ given'[s] = Append(given[s], Head(reader[s].held))
         /\ \A t \in Streams \ {s} : given'[t] = given[t]
<1> DEFINE g == given[s]
           h == reader[s].held
<1>1. g \in Seq(Numbered) /\ h \in Seq(Numbered) /\ h # <<>>
  BY DEF Cursors, Received, Ready
<1>2. /\ reader' = [reader EXCEPT ![s] = [next |-> reader[s].next, held |-> Tail(h), draining |-> reader[s].draining]]
      /\ given' = [given EXCEPT ![s] = Append(g, Head(h))]
  <2>1. reader' = [reader EXCEPT ![s].held = Tail(h)] /\ given' = [given EXCEPT ![s] = Append(g, Head(h))]
    BY DEF Received
  <2>2. reader[s] = [next |-> reader[s].next, held |-> reader[s].held, draining |-> reader[s].draining]
    BY DEF Cursors
  <2> HIDE DEF h, g
  <2>3. reader' = [reader EXCEPT ![s] = [reader[s] EXCEPT !.held = Tail(h)]]
    BY <2>1
  <2>4. [reader[s] EXCEPT !.held = Tail(h)] = [next |-> reader[s].next, held |-> Tail(h), draining |-> reader[s].draining]
    BY <2>2, Cursor
  <2>5. QED
    BY <2>1, <2>3, <2>4
<1>3. /\ reader'[s] = [next |-> reader[s].next, held |-> Tail(h), draining |-> reader[s].draining]
      /\ given'[s] = Append(g, Head(h))
      /\ reader' = [t \in Streams |-> reader'[t]] /\ given' = [t \in Streams |-> given'[t]]
      /\ \A t \in Streams \ {s} : reader'[t] = reader[t] /\ given'[t] = given[t]
  BY <1>2 DEF Cursors
<1>4. /\ Append(g, Head(h)) \o Tail(h) = g \o h
      /\ Append(g, Head(h)) \in Seq(Numbered) /\ Tail(h) \in Seq(Numbered) /\ Head(h) \in Numbered
  <2> HIDE DEF g, h
  <2> QED
    BY <1>1, HandedOver
<1> HIDE DEF g, h
<1>5. /\ reader'[s].next = reader[s].next /\ reader'[s].held = Tail(h)
      /\ reader'[s] = [next |-> reader'[s].next, held |-> reader'[s].held, draining |-> reader'[s].draining]
  BY <1>3
<1>6. Cursors'
  BY <1>3, <1>4, <1>5 DEF Cursors
<1>7. EveryPacketInTurn'
  <2>1. SUFFICES ASSUME NEW t \in Streams
                 PROVE  InTurn(given'[t] \o reader'[t].held, Good(t, begun[t], reader'[t].next))
    BY DEF EveryPacketInTurn
  <2>2. InTurn(given[t] \o reader[t].held, Good(t, begun[t], reader[t].next))
    BY DEF EveryPacketInTurn
  <2>3. given'[t] \o reader'[t].held = given[t] \o reader[t].held /\ reader'[t].next = reader[t].next
    BY <1>3, <1>4, <1>5 DEF g, h
  <2>4. QED
    BY <2>2, <2>3
<1>8. QED
  BY <1>1, <1>3, <1>4, <1>6, <1>7 DEF g, h

(* A packet is read: it is of the other stream or bad, or it is the latest held.     *)
LEMMA ReadKeeps ==
  ASSUME DecodingAssumption, Cursors, EveryPacketInTurn, NEW s \in Streams, ReadsOn(s) \/ ReadsBad(s),
         begun' = begun, given' = given
  PROVE  Cursors' /\ EveryPacketInTurn'
<1> DEFINE n == reader[s].next
           h == reader[s].held
           wanted == Packets[n].stream = s /\ ~Packets[n].bad
<1>1. /\ reader[s] = [next |-> n, held |-> h, draining |-> reader[s].draining] /\ n \in Nat \ {0} /\ begun[s] \in Nat
      /\ begun[s] <= n /\ h \in Seq(Numbered) /\ given[s] \in Seq(Numbered) /\ DOMAIN reader = Streams
      /\ reader = [t \in Streams |-> reader[t]]
  BY DEF Cursors
<1>2. \E x : \/ x = [next |-> n, held |-> h, draining |-> TRUE] /\ reader' = [reader EXCEPT ![s] = x]
             \/ /\ n <= Len(Packets) /\ reader' = [reader EXCEPT ![s] = x]
                /\ x = [next |-> n + 1, held |-> IF wanted THEN Append(h, n) ELSE h, draining |-> reader[s].draining]
  <2>1. CASE ReadsOn(s) /\ n > Len(Packets)
    <3>1. reader' = [reader EXCEPT ![s].draining = TRUE]
      BY <2>1 DEF ReadsOn
    <3>2. reader' = [reader EXCEPT ![s] = [reader[s] EXCEPT !.draining = TRUE]]
      BY <3>1
    <3>3. [reader[s] EXCEPT !.draining = TRUE] = [next |-> n, held |-> h, draining |-> TRUE]
      <4>1. reader[s] = [next |-> reader[s].next, held |-> reader[s].held, draining |-> reader[s].draining]
        BY <1>1
      <4>2. QED
        BY <4>1, Cursor
    <3>4. QED
      BY <3>2, <3>3
  <2>2. CASE ReadsOn(s) /\ ~(n > Len(Packets))
    <3> DEFINE k == IF Packets[n].stream = s THEN Append(h, n) ELSE h
    <3>1. reader' = [reader EXCEPT ![s].next = n + 1, ![s].held = k] /\ ~(Packets[n].stream = s /\ Packets[n].bad)
      BY <2>2 DEF ReadsOn
    <3>2. n <= Len(Packets)
      BY <1>1, <2>2, Decodable
    <3>3. k = IF wanted THEN Append(h, n) ELSE h
      BY <3>1
    <3> HIDE DEF k, n, h
    <3>4. reader' = [reader EXCEPT ![s] = [reader[s] EXCEPT !.next = n + 1, !.held = k]]
      <4> DEFINE a == [reader EXCEPT ![s].next = n + 1]
                 b == [reader[s] EXCEPT !.next = n + 1]
      <4>1. a = [reader EXCEPT ![s] = b] /\ a[s] = b
        BY <1>1
      <4>2. [reader EXCEPT ![s].next = n + 1, ![s].held = k] = [a EXCEPT ![s].held = k]
        OBVIOUS
      <4>3. [reader[s] EXCEPT !.next = n + 1, !.held = k] = [b EXCEPT !.held = k]
        OBVIOUS
      <4> DEFINE d == [b EXCEPT !.held = k]
      <4> HIDE DEF a, b
      <4>4. [a EXCEPT ![s].held = k] = [a EXCEPT ![s] = d]
        BY <4>1
      <4> HIDE DEF d
      <4>5. [a EXCEPT ![s] = d] = [reader EXCEPT ![s] = d]
        BY <1>1, <4>1
      <4>6. QED
        BY <3>1, <4>2, <4>3, <4>4, <4>5 DEF d
    <3>5. [reader[s] EXCEPT !.next = n + 1, !.held = k] = [next |-> n + 1, held |-> k, draining |-> reader[s].draining]
      <4> DEFINE c == reader[s]
                 m == n + 1
      <4>1. c = [next |-> c.next, held |-> c.held, draining |-> c.draining]
        BY <1>1 DEF n, h
      <4> HIDE DEF c, m
      <4> DEFINE d == [c EXCEPT !.next = m]
      <4>2. d = [next |-> m, held |-> c.held, draining |-> c.draining]
        BY <4>1, Cursor
      <4>3. [c EXCEPT !.next = m, !.held = k] = [d EXCEPT !.held = k]
        OBVIOUS
      <4> HIDE DEF d
      <4>4. [d EXCEPT !.held = k] = [next |-> m, held |-> k, draining |-> c.draining]
        BY <4>2
      <4>5. QED
        BY <4>3, <4>4 DEF c, m
    <3>6. QED
      BY <3>2, <3>3, <3>4, <3>5
  <2>3. CASE ReadsBad(s)
    <3>1. reader' = [reader EXCEPT ![s].next = n + 1] /\ Packets[n].bad /\ n <= Len(Packets)
      BY <2>3 DEF ReadsBad
    <3>2. ~wanted
      BY <3>1
    <3>3. reader' = [reader EXCEPT ![s] = [reader[s] EXCEPT !.next = n + 1]]
      BY <3>1
    <3>4. [reader[s] EXCEPT !.next = n + 1] = [next |-> n + 1, held |-> h, draining |-> reader[s].draining]
      <4>1. reader[s] = [next |-> reader[s].next, held |-> reader[s].held, draining |-> reader[s].draining]
        BY <1>1
      <4>2. QED
        BY <4>1, Cursor
    <3>5. QED
      BY <3>1, <3>2, <3>3, <3>4
  <2>4. QED
    BY <2>1, <2>2, <2>3
<1>3. PICK x : \/ x = [next |-> n, held |-> h, draining |-> TRUE] /\ reader' = [reader EXCEPT ![s] = x]
               \/ /\ n <= Len(Packets) /\ reader' = [reader EXCEPT ![s] = x]
                  /\ x = [next |-> n + 1, held |-> IF wanted THEN Append(h, n) ELSE h, draining |-> reader[s].draining]
  BY <1>2
<1>4. /\ reader'[s] = x /\ reader' = [t \in Streams |-> reader'[t]]
      /\ \A t \in Streams \ {s} : reader'[t] = reader[t]
  BY <1>1, <1>3
<1> HIDE DEF n, h
<1>5. InTurn(given[s] \o h, Good(s, begun[s], n))
  BY DEF EveryPacketInTurn, n, h
<1>6. /\ x = [next |-> x.next, held |-> x.held, draining |-> x.draining]
      /\ x.next \in Nat \ {0} /\ begun[s] <= x.next /\ x.held \in Seq(Numbered)
      /\ InTurn(given[s] \o x.held, Good(s, begun[s], x.next))
  <2>1. CASE x = [next |-> n, held |-> h, draining |-> TRUE]
    BY <1>1, <1>5, <2>1
  <2>2. CASE n <= Len(Packets) /\ ~wanted /\ x = [next |-> n + 1, held |-> h, draining |-> reader[s].draining]
    <3>1. Good(s, begun[s], n + 1) = Good(s, begun[s], n)
      BY <1>1, <2>2 DEF Good
    <3>2. x.next = n + 1 /\ x.held = h /\ x = [next |-> x.next, held |-> x.held, draining |-> x.draining]
      BY <2>2
    <3>3. QED
      BY <1>1, <1>5, <3>1, <3>2
  <2>3. CASE n <= Len(Packets) /\ wanted /\ x = [next |-> n + 1, held |-> Append(h, n), draining |-> reader[s].draining]
    <3>1. Good(s, begun[s], n + 1) = Good(s, begun[s], n) \cup {n}
      <4>1. begun[s]..(n + 1) - 1 = (begun[s]..n - 1) \cup {n}
        BY <1>1
      <4>2. QED
        BY <2>3, <4>1 DEF Good
    <3>2. /\ x.next = n + 1 /\ x.held = Append(h, n)
          /\ x = [next |-> x.next, held |-> x.held, draining |-> x.draining]
      BY <2>3
    <3>3. n \in Numbered
      BY <1>1, <2>3, Decodable DEF Numbered
    <3>4. \A y \in Good(s, begun[s], n) : y < n
      BY <1>1 DEF Good
    <3>5. given[s] \o Append(h, n) = Append(given[s] \o h, n) /\ given[s] \o h \in Seq(Numbered)
      BY <1>1, <3>3, HeldOneMore
    <3>6. given[s] \o h \in Seq(Nat)
      BY <3>5, SeqMonotonic, Decodable DEF Numbered
    <3>7. InTurn(Append(given[s] \o h, n), Good(s, begun[s], n) \cup {n})
      BY <1>1, <1>5, <3>4, <3>6, LaterPacket
    <3>8. Append(h, n) \in Seq(Numbered)
      BY <1>1, <3>3
    <3>9. InTurn(given[s] \o x.held, Good(s, begun[s], x.next))
      BY <3>1, <3>2, <3>5, <3>7
    <3>10. n + 1 \in Nat \ {0} /\ begun[s] <= n + 1
      BY <1>1
    <3>11. QED
      BY <3>2, <3>8, <3>9, <3>10
  <2>4. QED
    BY <1>3, <2>1, <2>2, <2>3
<1>7. Cursors'
  BY <1>4, <1>6 DEF Cursors
<1>8. EveryPacketInTurn'
  <2>1. SUFFICES ASSUME NEW t \in Streams
                 PROVE  InTurn(given[t] \o reader'[t].held, Good(t, begun[t], reader'[t].next))
    BY DEF EveryPacketInTurn
  <2>2. QED
    BY <1>4, <1>6 DEF EveryPacketInTurn
<1>9. QED
  BY <1>7, <1>8

(* A seek begins with nothing read.                                                  *)
LEMMA RestartKeeps ==
  ASSUME Cursors, EveryPacketInTurn, NEW s \in Streams, NEW n \in Nat \ {0}, Restarted(s, n)
  PROVE  Cursors' /\ EveryPacketInTurn' /\ \A t \in Streams \ {s} : given'[t] = given[t]
<1> DEFINE empty == <<>>
           x == [next |-> n, held |-> empty, draining |-> FALSE]
<1>1. /\ reader' = [reader EXCEPT ![s] = x] /\ begun' = [begun EXCEPT ![s] = n]
      /\ given' = [given EXCEPT ![s] = empty]
  BY DEF Restarted
<1>2. empty \in Seq(Numbered) /\ DOMAIN empty = {} /\ empty \o empty = empty
  BY ConcatEmptySeq
<1> HIDE DEF empty
<1>3. x.next = n /\ x.held = empty /\ x = [next |-> x.next, held |-> x.held, draining |-> x.draining]
  OBVIOUS
<1> HIDE DEF x
<1>4. /\ reader'[s] = x /\ begun'[s] = n /\ given'[s] = empty
      /\ reader' = [t \in Streams |-> reader'[t]] /\ begun' = [t \in Streams |-> begun'[t]]
      /\ given' = [t \in Streams |-> given'[t]]
      /\ \A t \in Streams \ {s} : reader'[t] = reader[t] /\ begun'[t] = begun[t] /\ given'[t] = given[t]
  BY <1>1 DEF Cursors
<1>5. Cursors'
  <2>1. ASSUME NEW t \in Streams
        PROVE  /\ reader'[t] = [next |-> reader'[t].next, held |-> reader'[t].held, draining |-> reader'[t].draining]
               /\ reader'[t].next \in Nat \ {0} /\ begun'[t] \in Nat /\ begun'[t] <= reader'[t].next
               /\ reader'[t].held \in Seq(Numbered) /\ given'[t] \in Seq(Numbered)
    <3>1. CASE t = s
      <4>1. reader'[t] = x /\ begun'[t] = n /\ given'[t] = empty
        BY <1>4, <3>1
      <4>2. n <= n /\ n \in Nat
        OBVIOUS
      <4>3. QED
        BY <1>2, <1>3, <4>1, <4>2
    <3>2. CASE t # s
      BY <1>4, <3>2 DEF Cursors
    <3>3. QED
      BY <3>1, <3>2
  <2>2. QED
    BY <1>4, <2>1 DEF Cursors
<1>6. InTurn(empty \o empty, Good(s, n, n))
  <2>1. Good(s, n, n) = {}
    BY DEF Good
  <2>2. QED
    BY <1>2, <2>1 DEF InTurn, ToSet
<1>7. EveryPacketInTurn'
  <2>1. SUFFICES ASSUME NEW t \in Streams
                 PROVE  InTurn(given'[t] \o reader'[t].held, Good(t, begun'[t], reader'[t].next))
    BY DEF EveryPacketInTurn
  <2>2. CASE t = s
    BY <1>3, <1>4, <1>6, <2>2
  <2>3. CASE t # s
    BY <1>4, <2>3 DEF EveryPacketInTurn
  <2>4. QED
    BY <2>2, <2>3
<1>8. QED
  BY <1>4, <1>5, <1>7

(* A seek lands on a packet of the file.                                             *)
LEMMA LandsOnEntry ==
  ASSUME DecodingAssumption, NEW ns, ns \subseteq DOMAIN Packets, ns # {}
  PROVE  LastOf(ns) \in ns
<1> DEFINE N == Len(Packets)
           back == {k \in Nat : \E n \in ns : k = N - n}
<1>1. N \in Nat /\ ns \subseteq 1..N
  BY Decodable DEF Numbered
<1> HIDE DEF N
<1>2. back # {}
  <2>1. PICK n \in ns : TRUE
    OBVIOUS
  <2>2. N - n \in Nat
    BY <1>1
  <2>3. QED
    BY <2>2
<1>3. PICK k \in back : \A j \in back : k <= j
  BY <1>2, LeastOf
<1>4. PICK n \in ns : k = N - n
  OBVIOUS
<1>5. \A m \in ns : m <= n
  <2>1. SUFFICES ASSUME NEW m \in ns PROVE m <= n
    OBVIOUS
  <2>2. N - m \in Nat /\ m \in Nat /\ n \in Nat
    <3>1. m \in 1..N /\ n \in 1..N
      BY <1>1
    <3>2. QED
      BY <1>1, <3>1
  <2>3. k <= N - m
    BY <1>3, <2>2
  <2>4. QED
    BY <1>1, <1>4, <2>2, <2>3
<1>6. QED
  BY <1>5 DEF LastOf

LEMMA LandsInFile ==
  ASSUME DecodingAssumption, NEW ns, ns \subseteq DOMAIN Packets, ns # {}
  PROVE  LastOf(ns) \in Nat \ {0}
<1>1. Len(Packets) \in Nat /\ ns \subseteq 1..Len(Packets)
  BY Decodable DEF Numbered
<1>2. LastOf(ns) \in 1..Len(Packets)
  BY <1>1, LandsOnEntry
<1>3. QED
  BY <1>1, <1>2

LEMMA SoundStamped ==
  ASSUME DecodingAssumption, Cursors, Stamped, SoundInOrder, NEW n \in Numbered,
         latest' = Presentation(Packets[n].pts), stamps' = Append(stamps, latest'),
         given'["sound"] = Append(given["sound"], n)
  PROVE  Stamped' /\ SoundInOrder'
<1> DEFINE p == Packets[n].pts
           v == latest'
           g == given["sound"]
           k == Len(stamps)
<1>1. p \in Nat /\ Absent \notin Nat /\ g \in Seq(Numbered)
  <2>1. p \in Nat /\ Absent \notin Nat
    BY Decodable
  <2>2. QED
    BY <2>1 DEF Cursors, Streams
<1>2. v = IF latest # Absent /\ p < latest THEN latest ELSE p
  BY DEF Presentation
<1>3. k \in Nat /\ DOMAIN stamps = 1..k /\ \A i \in 1..k : stamps[i] \in Nat
  <2>1. stamps \in Seq(Nat)
    BY DEF Stamped
  <2>2. Len(stamps) \in Nat /\ DOMAIN stamps = 1..Len(stamps)
    BY <2>1, LenProperties
  <2>3. \A i \in 1..Len(stamps) : stamps[i] \in Nat
    BY <2>1, ElementOfSeq
  <2>4. QED
    BY <2>2, <2>3
<1>4. k = 0 => latest = Absent
  BY DEF Stamped
<1>5. k # 0 => k \in 1..k /\ latest = stamps[k] /\ latest \in Nat
  BY <1>3 DEF Stamped
<1> HIDE DEF p, g
<1>6. v \in Nat /\ (k # 0 => v >= stamps[k]) /\ (v = p \/ (k # 0 /\ v = stamps[k]))
  <2>1. CASE k = 0
    BY <1>1, <1>2, <1>4, <2>1
  <2>2. CASE k # 0
    BY <1>1, <1>2, <1>5, <2>2
  <2>3. QED
    BY <2>1, <2>2
<1> DEFINE u == stamps'
<1>7. /\ u \in Seq(Nat) /\ Len(u) = k + 1 /\ DOMAIN u = 1..k + 1 /\ u[k + 1] = v
      /\ \A i \in 1..k : u[i] = stamps[i]
  BY <1>3, <1>6 DEF Stamped
<1> DEFINE h == given'["sound"]
<1>8. ToSet(h) = ToSet(g) \cup {n}
  BY <1>1, AppendedSet DEF g
<1> HIDE DEF v, u, h, k
<1>9. u # <<>>
  BY <1>3, <1>7
<1>10. IF u = <<>> THEN v = Absent ELSE v = u[Len(u)]
  BY <1>7, <1>9
<1>11. ASSUME NEW i \in 1..k + 1 PROVE \E m \in ToSet(h) : Packets[m].pts = u[i]
  <2>1. \A j \in 1..k : \E m \in ToSet(g) : Packets[m].pts = stamps[j]
    BY <1>3 DEF SoundInOrder, g
  <2>2. CASE i \in 1..k
    BY <1>7, <1>8, <2>1, <2>2
  <2>3. CASE i = k + 1 /\ v = p
    BY <1>7, <1>8, <2>3 DEF p
  <2>4. CASE i = k + 1 /\ k # 0 /\ v = stamps[k]
    <3>1. k \in 1..k
      BY <1>5, <2>4
    <3>2. PICK m \in ToSet(g) : Packets[m].pts = stamps[k]
      BY <2>1, <3>1
    <3>3. u[i] = stamps[k]
      BY <1>7, <2>4
    <3>4. QED
      BY <1>8, <3>2, <3>3
  <2>5. i \in 1..k \/ i = k + 1
    BY <1>3
  <2>6. QED
    BY <1>6, <2>2, <2>3, <2>4, <2>5
<1>12. ASSUME NEW i \in 1..k PROVE u[i] <= u[i + 1]
  <2>1. CASE i = k
    <3>1. k # 0
      BY <1>3, <2>1
    <3>2. u[i] = stamps[k] /\ u[i + 1] = v /\ stamps[k] \in Nat
      BY <1>3, <1>7, <2>1
    <3>3. QED
      BY <1>6, <3>1, <3>2
  <2>2. CASE i # k
    <3>1. i \in 1..k - 1 /\ i + 1 \in 1..k
      BY <1>3, <2>2
    <3>2. stamps[i] <= stamps[i + 1]
      BY <3>1 DEF SoundInOrder, k
    <3>3. QED
      BY <1>7, <3>1, <3>2
  <2>3. QED
    BY <2>1, <2>2
<1>13. Stamped'
  BY <1>7, <1>10 DEF Stamped, u, v
<1>14. (k + 1) - 1 = k
  BY <1>3
<1>15. /\ \A i \in 1..Len(u) - 1 : u[i] <= u[i + 1]
       /\ \A i \in DOMAIN u : \E m \in ToSet(h) : Packets[m].pts = u[i]
  BY <1>7, <1>11, <1>12, <1>14
<1>16. SoundInOrder'
  BY <1>15 DEF SoundInOrder, u, h
<1>17. QED
  BY <1>13, <1>16

(* No sound is given out, or its run begins.                                         *)
LEMMA Unstamped ==
  ASSUME Stamped, SoundInOrder,
         \/ stamps' = stamps /\ latest' = latest /\ given'["sound"] = given["sound"]
         \/ stamps' = <<>> /\ latest' = Absent
  PROVE  Stamped' /\ SoundInOrder'
<1>1. CASE stamps' = stamps /\ latest' = latest /\ given'["sound"] = given["sound"]
  BY <1>1 DEF Stamped, SoundInOrder
<1>2. CASE stamps' = <<>> /\ latest' = Absent
  <2> DEFINE empty == <<>>
  <2>1. empty \in Seq(Nat) /\ Len(empty) = 0 /\ DOMAIN empty = {}
    OBVIOUS
  <2>2. Stamped'
    BY <1>2, <2>1 DEF Stamped
  <2>3. stamps' = empty
    BY <1>2
  <2> HIDE DEF empty
  <2>4. SoundInOrder'
    BY <2>1, <2>3 DEF SoundInOrder
  <2>5. QED
    BY <2>2, <2>4
<1>3. QED
  BY <1>1, <1>2

LEMMA DecodingStep ==
  ASSUME DecodingAssumption, DecodingInv, [DecodingNext]_decodingVars
  PROVE  DecodingInv'
<1> DEFINE OnIn == call \in [on : Streams \cup {"none"}, attempt : Nat]
<1>1. Cursors /\ OnIn /\ Stamped /\ EveryPacketInTurn /\ SoundInOrder
  BY DEF DecodingInv, DecodingSound
<1>2. SUFFICES Cursors' /\ OnIn' /\ Stamped' /\ EveryPacketInTurn' /\ SoundInOrder'
  BY DEF DecodingInv, DecodingSound
<1>3. "picture" \in Streams /\ "sound" \in Streams /\ "sound" # "picture" /\ "none" \notin Streams
  BY DEF Streams
<1>4. CASE NextFrame \/ NextAudioFrame \/ EndGiven \/ UNCHANGED decodingVars
  <2>1. reader' = reader /\ latest' = latest /\ begun' = begun /\ given' = given /\ stamps' = stamps
    BY <1>4 DEF NextFrame, NextAudioFrame, EndGiven, decodingVars
  <2>2. OnIn'
    BY <1>1, <1>3, <1>4 DEF NextFrame, NextAudioFrame, EndGiven, decodingVars, NoCall
  <2>3. Cursors' /\ EveryPacketInTurn'
    BY <1>1, <2>1 DEF Cursors, EveryPacketInTurn
  <2>4. QED
    BY <1>1, <2>1, <2>2, <2>3, Unstamped
<1>5. CASE LoopTurn \/ PictureBad \/ SoundBad
  <2>1. latest' = latest /\ begun' = begun /\ given' = given /\ stamps' = stamps
    BY <1>5 DEF LoopTurn, PictureBad, SoundBad
  <2>2. OnIn'
    BY <1>1, <1>3, <1>5 DEF LoopTurn, PictureBad, SoundBad, NoCall
  <2>3. \E s \in Streams : ReadsOn(s) \/ ReadsBad(s)
    BY <1>1, <1>3, <1>5 DEF LoopTurn, PictureBad, SoundBad
  <2>4. Cursors' /\ EveryPacketInTurn'
    BY <1>1, <2>1, <2>3, ReadKeeps
  <2>5. QED
    BY <1>1, <2>1, <2>2, <2>4, Unstamped
<1>6. CASE PictureGiven
  <2>1. Received("picture") /\ call' = NoCall /\ latest' = latest /\ begun' = begun /\ stamps' = stamps
    BY <1>6 DEF PictureGiven
  <2>2. Cursors' /\ EveryPacketInTurn' /\ \A t \in Streams \ {"picture"} : given'[t] = given[t]
    BY <1>1, <1>3, <2>1, ReceivedKeeps
  <2>3. given'["sound"] = given["sound"]
    BY <1>3, <2>2
  <2>4. OnIn'
    BY <2>1 DEF NoCall
  <2>5. QED
    BY <1>1, <2>1, <2>2, <2>3, <2>4, Unstamped
<1>7. CASE SoundGiven
  <2> DEFINE n == Head(reader["sound"].held)
  <2>1. /\ Received("sound") /\ call' = NoCall /\ begun' = begun
        /\ latest' = Presentation(Packets[n].pts) /\ stamps' = Append(stamps, latest')
    BY <1>7 DEF SoundGiven
  <2>2. Cursors' /\ EveryPacketInTurn' /\ n \in Numbered /\ given'["sound"] = Append(given["sound"], n)
    BY <1>1, <1>3, <2>1, ReceivedKeeps
  <2> HIDE DEF n
  <2>3. Stamped' /\ SoundInOrder'
    BY <1>1, <2>1, <2>2, SoundStamped
  <2>4. OnIn'
    BY <2>1 DEF NoCall
  <2>5. QED
    BY <2>2, <2>3, <2>4
<1>8. CASE OpenAudioStream
  <2>1. reader' = reader /\ begun' = begun /\ given' = given /\ call' = call /\ latest' = Absent /\ stamps' = <<>>
    BY <1>8 DEF OpenAudioStream
  <2>2. Cursors' /\ EveryPacketInTurn'
    BY <1>1, <2>1 DEF Cursors, EveryPacketInTurn
  <2>3. QED
    BY <1>1, <2>1, <2>2, Unstamped
<1>9. ASSUME NEW ts \in SeekPoints, Seek(ts) \/ SeekAudio(ts)
      PROVE  Cursors' /\ OnIn' /\ Stamped' /\ EveryPacketInTurn' /\ SoundInOrder'
  <2>1. \A s : Entry(s, ts) \subseteq DOMAIN Packets
    BY DEF Entry
  <2>2. CASE Seek(ts)
    <3> DEFINE n == LastOf(Entry("picture", ts))
    <3>1. /\ Entry("picture", ts) # {} /\ Restarted("picture", n) /\ call' = call
          /\ latest' = latest /\ stamps' = stamps
      BY <2>2 DEF Seek
    <3>2. n \in Nat \ {0}
      BY <2>1, <3>1, LandsInFile
    <3> HIDE DEF n
    <3>3. Cursors' /\ EveryPacketInTurn' /\ \A t \in Streams \ {"picture"} : given'[t] = given[t]
      BY <1>1, <1>3, <3>1, <3>2, RestartKeeps
    <3>4. given'["sound"] = given["sound"]
      BY <1>3, <3>3
    <3>5. QED
      BY <1>1, <3>1, <3>3, <3>4, Unstamped
  <2>3. CASE SeekAudio(ts)
    <3> DEFINE n == LastOf(Entry("sound", ts))
    <3>1. /\ Entry("sound", ts) # {} /\ Restarted("sound", n) /\ call' = call
          /\ latest' = Absent /\ stamps' = <<>>
      BY <2>3 DEF SeekAudio
    <3>2. n \in Nat \ {0}
      BY <2>1, <3>1, LandsInFile
    <3> HIDE DEF n
    <3>3. Cursors' /\ EveryPacketInTurn'
      BY <1>1, <1>3, <3>1, <3>2, RestartKeeps
    <3>4. QED
      BY <1>1, <3>1, <3>3, Unstamped
  <2>4. QED
    BY <1>9, <2>2, <2>3
<1>10. QED
  BY <1>4, <1>5, <1>6, <1>7, <1>8, <1>9 DEF DecodingNext

-----------------------------------------------------------------------------------
(* The calls of an import. *)

CallRecords ==
  /\ DOMAIN calls = Importers /\ calls = [c \in Importers |-> calls[c]]
  /\ \A c \in Importers :
       /\ calls[c] = [at |-> calls[c].at, location |-> calls[c].location, verdict |-> calls[c].verdict,
                      rivalled |-> calls[c].rivalled, answer |-> calls[c].answer]
       /\ InProgress(c) => calls[c].location \in Locations
       /\ calls[c].rivalled \in BOOLEAN
  /\ cache = [l \in Locations |-> cache[l]]

(* Calls that met at a location have both been told.                               *)
RivalsKnow ==
  \A c, d \in Importers :
    c # d /\ InProgress(c) /\ InProgress(d) /\ calls[c].location = calls[d].location => calls[c].rivalled

(* What is remembered of a location that is listed is listed, or of an earlier     *)
(* project.                                                                        *)
CacheKnown ==
  \A l \in Locations : cache[l] # NoEntry =>
    /\ cache[l].location = l
    /\ Listed(l) # {} => cache[l] \in entries \/ \E e \in Listed(l) : e.project # cache[l].project

ImportCallsInv == CallRecords /\ RivalsKnow /\ CacheKnown /\ ImportCallsSound

-----------------------------------------------------------------------------------
LEMMA ImportCallsStart == ASSUME ImportCallsInit PROVE ImportCallsInv
<1>1. /\ calls = [c \in Importers |-> AtRest] /\ cache = [l \in Locations |-> NoEntry]
      /\ entries = {} /\ marked = {}
  BY DEF ImportCallsInit
<1>2. \A c \in Importers : calls[c] = AtRest
  BY <1>1
<1>3. AtRest.at = "idle" /\ AtRest.answer = NoEntry
  BY DEF AtRest
<1>4. \A c \in Importers : ~InProgress(c)
  BY <1>2, <1>3 DEF InProgress
<1>5. CallRecords
  BY <1>1, <1>2, <1>4 DEF CallRecords, AtRest
<1>6. RivalsKnow /\ CacheKnown
  BY <1>1, <1>4 DEF RivalsKnow, CacheKnown
<1>7. ImportCallsSound
  BY <1>1, <1>2, <1>3, <1>4 DEF ImportCallsSound, TwinsHadRivals, PendingIsInProgress, AnswersAreListed
<1>8. QED
  BY <1>5, <1>6, <1>7 DEF ImportCallsInv

(* A thread that is at rest afterwards, whatever it answers.                       *)
LEMMA Rested ==
  ASSUME CallRecords, NEW c \in Importers, NEW x, calls' = Answers(c, x)
  PROVE  /\ calls'[c].at = "idle" /\ calls'[c].answer = x
         /\ \A d \in Importers \ {c} : calls'[d] = calls[d]
         /\ \A d \in Importers : InProgress(d)' <=> d # c /\ InProgress(d)
         /\ DOMAIN calls' = Importers /\ calls' = [d \in Importers |-> calls'[d]]
         /\ \A d \in Importers :
              calls'[d] = [at |-> calls'[d].at, location |-> calls'[d].location, verdict |-> calls'[d].verdict,
                      rivalled |-> calls'[d].rivalled, answer |-> calls'[d].answer]
         /\ \A d \in Importers : InProgress(d)' => calls'[d].location \in Locations
         /\ \A d \in Importers : calls'[d].rivalled \in BOOLEAN
<1> DEFINE rest == [AtRest EXCEPT !.answer = x]
<1>1. rest.at = "idle" /\ rest.answer = x /\ rest.rivalled = FALSE
      /\ rest = [at |-> rest.at, location |-> rest.location, verdict |-> rest.verdict,
                 rivalled |-> rest.rivalled, answer |-> rest.answer]
  <2>1. PICK k : AtRest = [at |-> "idle", location |-> k, verdict |-> "none", rivalled |-> FALSE, answer |-> NoEntry]
    BY DEF AtRest
  <2> DEFINE whole == AtRest
  <2>2. whole = [at |-> whole.at, location |-> whole.location, verdict |-> whole.verdict,
                 rivalled |-> whole.rivalled, answer |-> whole.answer]
        /\ whole.at = "idle" /\ whole.rivalled = FALSE
    BY <2>1
  <2>3. rest = [whole EXCEPT !.answer = x]
    OBVIOUS
  <2> HIDE DEF rest, whole
  <2>4. rest = [at |-> whole.at, location |-> whole.location, verdict |-> whole.verdict,
                rivalled |-> whole.rivalled, answer |-> x]
    BY <2>2, <2>3
  <2>5. QED
    BY <2>2, <2>4
<1>2. calls' = [calls EXCEPT ![c] = rest]
  BY DEF Answers
<1> HIDE DEF rest
<1>3. /\ DOMAIN calls' = Importers /\ calls' = [d \in Importers |-> calls'[d]]
      /\ calls'[c] = rest /\ \A d \in Importers \ {c} : calls'[d] = calls[d]
  BY <1>2 DEF CallRecords
<1>4. ~InProgress(c)' /\ \A d \in Importers \ {c} : InProgress(d)' <=> InProgress(d)
  BY <1>1, <1>3 DEF InProgress
<1>5. QED
  BY <1>1, <1>3, <1>4 DEF CallRecords

LEMMA ImportKeeps ==
  ASSUME ImportCallsAssumption, ImportCallsInv, NEW c \in Importers, NEW path \in Spellings, Import(c, path)
  PROVE  ImportCallsInv'
<1> DEFINE l == LocationOf[path]
<1>1. l \in Locations /\ ~InProgress(c) /\ UNCHANGED <<entries, cache>>
  BY DEF ImportCallsAssumption, Import
<1>2. CASE Duplicate(c, l)
  <2>1. PICK e \in Listed(l) : calls' = Answers(c, IF cache[l] # NoEntry THEN cache[l] ELSE e)
    BY <1>2 DEF Duplicate
  <2> DEFINE x == IF cache[l] # NoEntry THEN cache[l] ELSE e
  <2>2. marked' = marked
    BY <1>2 DEF Duplicate
  <2>3. x = NoEntry \/ x \in entries \/ \E f \in Listed(x.location) : f.project # x.project
    <3>1. CASE cache[l] # NoEntry
      <4>1. cache[l].location = l /\ (cache[l] \in entries \/ \E f \in Listed(l) : f.project # cache[l].project)
        BY <1>1, <2>1, <3>1 DEF ImportCallsInv, CacheKnown
      <4>2. QED
        BY <3>1, <4>1
    <3>2. CASE cache[l] = NoEntry
      BY <2>1, <3>2 DEF Listed
    <3>3. QED
      BY <3>1, <3>2
  <2>4. calls' = Answers(c, x)
    BY <2>1
  <2> HIDE DEF x
  <2>5. /\ calls'[c].at = "idle" /\ calls'[c].answer = x
        /\ \A d \in Importers \ {c} : calls'[d] = calls[d]
        /\ \A d \in Importers : InProgress(d)' <=> d # c /\ InProgress(d)
    BY <2>4, Rested DEF ImportCallsInv
  <2>6. CallRecords'
    BY <1>1, <2>4, Rested DEF ImportCallsInv, CallRecords
  <2>7. RivalsKnow' /\ CacheKnown'
    BY <1>1, <2>5 DEF ImportCallsInv, RivalsKnow, CacheKnown, Listed
  <2>8. PendingIsInProgress'
    BY <1>1, <2>2, <2>5 DEF ImportCallsInv, ImportCallsSound, PendingIsInProgress, Rivals, Listed
  <2>9. AnswersAreListed'
    BY <1>1, <2>3, <2>5 DEF ImportCallsInv, ImportCallsSound, AnswersAreListed, Listed
  <2>10. TwinsHadRivals'
    BY <1>1 DEF ImportCallsInv, ImportCallsSound, TwinsHadRivals
  <2>11. QED
    BY <2>6, <2>7, <2>8, <2>9, <2>10 DEF ImportCallsInv, ImportCallsSound
<1>3. CASE BeginProbe(c, l)
  <2>1. /\ Listed(l) = {} /\ marked' = marked \cup {l}
        /\ calls' = [d \in Importers |->
             IF d = c THEN [at |-> "checking", location |-> l, verdict |-> "none",
                            rivalled |-> Rivals(l) # {}, answer |-> NoEntry]
             ELSE [calls[d] EXCEPT !.rivalled = @ \/ d \in Rivals(l)]]
    BY <1>3 DEF BeginProbe
  <2>2. /\ calls'[c] = [at |-> "checking", location |-> l, verdict |-> "none",
                        rivalled |-> Rivals(l) # {}, answer |-> NoEntry]
        /\ \A d \in Importers \ {c} : calls'[d] = [calls[d] EXCEPT !.rivalled = @ \/ d \in Rivals(l)]
    BY <2>1
  <2>3. \A d \in Importers \ {c} :
          /\ calls'[d].at = calls[d].at /\ calls'[d].location = calls[d].location
          /\ calls'[d].answer = calls[d].answer /\ calls'[d].rivalled = (calls[d].rivalled \/ d \in Rivals(l))
          /\ calls'[d] = [at |-> calls'[d].at, location |-> calls'[d].location, verdict |-> calls'[d].verdict,
                          rivalled |-> calls'[d].rivalled, answer |-> calls'[d].answer]
    <3>1. SUFFICES ASSUME NEW d \in Importers \ {c}
                   PROVE  /\ calls'[d].at = calls[d].at /\ calls'[d].location = calls[d].location
                          /\ calls'[d].answer = calls[d].answer
                          /\ calls'[d].rivalled = (calls[d].rivalled \/ d \in Rivals(l))
                          /\ calls'[d] = [at |-> calls'[d].at, location |-> calls'[d].location, verdict |-> calls'[d].verdict,
                                          rivalled |-> calls'[d].rivalled, answer |-> calls'[d].answer]
      OBVIOUS
    <3> DEFINE b == calls[d].rivalled \/ d \in Rivals(l)
    <3>2. calls'[d] = [calls[d] EXCEPT !.rivalled = b]
      BY <2>2, <3>1
    <3>3. calls[d] = [at |-> calls[d].at, location |-> calls[d].location, verdict |-> calls[d].verdict,
                      rivalled |-> calls[d].rivalled, answer |-> calls[d].answer]
      BY <3>1 DEF ImportCallsInv, CallRecords
    <3> HIDE DEF b
    <3>4. calls'[d] = [at |-> calls[d].at, location |-> calls[d].location, verdict |-> calls[d].verdict,
                       rivalled |-> b, answer |-> calls[d].answer]
      BY <3>2, <3>3
    <3>5. QED
      BY <3>4 DEF b
  <2>4. /\ calls'[c].at = "checking" /\ calls'[c].location = l /\ calls'[c].answer = NoEntry
        /\ calls'[c].rivalled = (Rivals(l) # {})
    BY <2>2
  <2>5. \A d \in Importers : InProgress(d)' <=> d = c \/ InProgress(d)
    BY <2>3, <2>4 DEF InProgress
  <2>6. CallRecords'
    <3>1. DOMAIN calls' = Importers /\ calls' = [d \in Importers |-> calls'[d]]
      BY <2>1
    <3>2. QED
      BY <1>1, <2>2, <2>3, <2>4, <2>5, <3>1 DEF ImportCallsInv, CallRecords
  <2>7. RivalsKnow'
    <3>1. ASSUME NEW d \in Importers \ {c}, InProgress(d), calls[d].location = l
          PROVE  calls'[d].rivalled /\ calls'[c].rivalled
      BY <2>3, <2>4, <3>1 DEF Rivals
    <3>2. ASSUME NEW d \in Importers \ {c}, calls[d].rivalled
          PROVE  calls'[d].rivalled
      BY <2>3, <3>2
    <3>3. SUFFICES ASSUME NEW d \in Importers, NEW f \in Importers, d # f, InProgress(d)', InProgress(f)',
                          calls'[d].location = calls'[f].location
                   PROVE  calls'[d].rivalled
      BY DEF RivalsKnow
    <3>4. CASE d = c
      <4>1. f \in Importers \ {c} /\ InProgress(f) /\ calls[f].location = l
        BY <2>3, <2>4, <2>5, <3>3, <3>4
      <4>2. QED
        BY <3>1, <3>4, <4>1
    <3>5. CASE f = c
      <4>1. d \in Importers \ {c} /\ InProgress(d) /\ calls[d].location = l
        BY <2>3, <2>4, <2>5, <3>3, <3>5
      <4>2. QED
        BY <3>1, <4>1
    <3>6. CASE d # c /\ f # c
      <4>1. InProgress(d) /\ InProgress(f) /\ calls[d].location = calls[f].location
        BY <2>3, <2>5, <3>3, <3>6
      <4>2. QED
        BY <3>2, <3>3, <3>6, <4>1 DEF ImportCallsInv, RivalsKnow
    <3>7. QED
      BY <3>4, <3>5, <3>6
  <2>8. PendingIsInProgress'
    <3>1. \A k : Listed(k)' = Listed(k)
      BY <1>1 DEF Listed
    <3>2. ASSUME NEW d \in Importers, InProgress(d)', ~calls'[d].rivalled
          PROVE  calls'[d].location \in marked' /\ Listed(calls[d].location)' = {}
      <4>1. CASE d = c
        BY <2>1, <2>4, <3>1, <4>1
      <4>2. CASE d # c
        <5>1. InProgress(d) /\ ~calls[d].rivalled /\ calls'[d].location = calls[d].location
          BY <2>3, <2>5, <3>2, <4>2
        <5>2. calls[d].location \in marked /\ Listed(calls[d].location) = {}
          BY <5>1 DEF ImportCallsInv, ImportCallsSound, PendingIsInProgress
        <5>3. QED
          BY <2>1, <3>1, <5>1, <5>2
      <4>3. QED
        BY <4>1, <4>2
    <3>3. ASSUME NEW k \in marked' PROVE Rivals(k)' # {}
      <4>1. CASE k = l
        BY <2>4, <2>5, <4>1 DEF Rivals
      <4>2. CASE k # l
        <5>1. PICK d \in Rivals(k) : TRUE
          BY <2>1, <3>3, <4>2 DEF ImportCallsInv, ImportCallsSound, PendingIsInProgress
        <5>2. d \in Importers \ {c} /\ InProgress(d) /\ calls[d].location = k
          BY <1>1, <5>1 DEF Rivals
        <5>3. QED
          BY <2>3, <2>5, <5>2 DEF Rivals
      <4>3. QED
        BY <4>1, <4>2
    <3>4. QED
      BY <3>2, <3>3 DEF PendingIsInProgress
  <2>9. AnswersAreListed'
    <3>1. \A k : Listed(k)' = Listed(k)
      BY <1>1 DEF Listed
    <3>2. \A d \in Importers : calls'[d].answer = NoEntry \/ calls'[d].answer = calls[d].answer
      BY <2>3, <2>4
    <3>3. QED
      BY <1>1, <3>1, <3>2 DEF ImportCallsInv, ImportCallsSound, AnswersAreListed
  <2>10. TwinsHadRivals' /\ CacheKnown'
    BY <1>1 DEF ImportCallsInv, ImportCallsSound, TwinsHadRivals, CacheKnown, Listed
  <2>11. QED
    BY <2>6, <2>7, <2>8, <2>9, <2>10 DEF ImportCallsInv, ImportCallsSound
<1>4. QED
  BY <1>2, <1>3 DEF Import

(* The worker's stages change neither where a call is nor what it met.             *)
LEMMA WorkerKeeps ==
  ASSUME ImportCallsInv, NEW c \in Importers, CheckAccess(c) \/ Probe(c)
  PROVE  ImportCallsInv'
<1>1. \E verdict : \E from \in {"checking", "probing"}, to \in {"probing", "done"} : WorkerStage(c, from, verdict, to)
  BY DEF CheckAccess, Probe
<1> PICK verdict : \E from \in {"checking", "probing"}, to \in {"probing", "done"} : WorkerStage(c, from, verdict, to)
  BY <1>1
<1> PICK from \in {"checking", "probing"}, to \in {"probing", "done"} : WorkerStage(c, from, verdict, to)
  BY <1>1
<1>0. /\ calls[c].at \in {"checking", "probing"}
      /\ calls' = [calls EXCEPT ![c].at = to, ![c].verdict = verdict]
      /\ UNCHANGED <<entries, cache, marked>>
  BY DEF WorkerStage
<1>2. /\ DOMAIN calls' = Importers /\ calls' = [d \in Importers |-> calls'[d]]
      /\ \A d \in Importers \ {c} : calls'[d] = calls[d]
      /\ calls'[c] = [calls[c] EXCEPT !.at = to, !.verdict = verdict]
  BY <1>0 DEF ImportCallsInv, CallRecords
<1>3. /\ calls'[c].at = to /\ calls'[c].location = calls[c].location
      /\ calls'[c].rivalled = calls[c].rivalled /\ calls'[c].answer = calls[c].answer
      /\ calls'[c] = [at |-> calls'[c].at, location |-> calls'[c].location, verdict |-> calls'[c].verdict,
                      rivalled |-> calls'[c].rivalled, answer |-> calls'[c].answer]
  <2> DEFINE r == calls[c]
             s == calls'[c]
  <2>1. r = [at |-> r.at, location |-> r.location, verdict |-> r.verdict, rivalled |-> r.rivalled,
             answer |-> r.answer]
    BY DEF ImportCallsInv, CallRecords
  <2>2. s = [r EXCEPT !.at = to, !.verdict = verdict]
    BY <1>2
  <2> HIDE DEF r, s
  <2>3. s = [at |-> to, location |-> r.location, verdict |-> verdict, rivalled |-> r.rivalled,
             answer |-> r.answer]
    BY <2>1, <2>2
  <2>4. QED
    BY <2>3 DEF r, s
<1>4. \A d \in Importers : InProgress(d)' <=> InProgress(d)
  BY <1>0, <1>2, <1>3 DEF InProgress
<1>5. CallRecords'
  BY <1>0, <1>2, <1>3, <1>4 DEF ImportCallsInv, CallRecords
<1>6. RivalsKnow' /\ CacheKnown'
  BY <1>0, <1>2, <1>3, <1>4 DEF ImportCallsInv, RivalsKnow, CacheKnown, Listed
<1>7. PendingIsInProgress'
  <2>1. \A d \in Importers : calls'[d].location = calls[d].location /\ calls'[d].rivalled = calls[d].rivalled
    BY <1>2, <1>3
  <2>2. \A k : Listed(k)' = Listed(k) /\ Rivals(k)' = Rivals(k)
    BY <1>0, <1>4, <2>1 DEF Listed, Rivals
  <2>3. ASSUME NEW d \in Importers, InProgress(d)', ~calls'[d].rivalled
        PROVE  calls'[d].location \in marked' /\ Listed(calls[d].location)' = {}
    <3>1. InProgress(d) /\ ~calls[d].rivalled
      BY <1>4, <2>1, <2>3
    <3>2. calls[d].location \in marked /\ Listed(calls[d].location) = {}
      BY <3>1 DEF ImportCallsInv, ImportCallsSound, PendingIsInProgress
    <3>3. marked' = marked /\ entries' = entries
      BY <1>0
    <3>4. calls'[d].location = calls[d].location
      BY <2>1
    <3>5. Listed(calls[d].location)' = {}
      BY <3>2, <3>3, <3>4 DEF Listed
    <3>6. QED
      BY <3>2, <3>3, <3>4, <3>5
  <2>4. \A k \in marked' : Rivals(k)' # {}
    BY <1>0, <2>2 DEF ImportCallsInv, ImportCallsSound, PendingIsInProgress
  <2>5. \A d \in Importers : calls'[d].location = calls[d].location
    BY <2>1
  <2>6. QED
    BY <2>3, <2>4, <2>5 DEF PendingIsInProgress
<1>8. AnswersAreListed' /\ TwinsHadRivals'
  BY <1>0, <1>2, <1>3, <1>4 DEF ImportCallsInv, ImportCallsSound, AnswersAreListed, TwinsHadRivals, Listed
<1>9. QED
  BY <1>5, <1>6, <1>7, <1>8 DEF ImportCallsInv, ImportCallsSound

(* The mark that goes with a call is of no other that counts on it.                *)
LEMMA RejectKeeps ==
  ASSUME ImportCallsInv, NEW c \in Importers, TimesOut(c) \/ RejectedCall(c)
  PROVE  ImportCallsInv'
<1>1. /\ calls' = Answers(c, NoEntry) /\ marked' = marked \ {calls[c].location}
      /\ UNCHANGED <<entries, cache>> /\ InProgress(c)
  BY DEF TimesOut, RejectedCall, Reject, InProgress
<1>2. /\ calls'[c].at = "idle" /\ calls'[c].answer = NoEntry
      /\ \A d \in Importers \ {c} : calls'[d] = calls[d]
      /\ \A d \in Importers : InProgress(d)' <=> d # c /\ InProgress(d)
  BY <1>1, Rested DEF ImportCallsInv
<1>3. CallRecords'
  BY <1>1, Rested DEF ImportCallsInv, CallRecords
<1>4. RivalsKnow' /\ CacheKnown'
  BY <1>1, <1>2 DEF ImportCallsInv, RivalsKnow, CacheKnown, Listed
<1>5. PendingIsInProgress'
  BY <1>1, <1>2 DEF ImportCallsInv, ImportCallsSound, PendingIsInProgress, RivalsKnow, Rivals, Listed
<1>6. AnswersAreListed' /\ TwinsHadRivals'
  BY <1>1, <1>2 DEF ImportCallsInv, ImportCallsSound, AnswersAreListed, TwinsHadRivals, Listed
<1>7. QED
  BY <1>3, <1>4, <1>5, <1>6 DEF ImportCallsInv, ImportCallsSound

LEMMA AcceptedKeeps ==
  ASSUME ImportCallsInv, NEW c \in Importers, Accepted(c)
  PROVE  ImportCallsInv'
<1> DEFINE l == calls[c].location
           e == [id |-> registered, location |-> l, rivalled |-> calls[c].rivalled, project |-> project]
<1>1. /\ calls' = Answers(c, e) /\ marked' = marked \ {l} /\ entries' = entries \cup {e}
      /\ cache' = [cache EXCEPT ![l] = e] /\ InProgress(c)
  BY DEF Accepted, Register, InProgress
<1>2. e.location = l /\ e.rivalled = calls[c].rivalled /\ l \in Locations
  BY <1>1 DEF ImportCallsInv, CallRecords
<1>3. ~calls[c].rivalled => Listed(l) = {}
  BY <1>1 DEF ImportCallsInv, ImportCallsSound, PendingIsInProgress
<1>4. \A d \in Importers : d # c /\ InProgress(d) /\ calls[d].location = l => calls[d].rivalled
  BY <1>1 DEF ImportCallsInv, RivalsKnow
<1> HIDE DEF e
<1>5. /\ calls'[c].at = "idle" /\ calls'[c].answer = e
      /\ \A d \in Importers \ {c} : calls'[d] = calls[d]
      /\ \A d \in Importers : InProgress(d)' <=> d # c /\ InProgress(d)
  BY <1>1, Rested DEF ImportCallsInv
<1>6. /\ cache' = [k \in Locations |-> cache'[k]] /\ cache'[l] = e
      /\ \A k \in Locations \ {l} : cache'[k] = cache[k]
  BY <1>1, <1>2 DEF ImportCallsInv, CallRecords
<1>7. CallRecords'
  BY <1>1, <1>6, Rested DEF ImportCallsInv, CallRecords
<1>8. RivalsKnow'
  BY <1>5 DEF ImportCallsInv, RivalsKnow
<1>9. \A k : k # l => Listed(k)' = Listed(k)
  BY <1>1, <1>2 DEF Listed
<1> HIDE DEF l
<1>10. CacheKnown'
  <2>1. SUFFICES ASSUME NEW k \in Locations, cache'[k] # NoEntry
        PROVE /\ cache'[k].location = k
              /\ Listed(k)' # {} => cache'[k] \in entries' \/ \E f \in Listed(k)' : f.project # cache'[k].project
    BY DEF CacheKnown
  <2>2. CASE k = l
    BY <1>1, <1>2, <1>6, <2>2
  <2>3. CASE k # l
    BY <1>1, <1>6, <1>9, <2>1, <2>3 DEF ImportCallsInv, CacheKnown
  <2>4. QED
    BY <2>2, <2>3
<1>11. PendingIsInProgress'
  <2>1. ASSUME NEW d \in Importers, InProgress(d)', ~calls'[d].rivalled
        PROVE  calls'[d].location \in marked' /\ Listed(calls[d].location)' = {}
    <3>1. d # c /\ InProgress(d) /\ calls'[d] = calls[d] /\ calls[d].location # l
      BY <1>4, <1>5, <2>1
    <3>2. calls[d].location \in marked /\ Listed(calls[d].location) = {}
      BY <2>1, <3>1 DEF ImportCallsInv, ImportCallsSound, PendingIsInProgress
    <3>3. QED
      BY <1>1, <1>9, <3>1, <3>2
  <2>2. ASSUME NEW k \in marked' PROVE Rivals(k)' # {}
    <3>1. k \in marked /\ k # l
      BY <1>1, <2>2
    <3>2. PICK d \in Rivals(k) : TRUE
      BY <3>1 DEF ImportCallsInv, ImportCallsSound, PendingIsInProgress
    <3>3. d \in Importers /\ d # c /\ InProgress(d) /\ calls[d].location = k
      BY <3>1, <3>2 DEF Rivals, l
    <3>4. QED
      BY <1>5, <3>3 DEF Rivals
  <2>3. QED
    BY <2>1, <2>2 DEF PendingIsInProgress
<1>12. TwinsHadRivals'
  <2>1. \A a \in entries : a.location = l => e.rivalled
    BY <1>2, <1>3 DEF Listed
  <2>2. QED
    BY <1>1, <1>2, <2>1 DEF ImportCallsInv, ImportCallsSound, TwinsHadRivals
<1>13. AnswersAreListed'
  <2>1. \A k : Listed(k) \subseteq Listed(k)'
    BY <1>1 DEF Listed
  <2>2. QED
    BY <1>1, <1>5, <2>1 DEF ImportCallsInv, ImportCallsSound, AnswersAreListed
<1>14. QED
  BY <1>7, <1>8, <1>10, <1>11, <1>12, <1>13 DEF ImportCallsInv, ImportCallsSound

LEMMA ReplaceKeeps ==
  ASSUME ImportCallsInv, NEW c \in Importers, ReplaceProject(c)
  PROVE  ImportCallsInv'
<1>1. /\ entries' \in {{}} \cup {{e} : e \in {cache[l] : l \in Locations} \ {NoEntry}}
      /\ calls' = [d \in Importers |-> [calls[d] EXCEPT !.rivalled = InProgress(d), !.answer = NoEntry]]
      /\ UNCHANGED <<cache, marked>>
  BY DEF ReplaceProject
<1>2. \A d \in Importers :
        /\ calls'[d].at = calls[d].at /\ calls'[d].location = calls[d].location
        /\ calls'[d].answer = NoEntry /\ calls'[d].rivalled = InProgress(d)
        /\ calls'[d] = [at |-> calls'[d].at, location |-> calls'[d].location, verdict |-> calls'[d].verdict,
                        rivalled |-> calls'[d].rivalled, answer |-> calls'[d].answer]
  <2>1. SUFFICES ASSUME NEW d \in Importers
                 PROVE  /\ calls'[d].at = calls[d].at /\ calls'[d].location = calls[d].location
                        /\ calls'[d].answer = NoEntry /\ calls'[d].rivalled = InProgress(d)
                        /\ calls'[d] = [at |-> calls'[d].at, location |-> calls'[d].location, verdict |-> calls'[d].verdict,
                                        rivalled |-> calls'[d].rivalled, answer |-> calls'[d].answer]
    OBVIOUS
  <2> DEFINE b == InProgress(d)
  <2>2. calls'[d] = [calls[d] EXCEPT !.rivalled = b, !.answer = NoEntry]
    BY <1>1, <2>1
  <2>3. calls[d] = [at |-> calls[d].at, location |-> calls[d].location, verdict |-> calls[d].verdict,
                    rivalled |-> calls[d].rivalled, answer |-> calls[d].answer]
    BY <2>1 DEF ImportCallsInv, CallRecords
  <2> HIDE DEF b
  <2>4. calls'[d] = [at |-> calls[d].at, location |-> calls[d].location, verdict |-> calls[d].verdict,
                     rivalled |-> b, answer |-> NoEntry]
    BY <2>2, <2>3
  <2>5. QED
    BY <2>4 DEF b
<1>3. \A d \in Importers : (InProgress(d)' <=> InProgress(d)) /\ InProgress(d) \in BOOLEAN
  BY <1>2 DEF InProgress
<1>4. CallRecords'
  <2>1. DOMAIN calls' = Importers /\ calls' = [d \in Importers |-> calls'[d]]
    BY <1>1
  <2>2. \A d \in Importers : calls'[d].rivalled \in BOOLEAN
    BY <1>2, <1>3
  <2>3. \A d \in Importers : InProgress(d)' => calls'[d].location \in Locations
    BY <1>2, <1>3 DEF ImportCallsInv, CallRecords
  <2>4. cache' = [l \in Locations |-> cache'[l]]
    BY <1>1 DEF ImportCallsInv, CallRecords
  <2>5. QED
    BY <1>2, <2>1, <2>2, <2>3, <2>4 DEF CallRecords
<1>5. RivalsKnow'
  BY <1>2, <1>3 DEF RivalsKnow
<1>6. PendingIsInProgress'
  <2>1. \A d \in Importers : InProgress(d)' => calls'[d].rivalled
    BY <1>2, <1>3
  <2>2. \A k : Rivals(k)' = Rivals(k)
    BY <1>2, <1>3 DEF Rivals
  <2>3. QED
    BY <1>1, <2>1, <2>2 DEF ImportCallsInv, ImportCallsSound, PendingIsInProgress
<1>7. entries' = {} \/ \E l \in Locations : cache[l] # NoEntry /\ entries' = {cache[l]}
  BY <1>1
<1>8. CacheKnown'
  <2>1. \A k \in Locations : cache[k] # NoEntry => cache[k].location = k
    BY DEF ImportCallsInv, CacheKnown
  <2>2. \A k \in Locations : cache[k] # NoEntry /\ Listed(k)' # {} => cache[k] \in entries'
    BY <1>7, <2>1 DEF Listed
  <2>3. QED
    BY <1>1, <2>1, <2>2 DEF CacheKnown
<1>9. TwinsHadRivals' /\ AnswersAreListed'
  BY <1>2, <1>7 DEF TwinsHadRivals, AnswersAreListed
<1>10. QED
  BY <1>4, <1>5, <1>6, <1>8, <1>9 DEF ImportCallsInv, ImportCallsSound

LEMMA ImportCallsStep ==
  ASSUME ImportCallsAssumption, ImportCallsInv, [ImportCallsNext]_importCallVars
  PROVE  ImportCallsInv'
<1>1. CASE UNCHANGED <<entries, cache, marked, calls>>
  BY <1>1 DEF ImportCallsInv, CallRecords, RivalsKnow, CacheKnown, ImportCallsSound, TwinsHadRivals,
              PendingIsInProgress, AnswersAreListed, InProgress, Rivals, Listed
<1>2. (\E l \in Locations, content \in Contents : FileChanges(l, content)) \/ UNCHANGED importCallVars
        => UNCHANGED <<entries, cache, marked, calls>>
  BY DEF FileChanges, importCallVars
<1>3. QED
  BY <1>1, <1>2, ImportKeeps, WorkerKeeps, RejectKeeps, AcceptedKeeps, ReplaceKeeps
  DEF ImportCallsNext, CallGoesOn

-----------------------------------------------------------------------------------
(* The files. *)

(* What an export writes, what a decoder gives out of a file and what the library  *)
(* lists for one, in the run that checks the three beside the other media parts    *)
(* (MediaEncoder::finish, MediaDecoder::nextFrame, MediaImportService).            *)
THEOREM FilesAreSound == MCSpec => []FilesSound
<1>1. MCInit => EncodingInv /\ DecodingInv /\ ImportCallsInv
  BY EncodingStart, DecodingStart, ImportCallsStart, EncodingAssumption DEF MCInit
<1>2. EncodingInv /\ DecodingInv /\ ImportCallsInv /\ [MCNext]_mcVars
        => (EncodingInv /\ DecodingInv /\ ImportCallsInv)'
  <2>1. [MCNext]_mcVars
          => [EncodingNext]_encodingVars /\ [DecodingNext]_decodingVars /\ [ImportCallsNext]_importCallVars
    BY DEF MCNext, mcVars
  <2>2. QED
    BY <2>1, EncodingStep, DecodingStep, ImportCallsStep, EncodingAssumption, DecodingAssumption,
       ImportCallsAssumption
<1>3. EncodingInv /\ DecodingInv /\ ImportCallsInv => FilesSound
  BY DEF FilesSound, EncodingInv, DecodingInv, ImportCallsInv
<1>4. QED
  BY <1>1, <1>2, <1>3, PTL DEF MCSpec

-----------------------------------------------------------------------------------
(* The mixer. *)

Slots == [positioned : BOOLEAN, cursor : Nat, ahead : Nat]
Hearing == [0..Quantum - 1 -> Nat \cup {Silence}]

(* The decoders that may be resident.                                              *)
Resident(l) == l \in Seq(SoundAssets) /\ Len(l) <= Residents /\ IsInjective(l)

(* What one window hands on from clip to clip.                                     *)
MixState(st) ==
  /\ st \in [lru : Seq(SoundAssets), slot : [SoundAssets -> Slots], silenced : SUBSET ClipIds,
             live : Nat, heard : [ClipIds -> Hearing]]
  /\ Resident(st.lru) /\ st.live = Len(st.lru)

LEMMA MixClipsAre ==
  ASSUME MixAssumption, NEW c \in ClipIds
  PROVE  /\ MixClips[c].asset \in SoundAssets /\ MixClips[c].start \in Nat
         /\ MixClips[c].end \in Nat /\ MixClips[c].in \in Nat
<1> DEFINE C == [asset : SoundAssets, start : Nat, end : Nat, in : Nat]
<1>1. MixClips \in Seq(C)
  BY DEF MixAssumption
<1>2. MixClips[c] \in C
  <2> HIDE DEF C
  <2>1. QED
    BY <1>1 DEF ClipIds
<1>3. QED
  BY <1>2

LEMMA EnsureKeeps ==
  ASSUME MixAssumption, NEW st, MixState(st), NEW a \in SoundAssets
  PROVE  MixState(EnsureAsset(st, a)) /\ EnsureAsset(st, a).slot[a] \in Slots
<1> DEFINE l == st.lru
           R == [lru : Seq(SoundAssets), slot : [SoundAssets -> Slots], silenced : SUBSET ClipIds,
                 live : Nat, heard : [ClipIds -> Hearing]]
           grown == <<a>> \o l
           front == <<a>> \o RemoveFirst(l, a)
           kept == SubSeq(grown, 1, MinOf(Len(grown), Residents))
           e == EnsureAsset(st, a)
<1>1. st \in R /\ l \in Seq(SoundAssets) /\ Len(l) <= Residents /\ IsInjective(l) /\ st.live = Len(l)
      /\ Residents \in Nat /\ Residents >= 1 /\ Len(l) \in Nat
  BY DEF MixState, Resident, MixAssumption
<1>2. CASE a \in ToSet(l)
  <2>1. e = [st EXCEPT !.lru = front]
    BY <1>2 DEF EnsureAsset
  <2>2. front \in Seq(SoundAssets) /\ IsInjective(front) /\ Len(front) = Len(l)
    BY <1>1, <1>2, TouchedSet
  <2> HIDE DEF front
  <2>3. e \in R /\ e.lru = front /\ e.live = st.live
    BY <1>1, <2>1, <2>2
  <2>4. e.slot[a] \in Slots
    BY <2>3
  <2>5. QED
    BY <1>1, <2>2, <2>3, <2>4 DEF MixState, Resident
<1>3. CASE a \notin ToSet(l)
  <2> DEFINE one == <<a>>
             m == MinOf(Len(grown), Residents)
  <2>1. e = [st EXCEPT !.lru = kept, !.live = st.live + 1 - (Len(grown) - Len(kept)), !.slot[a] = Unpositioned]
    BY <1>3 DEF EnsureAsset
  <2>2. one \in Seq(SoundAssets) /\ Len(one) = 1 /\ one[1] = a
    OBVIOUS
  <2> HIDE DEF l, one
  <2>3. /\ grown \in Seq(SoundAssets) /\ Len(grown) = Len(one) + Len(l)
        /\ \A i \in 1..Len(one) + Len(l) : grown[i] = IF i <= Len(one) THEN one[i] ELSE l[i - Len(one)]
    BY <1>1, <2>2, ConcatProperties DEF one
  <2> HIDE DEF grown
  <2>4. Len(grown) = Len(l) + 1 /\ \A i \in 1..Len(l) + 1 : grown[i] = IF i = 1 THEN a ELSE l[i - 1]
    <3>1. Len(grown) = Len(l) + 1
      BY <1>1, <2>2, <2>3
    <3>2. ASSUME NEW i \in 1..Len(l) + 1 PROVE grown[i] = IF i = 1 THEN a ELSE l[i - 1]
      <4>1. CASE i = 1
        BY <1>1, <2>2, <2>3, <4>1
      <4>2. CASE i # 1
        <5>1. i \in 1..Len(one) + Len(l) /\ ~(i <= Len(one)) /\ i - Len(one) = i - 1
          BY <1>1, <2>2, <4>2
        <5>2. QED
          BY <2>3, <4>2, <5>1
      <4>3. QED
        BY <4>1, <4>2
    <3>3. QED
      BY <3>1, <3>2
  <2>5. IsInjective(grown)
    <3>1. \A i \in 1..Len(l) : l[i] # a
      BY <1>1, <1>3 DEF ToSet, l
    <3>2. \A i, j \in 1..Len(l) : l[i] = l[j] => i = j
      <4>1. DOMAIN l = 1..Len(l)
        BY <1>1
      <4>2. QED
        BY <1>1, <4>1 DEF IsInjective
    <3>3. ASSUME NEW i \in 1..Len(l) + 1, NEW j \in 1..Len(l) + 1, grown[i] = grown[j] PROVE i = j
      <4>1. CASE i = 1 /\ j = 1
        BY <4>1
      <4>2. CASE i = 1 /\ j # 1
        <5>1. j - 1 \in 1..Len(l)
          BY <1>1, <4>2
        <5>2. QED
          BY <2>4, <3>1, <3>3, <4>2, <5>1
      <4>3. CASE i # 1 /\ j = 1
        <5>1. i - 1 \in 1..Len(l)
          BY <1>1, <4>3
        <5>2. QED
          BY <2>4, <3>1, <3>3, <4>3, <5>1
      <4>4. CASE i # 1 /\ j # 1
        <5>1. i - 1 \in 1..Len(l) /\ j - 1 \in 1..Len(l)
          BY <1>1, <4>4
        <5>2. l[i - 1] = l[j - 1]
          BY <2>4, <3>3, <4>4
        <5>3. i - 1 = j - 1
          BY <3>2, <5>1, <5>2
        <5>4. QED
          BY <5>3
      <4>5. QED
        BY <4>1, <4>2, <4>3, <4>4
    <3>4. DOMAIN grown = 1..Len(l) + 1
      BY <2>3, <2>4
    <3>5. QED
      BY <3>3, <3>4 DEF IsInjective
  <2>6. m \in 0..Len(grown) /\ m <= Residents /\ m \in Nat
    BY <1>1, <2>4 DEF MinOf
  <2>7. kept \in Seq(SoundAssets) /\ Len(kept) = m /\ IsInjective(kept)
    <3> DEFINE n == m
    <3> HIDE DEF n
    <3>1. n \in 0..Len(grown)
      BY <2>6 DEF n
    <3>2. SubSeq(grown, 1, n) \in Seq(SoundAssets) /\ Len(SubSeq(grown, 1, n)) = n /\ IsInjective(SubSeq(grown, 1, n))
      BY <2>3, <2>5, <3>1, PrefixSet
    <3>3. QED
      BY <3>2 DEF n
  <2> HIDE DEF kept, m
  <2>8. st.live + 1 - (Len(grown) - Len(kept)) = Len(kept) /\ Len(kept) \in Nat
    BY <1>1, <2>4, <2>6, <2>7
  <2>9. e = [st EXCEPT !.lru = kept, !.live = Len(kept), !.slot[a] = Unpositioned]
    BY <2>1, <2>8
  <2>10. Unpositioned \in Slots
    BY DEF Unpositioned, Slots
  <2> HIDE DEF e
  <2>11. e \in R /\ e.lru = kept /\ e.live = Len(kept) /\ e.slot \in [SoundAssets -> Slots]
    BY <1>1, <2>7, <2>8, <2>9, <2>10
  <2>12. Len(kept) <= Residents
    BY <2>6, <2>7
  <2>13. QED
    BY <2>7, <2>11, <2>12 DEF MixState, Resident, e
<1>4. QED
  BY <1>2, <1>3

LEMMA Extremes ==
  ASSUME NEW x \in Nat, NEW y \in Nat
  PROVE  /\ MaxOf(x, y) \in Nat /\ MaxOf(x, y) >= y
         /\ MinOf(x, y) \in Nat /\ \A z \in Nat : z <= x /\ z <= y => MinOf(x, y) >= z
BY DEF MaxOf, MinOf

LEMMA WholeBlocks ==
  ASSUME NEW k \in Nat \ {0}, NEW x \in Nat
  PROVE  x \div k \in Nat
OBVIOUS

LEMMA SlotsKept ==
  ASSUME MixAssumption, NEW entry \in Slots, NEW from \in Nat, NEW to \in Nat
  PROVE  Sought(entry, from) \in Slots /\ Filled(entry, from, to) \in Slots
<1>1. Block \in Nat /\ Block > 0
  BY DEF MixAssumption
<1>2. \A x \in Nat : x \div Block \in Nat /\ Block * (x \div Block) \in Nat
  <2>1. ASSUME NEW x \in Nat PROVE x \div Block \in Nat
    <3>1. Block \in Nat \ {0}
      BY DEF MixAssumption
    <3>2. QED
      BY <3>1, WholeBlocks
  <2>2. \A y \in Nat : Block * y \in Nat
    BY <1>1
  <2>3. QED
    BY <2>1, <2>2
<1>3. entry.positioned \in BOOLEAN /\ entry.cursor \in Nat /\ entry.ahead \in Nat
  BY DEF Slots
<1>4. Sought(entry, from) \in Slots
  <2> DEFINE x == Block * (from \div Block)
  <2>1. x \in Nat
    BY <1>2
  <2> HIDE DEF x
  <2>2. Sought(entry, from) = IF Seeks(entry, from) THEN [positioned |-> TRUE, cursor |-> from, ahead |-> x] ELSE entry
    BY DEF Sought, x
  <2>3. QED
    BY <2>1, <2>2 DEF Slots
<1>5. Filled(entry, from, to) \in Slots
  <2> DEFINE x == IF entry.ahead >= to THEN entry.ahead ELSE entry.ahead + Block * ((to - entry.ahead) \div Block)
  <2>1. x \in Nat
    <3>1. CASE entry.ahead >= to
      BY <1>3, <3>1
    <3>2. CASE ~(entry.ahead >= to)
      <4>1. to - entry.ahead \in Nat
        BY <1>3, <3>2
      <4> DEFINE y == Block * ((to - entry.ahead) \div Block)
      <4>2. y \in Nat
        BY <1>2, <4>1
      <4>3. x = entry.ahead + y
        BY <3>2
      <4> HIDE DEF x, y
      <4>4. QED
        BY <1>3, <4>2, <4>3
    <3>3. QED
      BY <3>1, <3>2
  <2>2. Filled(entry, from, to) = [entry EXCEPT !.cursor = to, !.ahead = x]
    BY DEF Filled
  <2> HIDE DEF x
  <2>3. QED
    BY <2>1, <2>2 DEF Slots
<1>6. QED
  BY <1>4, <1>5

LEMMA SamplesHeard ==
  ASSUME MixAssumption, NEW c \in ClipIds, NEW entry, NEW from \in Nat, NEW until
  PROVE  Samples(c, entry, from, until) \in Hearing
<1> DEFINE clip == MixClips[c]
           p(i) == clip.in + from + i - clip.start
           S(i) == IF /\ from + i >= clip.start /\ from + i < clip.end
                      /\ p(i) >= entry.ahead /\ p(i) < Lengths[clip.asset] /\ p(i) < until
                   THEN p(i) ELSE Silence
<1>1. clip.start \in Nat /\ clip.in \in Nat /\ Quantum \in Nat
  BY MixClipsAre DEF MixAssumption
<1>2. Samples(c, entry, from, until) = [i \in 0..Quantum - 1 |-> S(i)]
  BY DEF Samples
<1>3. ASSUME NEW i \in 0..Quantum - 1 PROVE S(i) \in Nat \cup {Silence}
  <2>1. from + i >= clip.start => p(i) \in Nat
    <3> DEFINE x == clip.start
               y == clip.in
    <3>1. x \in Nat /\ y \in Nat /\ i \in Nat /\ p(i) = y + from + i - x
      BY <1>1
    <3> HIDE DEF x, y, p
    <3>2. from + i >= x => p(i) \in Nat
      BY <3>1
    <3>3. QED
      BY <3>2 DEF x
  <2> HIDE DEF p
  <2>2. QED
    BY <2>1
<1> HIDE DEF S
<1>4. QED
  BY <1>2, <1>3 DEF Hearing

LEMMA FailureKeeps ==
  ASSUME NEW st, MixState(st), NEW c \in ClipIds
  PROVE  MixState(Fails(st, c))
BY DEF MixState, Resident, Fails

(* A window's clip leaves the decoders and the samples as they should be.          *)
LEMMA ClipKeeps ==
  ASSUME NEW st, MixState(st), NEW c \in ClipIds, NEW a \in SoundAssets,
         NEW entry \in Slots, NEW sound \in Hearing
  PROVE  MixState([st EXCEPT !.slot[a] = entry, !.heard[c] = sound])
BY DEF MixState, Resident

LEMMA NaturalSum == \A m, n \in Nat : m + n \in Nat
OBVIOUS

LEMMA FillKeeps ==
  ASSUME MixAssumption, NEW st, MixState(st), NEW c \in ClipIds, NEW from \in Nat, NEW fault,
         st.slot[MixClips[c].asset] \in Slots,
         ~(MixClips[c].end <= from \/ MixClips[c].start >= from + Quantum)
  PROVE  MixState(FillFromSource(st, c, from, fault))
<1> DEFINE clip == MixClips[c]
           srcFrom == clip.in + MaxOf(from, clip.start) - clip.start
           srcTo == clip.in + MinOf(from + Quantum, clip.end) - clip.start
           entry == Sought(st.slot[clip.asset], srcFrom)
           broken == entry.ahead + Block
           s1 == Samples(c, entry, from, broken)
           s2 == Samples(c, entry, from, Lengths[clip.asset])
           partial == [entry EXCEPT !.ahead = broken]
           r == FillFromSource(st, c, from, fault)
<1>1. /\ clip.asset \in SoundAssets /\ clip.start \in Nat /\ clip.end \in Nat /\ clip.in \in Nat
      /\ clip.start <= clip.end /\ Block \in Nat /\ Quantum \in Nat
  BY MixClipsAre DEF MixAssumption, ClipIds
<1>2. srcFrom \in Nat /\ srcTo \in Nat
  <2>1. MaxOf(from, clip.start) \in Nat /\ MaxOf(from, clip.start) >= clip.start
    BY <1>1, Extremes
  <2>2. MinOf(from + Quantum, clip.end) \in Nat /\ MinOf(from + Quantum, clip.end) >= clip.start
    <3>1. from + Quantum \in Nat /\ clip.start <= from + Quantum
      <4> DEFINE x == clip.start
      <4>1. x \in Nat /\ Quantum \in Nat /\ ~(x >= from + Quantum)
        BY <1>1
      <4> HIDE DEF x
      <4>2. from + Quantum \in Nat /\ x <= from + Quantum
        BY <4>1
      <4>3. QED
        BY <4>2 DEF x
    <3>2. QED
      BY <1>1, <3>1, Extremes
  <2> DEFINE x == MaxOf(from, clip.start)
             y == MinOf(from + Quantum, clip.end)
             z == clip.start
             w == clip.in
  <2>3. /\ x \in Nat /\ y \in Nat /\ z \in Nat /\ w \in Nat /\ z <= x /\ z <= y
        /\ srcFrom = w + x - z /\ srcTo = w + y - z
    BY <1>1, <2>1, <2>2
  <2> HIDE DEF x, y, z, w, srcFrom, srcTo
  <2>4. QED
    BY <2>3
<1> HIDE DEF srcFrom, srcTo
<1>3. entry \in Slots
  BY <1>2, SlotsKept
<1>4. Filled(entry, srcFrom, srcTo) \in Slots
  BY <1>2, <1>3, SlotsKept
<1>5. s1 \in Hearing /\ s2 \in Hearing
  BY SamplesHeard
<1>6. r \in {Fails(st, c), [Fails(st, c) EXCEPT !.slot[clip.asset] = partial, !.heard[c] = s1],
              [st EXCEPT !.slot[clip.asset] = Filled(entry, srcFrom, srcTo), !.heard[c] = s2]}
  BY DEF FillFromSource, srcFrom, srcTo
<1> DEFINE full == Filled(entry, srcFrom, srcTo)
<1>7. partial \in Slots
  <2> DEFINE x == broken
  <2> HIDE DEF entry
  <2>1. entry.ahead \in Nat
    BY <1>3 DEF Slots
  <2>2. x \in Nat
    BY <1>1, <2>1, NaturalSum, Zenon
  <2>3. partial = [entry EXCEPT !.ahead = x]
    OBVIOUS
  <2> HIDE DEF x
  <2>4. QED
    BY <1>3, <2>2, <2>3 DEF Slots
<1> HIDE DEF r, entry, s1, s2, partial, full
<1>8. r \in {Fails(st, c), [Fails(st, c) EXCEPT !.slot[clip.asset] = partial, !.heard[c] = s1],
              [st EXCEPT !.slot[clip.asset] = full, !.heard[c] = s2]}
  BY <1>6 DEF full
<1>9. full \in Slots
  BY <1>4 DEF full
<1>10. MixState(Fails(st, c))
  BY FailureKeeps
<1> DEFINE f == Fails(st, c)
<1> HIDE DEF f
<1>11. MixState([f EXCEPT !.slot[clip.asset] = partial, !.heard[c] = s1])
  BY <1>1, <1>5, <1>7, <1>10, ClipKeeps DEF f
<1>12. MixState([st EXCEPT !.slot[clip.asset] = full, !.heard[c] = s2])
  BY <1>1, <1>5, <1>9, ClipKeeps
<1>13. QED
  BY <1>8, <1>10, <1>11, <1>12 DEF f, r

LEMMA ContributeKeeps ==
  ASSUME MixAssumption, NEW st, MixState(st), NEW c \in ClipIds, NEW from \in Nat, NEW fault
  PROVE  MixState(Contribute(st, c, from, fault))
<1> DEFINE clip == MixClips[c]
           ready == EnsureAsset(st, clip.asset)
<1>1. clip.asset \in SoundAssets
  BY MixClipsAre
<1>2. MixState(ready) /\ ready.slot[clip.asset] \in Slots
  BY <1>1, EnsureKeeps
<1>3. MixState(Fails(st, c))
  BY FailureKeeps
<1>4. ASSUME ~(clip.end <= from \/ clip.start >= from + Quantum)
      PROVE  MixState(FillFromSource(ready, c, from, fault))
  <2> HIDE DEF ready
  <2>1. QED
    BY <1>2, <1>4, FillKeeps
<1>5. \/ Contribute(st, c, from, fault) \in {st, Fails(st, c), ready}
      \/ /\ ~(clip.end <= from \/ clip.start >= from + Quantum)
         /\ Contribute(st, c, from, fault) = FillFromSource(ready, c, from, fault)
  BY DEF Contribute
<1> HIDE DEF ready
<1>6. QED
  BY <1>2, <1>3, <1>4, <1>5

(* A window from one clip to the next.                                             *)
MixStates == {st \in [lru : Seq(SoundAssets), slot : [SoundAssets -> Slots], silenced : SUBSET ClipIds,
                      live : Nat, heard : [ClipIds -> Hearing]] : MixState(st)}

LEMMA WindowKeeps ==
  ASSUME MixAssumption, NEW st \in MixStates, NEW from \in Nat, NEW bad
  PROVE  MixState(Mixed(st, from, bad))
<1> DEFINE n == Len(MixClips)
           X == MixStates
           Fault(c) == IF c = bad[1] THEN bad[2] ELSE "none"
           Takes(q, i) == Contribute(q, i, from, Fault(i))
           F == [q \in X \X (1..n) |-> Takes(q[1], q[2])]
           Order == [i \in DOMAIN MixClips |-> i]
           P(g) == g = [s \in SUBSET DOMAIN Order |-> IF s = {} THEN st ELSE Takes(g[s \ {Max(s)}], Order[Max(s)])]
           it == CHOOSE g : P(g)
<1>1. Mixed(st, from, bad) = it[DOMAIN Order]
  BY DEF Mixed, FoldLeftDomain, FoldLeft, MapThenFoldSet
<1>2. n \in Nat /\ DOMAIN MixClips = 1..n /\ ClipIds = 1..n
  <2> DEFINE K == [asset : SoundAssets, start : Nat, end : Nat, in : Nat]
  <2>1. MixClips \in Seq(K)
    BY DEF MixAssumption
  <2> HIDE DEF K
  <2>2. QED
    BY <2>1 DEF ClipIds
<1>3. DOMAIN Order = 1..n /\ \A i \in 1..n : Order[i] = i
  BY <1>2
<1>4. \A q \in X, i \in 1..n : Takes(q, i) \in X
  <2>1. ASSUME NEW q \in X, NEW i \in 1..n PROVE Takes(q, i) \in X
    <3> DEFINE r == Takes(q, i)
    <3>1. MixState(q) /\ i \in ClipIds
      BY <1>2 DEF MixStates
    <3> HIDE DEF Fault
    <3>2. MixState(r)
      BY <3>1, ContributeKeeps
    <3> HIDE DEF r
    <3>3. r \in X
      BY <3>2 DEF MixStates, MixState
    <3>4. QED
      BY <3>3 DEF r
  <2>2. QED
    BY <2>1
<1> HIDE DEF X, Takes, n, Order, Fault
<1>5. F \in [X \X (1..n) -> X] /\ \A q \in X, i \in 1..n : F[q, i] = Takes(q, i)
  BY <1>4
<1> HIDE DEF F
<1>6. st \in X
  BY DEF X
<1>7. PICK g \in [SUBSET (1..n) -> X] : TakesLast(g, n, st, F)
  BY <1>2, <1>5, <1>6, LeftFoldExists
<1>8. \A s \in SUBSET (1..n) : s # {} => Max(s) \in 1..n
  BY <1>2, LargestIn
<1>9. g = [s \in SUBSET (1..n) |-> IF s = {} THEN st ELSE Takes(g[s \ {Max(s)}], Max(s))]
  <2>1. \A s \in SUBSET (1..n) : s # {} => F[g[s \ {Max(s)}], Max(s)] = Takes(g[s \ {Max(s)}], Max(s))
    BY <1>5, <1>8
  <2>2. QED
    BY <1>7, <2>1 DEF TakesLast
<1>10. P(g)
  <2>1. \A s \in SUBSET (1..n) : s # {} => Takes(g[s \ {Max(s)}], Order[Max(s)]) = Takes(g[s \ {Max(s)}], Max(s))
    BY <1>3, <1>8
  <2>2. QED
    BY <1>3, <1>9, <2>1
<1>11. P(it)
  <2> HIDE DEF P
  <2>1. QED
    BY <1>10
<1>12. it[{}] = st /\ \A s \in SUBSET (1..n) : s # {} => it[s] = Takes(it[s \ {Max(s)}], Order[Max(s)])
  BY <1>3, <1>11
<1> HIDE DEF it, P
<1> DEFINE Bad == {k \in 0..n : it[1..k] \notin X}
<1>13. /\ Bad \subseteq Nat /\ \A k \in Bad : k \in 0..n /\ it[1..k] \notin X
       /\ \A k \in 0..n : k \notin Bad => it[1..k] \in X
  BY <1>2
<1> HIDE DEF Bad
<1>14. Bad = {}
  <2>1. SUFFICES ASSUME Bad # {} PROVE FALSE
    OBVIOUS
  <2>2. PICK k \in Bad : \A j \in Bad : k <= j
    BY <1>13, <2>1, LeastOf
  <2>3. k \in 0..n /\ it[1..k] \notin X
    BY <1>13, <2>2
  <2>4. k # 0
    <3>1. 1..0 = {}
      OBVIOUS
    <3>2. QED
      BY <1>6, <1>12, <2>3, <3>1
  <2> DEFINE j == k - 1
  <2>5. j \in 0..n - 1 /\ j \in 0..n /\ j + 1 = k /\ ~(k <= j) /\ j \in Nat
    BY <1>2, <2>3, <2>4
  <2> HIDE DEF j
  <2>6. it[1..j] \in X
    BY <1>13, <2>2, <2>5
  <2>7. /\ 1..j + 1 \in SUBSET (1..n) /\ 1..j + 1 # {} /\ j + 1 \in 1..n
        /\ Max(1..j + 1) = j + 1 /\ (1..j + 1) \ {j + 1} = 1..j
    BY <1>2, <2>5, InitialSegments
  <2>8. it[1..j + 1] = Takes(it[1..j], j + 1)
    <3> DEFINE s == 1..j + 1
               m == Max(s)
    <3>1. s \in SUBSET (1..n) /\ s # {} /\ m = j + 1 /\ m \in 1..n /\ s \ {m} = 1..j
      BY <2>7
    <3> HIDE DEF s, m
    <3>2. it[s] = Takes(it[s \ {m}], Order[m]) /\ Order[m] = m
      BY <1>3, <1>12, <3>1 DEF m
    <3>3. it[s] = Takes(it[1..j], j + 1)
      BY <3>1, <3>2
    <3>4. QED
      BY <3>3 DEF s
  <2>9. QED
    BY <1>4, <2>3, <2>5, <2>6, <2>7, <2>8
<1>15. it[1..n] \in X
  BY <1>2, <1>13, <1>14
<1>16. QED
  BY <1>1, <1>3, <1>15 DEF X, MixStates

(* The mixer's types, and every decoder that is open resident, each asset once.     *)
MixInv == MixTypeOK /\ Resident(lru) /\ live = Len(lru)

Decoders == [lru |-> lru, slot |-> slot, silenced |-> silenced, live |-> live, heard |-> heard]

LEMMA MixParts ==
  MixInv <=> /\ MixState(Decoders)
             /\ running \in BOOLEAN /\ cursor \in Nat /\ exportAt \in 0..Horizon
             /\ users \subseteq {"playback", "export"} /\ window \in Nat \cup {Nowhere}
BY DEF MixInv, MixTypeOK, MixState, Resident, Slots, Hearing, Decoders

LEMMA MixPromise == ASSUME MixInv PROVE ResidentDecoders
BY InjectiveLength DEF MixInv, Resident, ResidentDecoders

LEMMA MixStart == ASSUME MixAssumption, MixInit PROVE MixInv
<1> DEFINE none == <<>>
<1>1. none \in Seq(SoundAssets) /\ Len(none) = 0 /\ IsInjective(none)
  BY DEF IsInjective
<1>2. lru = none /\ live = 0
  BY DEF MixInit
<1> HIDE DEF none
<1>3. Resident(lru) /\ live = Len(lru) /\ lru \in Seq(SoundAssets)
  BY <1>1, <1>2 DEF Resident, MixAssumption
<1>4. NoSound \in [0..Quantum - 1 -> Nat \cup {Silence}]
  BY DEF NoSound
<1>5. MixTypeOK
  <2>1. /\ slot = [a \in SoundAssets |-> Unpositioned] /\ heard = [c \in ClipIds |-> NoSound]
        /\ running = FALSE /\ cursor = 0 /\ exportAt = 0 /\ users = {} /\ silenced = {} /\ live = 0
        /\ window = Nowhere
    BY DEF MixInit
  <2>2. heard \in [ClipIds -> [0..Quantum - 1 -> Nat \cup {Silence}]]
    BY <1>4, <2>1
  <2>3. slot \in [SoundAssets -> [positioned : BOOLEAN, cursor : Nat, ahead : Nat]]
    BY <2>1 DEF Unpositioned
  <2>4. 0 \in 0..Horizon
    BY DEF MixAssumption
  <2>5. running \in BOOLEAN /\ cursor \in Nat /\ exportAt \in 0..Horizon /\ live \in Nat
    BY <2>1, <2>4
  <2>6. users \subseteq {"playback", "export"} /\ silenced \subseteq ClipIds /\ window \in Nat \cup {Nowhere}
    BY <2>1
  <2>7. QED
    BY <1>3, <2>2, <2>3, <2>5, <2>6 DEF MixTypeOK
<1>6. QED
  BY <1>3, <1>5 DEF MixInv

LEMMA MixWindowKeeps ==
  ASSUME MixAssumption, MixInv, NEW from \in Nat, MixWindow(from)
  PROVE  MixState(Decoders') /\ window' = from
<1> DEFINE st == [lru |-> lru, slot |-> slot, silenced |-> silenced, live |-> live,
                  heard |-> [c \in ClipIds |-> NoSound]]
<1>1. MixState(Decoders)
  BY MixParts
<1>2. [c \in ClipIds |-> NoSound] \in [ClipIds -> Hearing]
  BY DEF NoSound, Hearing
<1>3. MixState(st)
  BY <1>1, <1>2 DEF MixState, Resident, Decoders
<1>4. PICK bad : LET mixed == Mixed(st, from, bad)
                 IN /\ lru' = mixed.lru /\ slot' = mixed.slot
                    /\ silenced' = mixed.silenced /\ live' = mixed.live
                    /\ heard' = mixed.heard
                    /\ window' = from
  BY DEF MixWindow
<1> DEFINE mixed == Mixed(st, from, bad)
<1>5. MixState(mixed)
  <2> HIDE DEF st
  <2>1. st \in MixStates
    BY <1>3 DEF MixStates, MixState
  <2>2. QED
    BY <2>1, WindowKeeps
<1>6. /\ lru' = mixed.lru /\ slot' = mixed.slot /\ silenced' = mixed.silenced
      /\ live' = mixed.live /\ heard' = mixed.heard /\ window' = from
  BY <1>4
<1> HIDE DEF mixed
<1>7. QED
  BY <1>5, <1>6 DEF MixState, Resident, Decoders

LEMMA MixStep == ASSUME MixAssumption, MixInv, [MixNext]_mixVars PROVE MixInv'
<1>1. CASE UNCHANGED mixVars
  BY <1>1 DEF mixVars, MixInv, MixTypeOK, Resident
<1>2. /\ MixState(Decoders)
      /\ running \in BOOLEAN /\ cursor \in Nat /\ exportAt \in 0..Horizon
      /\ users \subseteq {"playback", "export"} /\ window \in Nat \cup {Nowhere}
  BY MixParts
<1>3. Horizon \in Nat /\ Quantum \in Nat
  BY DEF MixAssumption
<1>4. MixInv' <=> /\ MixState(Decoders')
                  /\ running' \in BOOLEAN /\ cursor' \in Nat /\ exportAt' \in 0..Horizon
                  /\ users' \subseteq {"playback", "export"} /\ window' \in Nat \cup {Nowhere}
  BY DEF MixInv, MixTypeOK, MixState, Resident, Slots, Hearing, Decoders
<1>5. CASE Start
  <2>1. /\ running' = TRUE /\ cursor' \in 0..Horizon /\ silenced' = {}
        /\ slot' = [a \in SoundAssets |-> Unpositioned]
        /\ heard' = [c \in ClipIds |-> NoSound]
        /\ window' = Nowhere /\ users' = {} /\ UNCHANGED <<lru, live, exportAt>>
    BY <1>5 DEF Start
  <2>2. slot' \in [SoundAssets -> Slots] /\ heard' \in [ClipIds -> Hearing] /\ silenced' \in SUBSET ClipIds
    BY <2>1 DEF Unpositioned, NoSound, Slots, Hearing
  <2>3. MixState(Decoders')
    BY <1>2, <2>1, <2>2 DEF MixState, Resident, Decoders
  <2>4. QED
    BY <1>2, <1>3, <1>4, <2>1, <2>3
<1>6. CASE Stop
  <2> DEFINE none == <<>>
  <2>1. /\ running' = FALSE /\ lru' = none /\ live' = live - Len(lru)
        /\ UNCHANGED <<slot, cursor, exportAt, users, silenced, window, heard>>
    BY <1>6 DEF Stop
  <2>2. none \in Seq(SoundAssets) /\ Len(none) = 0 /\ IsInjective(none)
    BY DEF IsInjective
  <2> HIDE DEF none
  <2>3. Resident(lru') /\ lru' \in Seq(SoundAssets) /\ Len(lru') = 0
    BY <2>1, <2>2 DEF Resident, MixAssumption
  <2>4. live' = 0
    BY <2>1 DEF MixInv, Resident
  <2>5. MixState(Decoders')
    BY <1>2, <2>1, <2>3, <2>4 DEF MixState, Decoders
  <2>6. QED
    BY <1>2, <1>4, <2>1, <2>5
<1>7. CASE PumpQuantum
  <2>1. /\ MixWindow(cursor) /\ cursor' = cursor + Quantum /\ users' = users \cup {"playback"}
        /\ UNCHANGED <<running, exportAt>>
    BY <1>7 DEF PumpQuantum
  <2>2. MixState(Decoders') /\ window' = cursor
    BY <1>2, <2>1, MixWindowKeeps
  <2>3. QED
    BY <1>2, <1>3, <1>4, <2>1, <2>2
<1>8. CASE RenderRange
  <2>1. /\ MixWindow(exportAt)
        /\ exportAt' = IF exportAt + Quantum > Horizon THEN 0 ELSE exportAt + Quantum
        /\ users' = users \cup {"export"} /\ UNCHANGED <<running, cursor>>
    BY <1>8 DEF RenderRange
  <2>2. exportAt \in Nat /\ exportAt' \in 0..Horizon
    BY <1>2, <1>3, <2>1
  <2>3. MixState(Decoders') /\ window' = exportAt
    BY <2>1, <2>2, MixWindowKeeps
  <2>4. QED
    BY <1>2, <1>4, <2>1, <2>2, <2>3
<1>9. QED
  BY <1>1, <1>5, <1>6, <1>7, <1>8 DEF MixNext

-----------------------------------------------------------------------------------
(* The compositor and its pool. *)

(* A total counts the frames of a sequence one after the other.                    *)
LEMMA TotalSteps ==
  ASSUME RenderingAssumption, NEW s \in Seq(Descs)
  PROVE  \E h \in [0..Len(s) -> Nat] :
           /\ h[0] = 0 /\ \A k \in 0..Len(s) - 1 : h[k + 1] = h[k] + Bytes[s[k + 1]]
           /\ Total(s) = h[Len(s)]
<1> DEFINE n == Len(s)
           f == [i \in 1..n |-> Bytes[s[i]]]
           first(t) == CHOOSE x \in t : TRUE
           P(g) == g = [t \in SUBSET DOMAIN s |->
                          IF t = {} THEN 0 ELSE g[t \ {first(t)}] + Bytes[s[first(t)]]]
           it == CHOOSE g : P(g)
<1>1. n \in Nat /\ DOMAIN s = 1..n /\ f \in [1..n -> Nat] /\ IsFiniteSet(1..n)
  <2>1. n \in Nat /\ DOMAIN s = 1..n
    OBVIOUS
  <2>2. \A i \in 1..n : s[i] \in Descs
    OBVIOUS
  <2>3. \A d \in Descs : Bytes[d] \in Nat
    BY DEF RenderingAssumption
  <2>4. IsFiniteSet(1..n)
    BY <2>1, FS_Interval
  <2> HIDE DEF n
  <2>5. QED
    BY <2>1, <2>2, <2>3, <2>4
<1>2. \A i \in 1..n : f[i] = Bytes[s[i]]
  OBVIOUS
<1>3. Total(s) = it[DOMAIN s]
  BY DEF Total, FoldSeq, FoldFunction, FoldFunctionOnSet, MapThenFoldSet
<1> HIDE DEF f, n, first
<1>4. \A t \in SUBSET DOMAIN s : t # {} => f[first(t)] = Bytes[s[first(t)]]
  BY <1>1, <1>2 DEF first
<1>5. ASSUME NEW g PROVE P(g) <=> Adds(g, 1..n, f)
  <2> DEFINE a == [t \in SUBSET DOMAIN s |->
                     IF t = {} THEN 0 ELSE g[t \ {first(t)}] + Bytes[s[first(t)]]]
             b == [t \in SUBSET DOMAIN s |->
                     IF t = {} THEN 0 ELSE g[t \ {first(t)}] + f[first(t)]]
  <2>1. a = b
    BY <1>4
  <2>2. P(g) <=> g = a
    OBVIOUS
  <2>3. Adds(g, 1..n, f) <=> g = b
    BY <1>1 DEF Adds, first
  <2> HIDE DEF a, b, P
  <2>4. QED
    BY <2>1, <2>2, <2>3
<1>6. \E g : P(g)
  <2> HIDE DEF P
  <2>1. \E g : Adds(g, 1..n, f)
    BY <1>1, SumExists
  <2>2. QED
    BY <1>5, <2>1
<1>7. P(it)
  <2> HIDE DEF P
  <2>1. QED
    BY <1>6
<1>8. Adds(it, 1..n, f)
  <2> HIDE DEF P, it
  <2>1. QED
    BY <1>5, <1>7
<1> HIDE DEF it, P
<1>9. /\ it[{}] = 0 /\ \A t \in SUBSET (1..n) : it[t] \in Nat
      /\ \A t \in SUBSET (1..n) : \A x \in t : it[t] = it[t \ {x}] + f[x]
  <2>1. SumsUp(it, 1..n, f)
    BY <1>1, <1>8, SumSteps
  <2>2. QED
    BY <2>1 DEF SumsUp
<1> DEFINE h == [k \in 0..n |-> it[1..k]]
<1>10. h \in [0..n -> Nat] /\ h[0] = 0 /\ h[n] = it[1..n]
  <2>1. \A k \in 0..n : 1..k \in SUBSET (1..n)
    BY <1>1
  <2>2. 1..0 = {}
    OBVIOUS
  <2>3. QED
    BY <1>1, <1>9, <2>1, <2>2
<1>11. ASSUME NEW k \in 0..n - 1 PROVE h[k + 1] = h[k] + Bytes[s[k + 1]]
  <2>1. 1..k + 1 \in SUBSET (1..n) /\ k + 1 \in 1..k + 1 /\ (1..k + 1) \ {k + 1} = 1..k /\ k + 1 \in 1..n
    BY <1>1
  <2>2. it[1..k + 1] = it[(1..k + 1) \ {k + 1}] + f[k + 1]
    BY <1>9, <2>1
  <2>3. h[k + 1] = it[1..k + 1] /\ h[k] = it[1..k]
    BY <1>1
  <2>4. QED
    BY <1>2, <2>1, <2>2, <2>3
<1> HIDE DEF h
<1>12. QED
  BY <1>1, <1>3, <1>10, <1>11 DEF n

LEMMA TotalIs ==
  ASSUME RenderingAssumption, NEW s \in Seq(Descs), NEW h,
         h[0] = 0, \A k \in 0..Len(s) - 1 : h[k + 1] = h[k] + Bytes[s[k + 1]]
  PROVE  Total(s) = h[Len(s)]
<1> DEFINE n == Len(s)
<1>1. PICK g \in [0..n -> Nat] :
        /\ g[0] = 0 /\ \A k \in 0..n - 1 : g[k + 1] = g[k] + Bytes[s[k + 1]]
        /\ Total(s) = g[n]
  BY TotalSteps
<1>2. n \in Nat
  OBVIOUS
<1> DEFINE Bad == {k \in 0..n : g[k] # h[k]}
<1>3. Bad \subseteq Nat /\ Bad \subseteq 0..n /\ \A k \in 0..n : k \notin Bad => g[k] = h[k]
  BY <1>2
<1>4. \A k \in Bad : g[k] # h[k]
  OBVIOUS
<1> HIDE DEF Bad, n
<1>5. Bad = {}
  <2>1. SUFFICES ASSUME Bad # {} PROVE FALSE
    OBVIOUS
  <2>2. PICK k \in Bad : \A j \in Bad : k <= j
    BY <1>3, <2>1, LeastOf
  <2>3. k # 0 /\ k \in 0..n
    BY <1>1, <1>3, <1>4
  <2>4. k - 1 \in 0..n - 1 /\ k - 1 \in 0..n /\ k - 1 \notin Bad /\ (k - 1) + 1 = k
    BY <1>2, <1>3, <2>2, <2>3
  <2>5. g[k - 1] = h[k - 1]
    BY <1>3, <2>4
  <2>6. g[(k - 1) + 1] = g[k - 1] + Bytes[s[(k - 1) + 1]]
    BY <1>1, <2>4
  <2>7. h[(k - 1) + 1] = h[k - 1] + Bytes[s[(k - 1) + 1]]
    BY <2>4 DEF n
  <2>8. QED
    BY <1>4, <2>4, <2>5, <2>6, <2>7
<1>6. QED
  BY <1>1, <1>2, <1>3, <1>5 DEF n

LEMMA TotalOfFew ==
  ASSUME RenderingAssumption
  PROVE  /\ Total(<<>>) = 0 /\ \A d \in Descs : Total(<<d>>) = Bytes[d]
         /\ \A s \in Seq(Descs) : Total(s) \in Nat
<1>1. Total(<<>>) = 0
  <2>1. PICK h \in [0..Len(<<>>) -> Nat] : h[0] = 0 /\ Total(<<>>) = h[Len(<<>>)]
    <3>1. <<>> \in Seq(Descs)
      OBVIOUS
    <3>2. QED
      BY <3>1, TotalSteps
  <2>2. QED
    BY <2>1
<1>2. ASSUME NEW d \in Descs PROVE Total(<<d>>) = Bytes[d]
  <2> DEFINE s == <<d>>
  <2>1. s \in Seq(Descs) /\ Len(s) = 1 /\ s[1] = d
    OBVIOUS
  <2> HIDE DEF s
  <2>2. PICK h \in [0..Len(s) -> Nat] :
          /\ h[0] = 0 /\ \A k \in 0..Len(s) - 1 : h[k + 1] = h[k] + Bytes[s[k + 1]]
          /\ Total(s) = h[Len(s)]
    BY <2>1, TotalSteps
  <2>3. h[0 + 1] = h[0] + Bytes[s[0 + 1]]
    BY <2>1, <2>2
  <2>4. Bytes[d] \in Nat
    BY DEF RenderingAssumption
  <2>5. QED
    BY <2>1, <2>2, <2>3, <2>4 DEF s
<1>3. ASSUME NEW s \in Seq(Descs) PROVE Total(s) \in Nat
  <2>1. PICK h \in [0..Len(s) -> Nat] : Total(s) = h[Len(s)]
    BY TotalSteps
  <2>2. Len(s) \in 0..Len(s)
    OBVIOUS
  <2>3. QED
    BY <2>1, <2>2
<1>4. QED
  BY <1>1, <1>2, <1>3

LEMMA TotalOfBoth ==
  ASSUME RenderingAssumption, NEW s \in Seq(Descs), NEW u \in Seq(Descs)
  PROVE  Total(s \o u) = Total(s) + Total(u)
<1> DEFINE n == Len(s)
           m == Len(u)
           w == s \o u
<1>1. PICK h \in [0..n -> Nat] :
        /\ h[0] = 0 /\ \A k \in 0..n - 1 : h[k + 1] = h[k] + Bytes[s[k + 1]]
        /\ Total(s) = h[n]
  BY TotalSteps
<1>2. PICK g \in [0..m -> Nat] :
        /\ g[0] = 0 /\ \A k \in 0..m - 1 : g[k + 1] = g[k] + Bytes[u[k + 1]]
        /\ Total(u) = g[m]
  BY TotalSteps
<1>3. /\ n \in Nat /\ m \in Nat /\ w \in Seq(Descs) /\ Len(w) = n + m
      /\ \A k \in 1..n : w[k] = s[k]
      /\ \A k \in 1..n + m : k > n => w[k] = u[k - n]
  OBVIOUS
<1> HIDE DEF n, m, w
<1> DEFINE p == [k \in 0..n + m |-> IF k <= n THEN h[k] ELSE h[n] + g[k - n]]
<1>4. p[0] = 0 /\ p[n + m] = h[n] + g[m]
  BY <1>1, <1>2, <1>3
<1>5. ASSUME NEW k \in 0..(n + m) - 1 PROVE p[k + 1] = p[k] + Bytes[w[k + 1]]
  <2>1. k \in Nat /\ k + 1 \in 0..n + m /\ k \in 0..n + m /\ k + 1 \in 1..n + m
    BY <1>3
  <2>2. CASE k < n
    <3>1. k \in 0..n - 1 /\ k + 1 <= n /\ k <= n /\ k + 1 \in 1..n
      BY <1>3, <2>1, <2>2
    <3>2. p[k + 1] = h[k + 1] /\ p[k] = h[k] /\ w[k + 1] = s[k + 1]
      BY <1>3, <2>1, <3>1
    <3>3. QED
      BY <1>1, <3>1, <3>2
  <2>3. CASE ~(k < n)
    <3> DEFINE j == k - n
    <3>1. j \in 0..m - 1 /\ ~(k + 1 <= n) /\ (k + 1) - n = j + 1 /\ k + 1 > n
      BY <1>3, <2>1, <2>3
    <3>2. p[k + 1] = h[n] + g[j + 1] /\ w[k + 1] = u[j + 1]
      <4>1. w[k + 1] = u[(k + 1) - n]
        <5> HIDE DEF p, j
        <5>1. QED
          BY <1>3, <2>1, <3>1
      <4>2. p[k + 1] = h[n] + g[(k + 1) - n]
        <5> HIDE DEF j
        <5>1. QED
          BY <2>1, <3>1
      <4> HIDE DEF p, j
      <4>3. QED
        BY <3>1, <4>1, <4>2
    <3>3. p[k] = h[n] + g[j]
      <4>1. CASE k = n
        BY <1>1, <1>2, <1>3, <2>1, <4>1
      <4>2. CASE k # n
        BY <1>3, <2>1, <2>3, <4>2
      <4>3. QED
        BY <4>1, <4>2
    <3> HIDE DEF j, p
    <3>4. g[j + 1] = g[j] + Bytes[u[j + 1]]
      BY <1>2, <3>1
    <3>5. h[n] \in Nat /\ g[j] \in Nat /\ Bytes[u[j + 1]] \in Nat
      <4>1. j + 1 \in 1..Len(u) /\ j \in 0..m
        BY <1>3, <3>1 DEF m
      <4>2. u[j + 1] \in Descs
        BY <4>1
      <4>3. QED
        <5>1. n \in 0..n /\ j + 1 \in 0..m
          BY <1>3, <3>1
        <5>2. Bytes[u[j + 1]] \in Nat
          BY <4>2 DEF RenderingAssumption
        <5>3. QED
          BY <4>1, <5>1, <5>2
    <3>6. QED
      <4> DEFINE x == h[n]
                 y == g[j]
                 z == Bytes[u[j + 1]]
      <4>1. p[k + 1] = x + (y + z) /\ p[k] = x + y /\ Bytes[w[k + 1]] = z
        BY <3>2, <3>3, <3>4
      <4>2. x \in Nat /\ y \in Nat /\ z \in Nat
        BY <3>5
      <4> HIDE DEF x, y, z
      <4>3. QED
        BY <4>1, <4>2
  <2>4. QED
    BY <2>2, <2>3
<1> HIDE DEF p
<1>6. Total(w) = p[n + m]
  BY <1>3, <1>4, <1>5, TotalIs
<1>7. QED
  BY <1>1, <1>2, <1>4, <1>6 DEF w

(* A sequence is its first frames and the others.                                  *)
LEMMA TotalSplit ==
  ASSUME RenderingAssumption, NEW s \in Seq(Descs), NEW k \in 0..Len(s)
  PROVE  /\ SubSeq(s, 1, k) \in Seq(Descs) /\ SubSeq(s, k + 1, Len(s)) \in Seq(Descs)
         /\ Total(s) = Total(SubSeq(s, 1, k)) + Total(SubSeq(s, k + 1, Len(s)))
<1> DEFINE a == SubSeq(s, 1, k)
           b == SubSeq(s, k + 1, Len(s))
<1>1. a \in Seq(Descs) /\ b \in Seq(Descs) /\ Len(a) = k /\ Len(b) = Len(s) - k /\ k \in Nat
      /\ (\A i \in 1..k : a[i] = s[i]) /\ \A i \in 1..Len(s) - k : b[i] = s[k + i]
  <2>1. k \in Nat /\ Len(s) \in Nat /\ k + 1 \in 1..Len(s) + 1
    OBVIOUS
  <2>2. a \in Seq(Descs) /\ Len(a) = k /\ \A i \in 1..k : a[i] = s[i]
    BY <2>1, SubSeqProperties
  <2>3. b \in Seq(Descs) /\ Len(b) = Len(s) - k /\ \A i \in 1..Len(s) - k : b[i] = s[k + i]
    <3>1. Len(s) - (k + 1) + 1 = Len(s) - k /\ \A i \in 1..Len(s) - k : (k + 1) + i - 1 = k + i
      BY <2>1
    <3>2. \A i \in k + 1..Len(s) : s[i] \in Descs
      BY <2>1
    <3>3. /\ b \in Seq(Descs) /\ Len(b) = IF k + 1 <= Len(s) THEN Len(s) - (k + 1) + 1 ELSE 0
          /\ \A i \in 1..Len(s) - (k + 1) + 1 : b[i] = s[(k + 1) + i - 1]
      BY <2>1, <3>2, SubSeqProperties
    <3> HIDE DEF b
    <3>4. Len(b) = Len(s) - k
      <4>1. CASE k + 1 <= Len(s)
        BY <3>1, <3>3, <4>1
      <4>2. CASE ~(k + 1 <= Len(s))
        <5>1. Len(s) - k = 0 /\ Len(b) = 0
          BY <2>1, <3>3, <4>2
        <5>2. QED
          BY <5>1
      <4>3. QED
        BY <4>1, <4>2
    <3>5. ASSUME NEW i \in 1..Len(s) - k PROVE b[i] = s[k + i]
      <4>1. i \in 1..Len(s) - (k + 1) + 1 /\ (k + 1) + i - 1 = k + i
        BY <2>1
      <4>2. QED
        BY <3>3, <4>1
    <3>6. QED
      BY <3>3, <3>4, <3>5
  <2>4. QED
    BY <2>1, <2>2, <2>3
<1>2. a \o b = s
  <2>1. /\ a \o b \in Seq(Descs) /\ Len(a \o b) = Len(a) + Len(b)
        /\ \A i \in 1..Len(a) + Len(b) : (a \o b)[i] = IF i <= Len(a) THEN a[i] ELSE b[i - Len(a)]
    <3> HIDE DEF a, b
    <3>1. a \in Seq(Descs) /\ b \in Seq(Descs)
      BY <1>1
    <3>2. QED
      BY <3>1, ConcatProperties
  <2> HIDE DEF a, b
  <2>2. Len(a \o b) = Len(s)
    BY <1>1, <2>1
  <2>3. ASSUME NEW i \in 1..Len(s) PROVE (a \o b)[i] = s[i]
    <3>1. CASE i <= k
      BY <1>1, <2>1, <3>1
    <3>2. CASE ~(i <= k)
      <4>1. i - k \in 1..Len(s) - k /\ k + (i - k) = i
        BY <1>1, <3>2
      <4>2. i \in 1..Len(a) + Len(b) /\ Len(a) = k /\ ~(i <= k)
        BY <1>1, <3>2
      <4>3. (a \o b)[i] = b[i - k]
        BY <2>1, <4>2
      <4>4. b[i - k] = s[i]
        BY <1>1, <4>1
      <4>5. QED
        BY <4>3, <4>4
    <3>3. QED
      BY <3>1, <3>2
  <2>4. QED
    BY <2>1, <2>2, <2>3, SeqEqual
<1>3. Total(a \o b) = Total(a) + Total(b)
  BY <1>1, TotalOfBoth
<1>4. QED
  BY <1>1, <1>2, <1>3

LEMMA TotalRemoved ==
  ASSUME RenderingAssumption, NEW s \in Seq(Descs), NEW d \in ToSet(s)
  PROVE  /\ RemoveFirst(s, d) \in Seq(Descs) /\ d \in Descs
         /\ Total(RemoveFirst(s, d)) = Total(s) - Bytes[d]
<1> DEFINE I == {i \in 1..Len(s) : s[i] = d}
           m == Min(I)
           a == SubSeq(s, 1, m - 1)
           b == SubSeq(s, m + 1, Len(s))
           c == SubSeq(s, m, Len(s))
<1>1. \E i \in 1..Len(s) : s[i] = d
  BY DEF ToSet
<1>2. m \in 1..Len(s) /\ s[m] = d
  <2>1. I # {} /\ I \in SUBSET Nat
    <3>1. PICK i \in I : TRUE
      BY <1>1
    <3>2. I \in SUBSET Nat
      OBVIOUS
    <3> HIDE DEF I
    <3>3. QED
      BY <3>1, <3>2
  <2>2. \E i \in I : \A j \in I : i <= j
    BY <2>1, LeastOf
  <2>3. Min(I) \in I
    BY <2>2 DEF Min
  <2>4. QED
    BY <2>3
<1>3. RemoveFirst(s, d) = a \o b
  BY <1>1 DEF RemoveFirst, RemoveAt, SelectInSeq
<1> HIDE DEF m
<1>4. m - 1 \in 0..Len(s) /\ (m - 1) + 1 = m /\ m \in Nat
  BY <1>2
<1>5. a \in Seq(Descs) /\ c \in Seq(Descs) /\ Total(s) = Total(a) + Total(c)
  BY <1>4, TotalSplit
<1>6. 1 \in 0..Len(c) /\ SubSeq(c, 1, 1) = <<d>> /\ SubSeq(c, 1 + 1, Len(c)) = b /\ d \in Descs
  <2>1. c \in Seq(Descs) /\ Len(c) = Len(s) - m + 1 /\ \A i \in 1..Len(s) - m + 1 : c[i] = s[m + i - 1]
    BY <1>2
  <2>2. Len(c) \in Nat /\ 1 <= Len(c) /\ c[1] = d
    BY <1>2, <2>1
  <2>3. SubSeq(c, 1, 1) = <<d>>
    <3> HIDE DEF c
    <3>1. SubSeq(c, 1, 1) \in Seq(Descs) /\ Len(SubSeq(c, 1, 1)) = 1 /\ SubSeq(c, 1, 1)[1] = d
      BY <2>1, <2>2
    <3>2. <<d>> \in Seq(Descs) /\ Len(<<d>>) = 1 /\ <<d>>[1] = d
      BY <1>2
    <3>3. \A i \in 1..1 : SubSeq(c, 1, 1)[i] = <<d>>[i]
      BY <3>1, <3>2
    <3> DEFINE p == SubSeq(c, 1, 1)
               q == <<d>>
    <3> HIDE DEF p, q
    <3>4. p = q
      <4>1. p \in Seq(Descs) /\ q \in Seq(Descs) /\ Len(p) = Len(q) /\ \A i \in 1..Len(p) : p[i] = q[i]
        BY <3>1, <3>2, <3>3 DEF p, q
      <4>2. QED
        BY <4>1, SeqEqual
    <3>5. QED
      BY <3>4 DEF p, q
  <2>4. SubSeq(c, 1 + 1, Len(c)) = b
    <3> DEFINE e == SubSeq(c, 2, Len(c))
    <3>1. b \in Seq(Descs) /\ Len(b) = Len(s) - m /\ \A i \in 1..Len(s) - m : b[i] = s[m + i]
      BY <1>2
    <3> HIDE DEF b
    <3>2. e \in Seq(Descs) /\ Len(e) = Len(c) - 1 /\ \A i \in 1..Len(c) - 1 : e[i] = c[1 + i]
      <4> HIDE DEF c
      <4>1. 2 \in 1..Len(c) + 1 /\ Len(c) - 2 + 1 = Len(c) - 1 /\ \A i \in 1..Len(c) - 1 : 2 + i - 1 = 1 + i
        BY <2>2
      <4>2. QED
        BY <2>1, <2>2, <4>1, SubSeqProperties
    <3> HIDE DEF c, e
    <3>3. Len(e) = Len(b)
      BY <1>2, <2>1, <3>1, <3>2
    <3>4. ASSUME NEW i \in 1..Len(b) PROVE e[i] = b[i]
      <4>1. i \in 1..Len(c) - 1 /\ 1 + i \in 1..Len(s) - m + 1 /\ m + (1 + i) - 1 = m + i
        BY <1>2, <2>1, <3>1
      <4>2. e[i] = c[1 + i]
        BY <3>2, <4>1
      <4>3. c[1 + i] = s[m + i]
        BY <2>1, <4>1
      <4>4. i \in 1..Len(s) - m
        BY <3>1
      <4>5. QED
        BY <3>1, <4>2, <4>3, <4>4
    <3>5. e = b
      BY <3>1, <3>2, <3>3, <3>4, SeqEqual
    <3>6. QED
      BY <3>5 DEF e
  <2>5. d \in Descs
    BY <1>2
  <2>6. 1 \in 0..Len(c)
    <3> HIDE DEF c
    <3>1. QED
      BY <2>2
  <2> HIDE DEF b, c
  <2>7. QED
    BY <2>3, <2>4, <2>5, <2>6
<1> HIDE DEF a, b, c
<1>7. b \in Seq(Descs) /\ Total(c) = Bytes[d] + Total(b)
  <2>1. SubSeq(c, 1 + 1, Len(c)) \in Seq(Descs)
        /\ Total(c) = Total(SubSeq(c, 1, 1)) + Total(SubSeq(c, 1 + 1, Len(c)))
    BY <1>5, <1>6, TotalSplit
  <2>2. QED
    BY <1>6, <2>1, TotalOfFew
<1>8. Total(a \o b) = Total(a) + Total(b) /\ a \o b \in Seq(Descs)
  BY <1>5, <1>7, TotalOfBoth
<1>9. Total(a) \in Nat /\ Total(b) \in Nat /\ Bytes[d] \in Nat
  BY <1>5, <1>6, <1>7, TotalOfFew DEF RenderingAssumption
<1>10. QED
  BY <1>3, <1>5, <1>6, <1>7, <1>8, <1>9

-----------------------------------------------------------------------------------
(* The bytes that all renderers hold.                                              *)
BytesHeld(l) == FoldSet(LAMBDA r, n : n + Total(l[r]), 0, Renderers)

LEMMA HeldSums ==
  ASSUME RenderingAssumption, NEW l \in [Renderers -> Seq(Descs)]
  PROVE  \E g : /\ BytesHeld(l) = g[Renderers] /\ Adds(g, Renderers, [r \in Renderers |-> Total(l[r])])
<1> DEFINE f == [r \in Renderers |-> Total(l[r])]
           first(t) == CHOOSE x \in t : TRUE
           P(g) == g = [t \in SUBSET Renderers |->
                          IF t = {} THEN 0 ELSE g[t \ {first(t)}] + Total(l[first(t)])]
           it == CHOOSE g : P(g)
<1>1. f \in [Renderers -> Nat] /\ IsFiniteSet(Renderers)
  BY TotalOfFew DEF RenderingAssumption
<1>2. \A r \in Renderers : f[r] = Total(l[r])
  OBVIOUS
<1>3. BytesHeld(l) = it[Renderers]
  BY DEF BytesHeld, FoldSet, MapThenFoldSet
<1> HIDE DEF f, first
<1>4. \A t \in SUBSET Renderers : t # {} => f[first(t)] = Total(l[first(t)])
  BY <1>2 DEF first
<1>5. ASSUME NEW g PROVE P(g) <=> Adds(g, Renderers, f)
  <2> DEFINE a == [t \in SUBSET Renderers |->
                     IF t = {} THEN 0 ELSE g[t \ {first(t)}] + Total(l[first(t)])]
             b == [t \in SUBSET Renderers |->
                     IF t = {} THEN 0 ELSE g[t \ {first(t)}] + f[first(t)]]
  <2>1. a = b
    BY <1>4
  <2>2. P(g) <=> g = a
    OBVIOUS
  <2>3. Adds(g, Renderers, f) <=> g = b
    BY DEF Adds, first
  <2> HIDE DEF a, b, P
  <2>4. QED
    BY <2>1, <2>2, <2>3
<1>6. \E g : P(g)
  <2> HIDE DEF P
  <2>1. \E g : Adds(g, Renderers, f)
    BY <1>1, SumExists
  <2>2. QED
    BY <1>5, <2>1
<1>7. P(it)
  <2> HIDE DEF P
  <2>1. QED
    BY <1>6
<1>8. Adds(it, Renderers, f)
  <2> HIDE DEF P, it
  <2>1. QED
    BY <1>5, <1>7
<1> HIDE DEF it, P
<1>9. QED
  BY <1>3, <1>8 DEF f

LEMMA HeldChanges ==
  ASSUME RenderingAssumption, NEW l \in [Renderers -> Seq(Descs)], NEW m \in [Renderers -> Seq(Descs)],
         NEW r \in Renderers, \A q \in Renderers \ {r} : m[q] = l[q]
  PROVE  /\ BytesHeld(l) \in Nat /\ Total(l[r]) <= BytesHeld(l)
         /\ BytesHeld(m) = (BytesHeld(l) - Total(l[r])) + Total(m[r])
<1> DEFINE f == [q \in Renderers |-> Total(l[q])]
           e == [q \in Renderers |-> Total(m[q])]
<1>1. f \in [Renderers -> Nat] /\ e \in [Renderers -> Nat] /\ IsFiniteSet(Renderers)
  BY TotalOfFew DEF RenderingAssumption
<1>2. /\ f[r] = Total(l[r]) /\ e[r] = Total(m[r]) /\ \A q \in Renderers \ {r} : f[q] = e[q]
  OBVIOUS
<1>3. PICK g : BytesHeld(l) = g[Renderers] /\ Adds(g, Renderers, f)
  BY HeldSums
<1>4. PICK h : BytesHeld(m) = h[Renderers] /\ Adds(h, Renderers, e)
  BY HeldSums
<1> HIDE DEF f, e
<1>5. g[Renderers] - f[r] = h[Renderers] - e[r]
  <2>1. Adds(g, Renderers, f) /\ Adds(h, Renderers, e) /\ \A q \in Renderers \ {r} : f[q] = e[q]
    BY <1>2, <1>3, <1>4
  <2>2. ApartBy(g, h, Renderers, f, e, r)
    BY <1>1, <2>1, SumAgrees
  <2>3. QED
    BY <2>2 DEF ApartBy
<1>6. SumsUp(g, Renderers, f) /\ SumsUp(h, Renderers, e)
  BY <1>1, <1>3, <1>4, SumSteps
<1>7. /\ g[Renderers] = g[Renderers \ {r}] + f[r] /\ g[Renderers \ {r}] \in Nat
      /\ h[Renderers] \in Nat /\ f[r] \in Nat /\ e[r] \in Nat
  BY <1>1, <1>6 DEF SumsUp
<1>8. QED
  <2> DEFINE x == g[Renderers]
             y == h[Renderers]
             z == g[Renderers \ {r}]
             v == f[r]
             w == e[r]
  <2>1. x - v = y - w /\ x = z + v /\ z \in Nat /\ y \in Nat /\ v \in Nat /\ w \in Nat
    BY <1>5, <1>7
  <2>2. BytesHeld(l) = x /\ BytesHeld(m) = y /\ Total(l[r]) = v /\ Total(m[r]) = w
    BY <1>2, <1>3, <1>4
  <2> HIDE DEF x, y, z, v, w
  <2>3. x \in Nat /\ v <= x /\ y = (x - v) + w
    BY <2>1
  <2>4. QED
    BY <2>2, <2>3
Layer == [track : Nat, clip : Nat]

(* The places of a sequence, over which FoldLeftDomain goes.                       *)
Indices(s) == [i \in DOMAIN s |-> i]

LEMMA TracksAreTracks ==
  ASSUME RenderingAssumption, NEW t \in DOMAIN Tracks
  PROVE  /\ t \in Nat /\ Tracks[t].kind \in {"video", "text", "caption", "audio"}
         /\ Tracks[t].clips \in Seq([start : Nat, end : Nat, lut : LutFiles \cup {NoLut}])
<1> DEFINE C == Seq([start : Nat, end : Nat, lut : LutFiles \cup {NoLut}])
           K == [kind : {"video", "text", "caption", "audio"}, muted : BOOLEAN, clips : C]
<1>1. Tracks \in Seq(K)
  BY DEF RenderingAssumption
<1>2. t \in Nat /\ Tracks[t] \in K
  <2> HIDE DEF K
  <2>1. QED
    BY <1>1
<1> HIDE DEF C
<1>3. Tracks[t].clips \in C /\ Tracks[t].kind \in {"video", "text", "caption", "audio"}
  BY <1>2
<1>4. QED
  BY <1>2, <1>3 DEF C

(* What a walk over the clips of a track has found after each of them.             *)
ClipWalk(h, t, p, n) ==
  /\ h[0] = <<>> /\ Under(t, p) = h[n]
  /\ \A k \in 0..n - 1 :
       h[k + 1] = IF Covers(Tracks[t].clips[k + 1], p) THEN Append(h[k], [track |-> t, clip |-> k + 1]) ELSE h[k]

LEMMA UnderSteps ==
  ASSUME RenderingAssumption, NEW t \in DOMAIN Tracks, NEW p
  PROVE  Len(Tracks[t].clips) \in Nat /\ \E h : ClipWalk(h, t, p, Len(Tracks[t].clips))
<1> DEFINE clips == Tracks[t].clips
           n == Len(clips)
           none == <<>>
           X == Seq(Layer)
           Takes(q, i) == IF Covers(clips[i], p) THEN Append(q, [track |-> t, clip |-> i]) ELSE q
           F == [q \in X \X (1..n) |-> Takes(q[1], q[2])]
           P(g) == g = [s \in SUBSET DOMAIN Indices(clips) |->
                          IF s = {} THEN none ELSE Takes(g[s \ {Max(s)}], Indices(clips)[Max(s)])]
           it == CHOOSE g : P(g)
<1>1. Under(t, p) = it[DOMAIN Indices(clips)]
  BY DEF Under, FoldLeftDomain, FoldLeft, MapThenFoldSet, Indices
<1>2. n \in Nat /\ DOMAIN clips = 1..n /\ t \in Nat
  <2>1. clips \in Seq([start : Nat, end : Nat, lut : LutFiles \cup {NoLut}]) /\ t \in Nat
    BY TracksAreTracks
  <2> HIDE DEF clips
  <2>2. QED
    BY <2>1
<1>3. DOMAIN Indices(clips) = 1..n /\ \A i \in 1..n : Indices(clips)[i] = i
  BY <1>2 DEF Indices
<1>4. \A q \in X, i \in 1..n : Takes(q, i) \in X
  <2>1. ASSUME NEW q \in X, NEW i \in 1..n PROVE Append(q, [track |-> t, clip |-> i]) \in X
    <3>1. [track |-> t, clip |-> i] \in Layer
      BY <1>2 DEF Layer
    <3>2. QED
      BY <3>1
  <2>2. QED
    BY <2>1
<1> HIDE DEF X, Takes, n, none
<1>5. F \in [X \X (1..n) -> X] /\ \A q \in X, i \in 1..n : F[q, i] = Takes(q, i)
  BY <1>4
<1> HIDE DEF F
<1>6. none \in X
  BY DEF X, none
<1>7. PICK g \in [SUBSET (1..n) -> X] : TakesLast(g, n, none, F)
  BY <1>2, <1>5, <1>6, LeftFoldExists
<1>8. \A s \in SUBSET (1..n) : s # {} => Max(s) \in 1..n
  BY <1>2, LargestIn
<1>9. g = [s \in SUBSET (1..n) |-> IF s = {} THEN none ELSE Takes(g[s \ {Max(s)}], Max(s))]
  <2>1. \A s \in SUBSET (1..n) : s # {} => F[g[s \ {Max(s)}], Max(s)] = Takes(g[s \ {Max(s)}], Max(s))
    BY <1>5, <1>8
  <2>2. QED
    BY <1>7, <2>1 DEF TakesLast
<1>10. P(g)
  <2>1. \A s \in SUBSET (1..n) : s # {} =>
          Takes(g[s \ {Max(s)}], Indices(clips)[Max(s)]) = Takes(g[s \ {Max(s)}], Max(s))
    BY <1>3, <1>8
  <2>2. QED
    BY <1>3, <1>9, <2>1
<1>11. P(it)
  <2> HIDE DEF P
  <2>1. QED
    BY <1>10
<1>15. it[{}] = none /\ \A s \in SUBSET (1..n) : s # {} => it[s] = Takes(it[s \ {Max(s)}], Indices(clips)[Max(s)])
  BY <1>3, <1>11
<1> HIDE DEF it, P
<1> DEFINE h == [k \in 0..n |-> it[1..k]]
<1>12. h[0] = none /\ Under(t, p) = h[n]
  <2>1. 1..0 = {} /\ {} \in SUBSET (1..n)
    OBVIOUS
  <2>3. h[0] = it[1..0] /\ h[n] = it[1..n]
    BY <1>2
  <2>4. QED
    BY <1>1, <1>3, <1>15, <2>1, <2>3
<1>13. ASSUME NEW k \in 0..n - 1 PROVE h[k + 1] = Takes(h[k], k + 1)
  <2>1. /\ 1..k + 1 \in SUBSET (1..n) /\ 1..k + 1 # {} /\ k + 1 \in 1..n
        /\ Max(1..k + 1) = k + 1 /\ (1..k + 1) \ {k + 1} = 1..k
    BY <1>2, InitialSegments
  <2>2. it[1..k + 1] = Takes(it[1..k], Indices(clips)[k + 1])
    BY <1>15, <2>1
  <2>3. h[k + 1] = it[1..k + 1] /\ h[k] = it[1..k]
    BY <1>2
  <2>4. QED
    BY <1>3, <2>1, <2>2, <2>3
<1> HIDE DEF h
<1>16. ClipWalk(h, t, p, n)
  BY <1>12, <1>13 DEF Takes, none, ClipWalk
<1>14. QED
  BY <1>2, <1>16 DEF n

(* The layers of a kind, gathered from one track after the other.                  *)
TrackWalk(h, sort, p, n) ==
  /\ h[0] = <<>> /\ OfKind(sort, p) = h[n]
  /\ \A k \in 0..n - 1 : h[k + 1] = IF Tracks[k + 1].kind = sort THEN h[k] \o LayersOf(k + 1, p) ELSE h[k]

LEMMA OfKindSteps ==
  ASSUME RenderingAssumption, NEW sort, NEW p, \A t \in DOMAIN Tracks : LayersOf(t, p) \in Seq(Layer)
  PROVE  /\ Len(Tracks) \in Nat /\ DOMAIN Tracks = 1..Len(Tracks)
         /\ \E h : TrackWalk(h, sort, p, Len(Tracks))
<1> DEFINE n == Len(Tracks)
           none == <<>>
           X == Seq(Layer)
           Takes(q, i) == IF Tracks[i].kind = sort THEN q \o LayersOf(i, p) ELSE q
           F == [q \in X \X (1..n) |-> Takes(q[1], q[2])]
           P(g) == g = [s \in SUBSET DOMAIN Indices(Tracks) |->
                          IF s = {} THEN none ELSE Takes(g[s \ {Max(s)}], Indices(Tracks)[Max(s)])]
           it == CHOOSE g : P(g)
<1>1. OfKind(sort, p) = it[DOMAIN Indices(Tracks)]
  BY DEF OfKind, FoldLeftDomain, FoldLeft, MapThenFoldSet, Indices
<1>2. n \in Nat /\ DOMAIN Tracks = 1..n
  <2> DEFINE K == [kind : {"video", "text", "caption", "audio"}, muted : BOOLEAN,
                   clips : Seq([start : Nat, end : Nat, lut : LutFiles \cup {NoLut}])]
  <2>1. Tracks \in Seq(K)
    BY DEF RenderingAssumption
  <2> HIDE DEF K
  <2>2. QED
    BY <2>1
<1>3. DOMAIN Indices(Tracks) = 1..n /\ \A i \in 1..n : Indices(Tracks)[i] = i
  BY <1>2 DEF Indices
<1>4. \A q \in X, i \in 1..n : Takes(q, i) \in X
  <2>1. ASSUME NEW q \in X, NEW i \in 1..n PROVE q \o LayersOf(i, p) \in X
    <3> DEFINE b == LayersOf(i, p)
    <3>1. b \in Seq(Layer)
      BY <1>2
    <3> HIDE DEF b
    <3>2. q \o b \in Seq(Layer)
      BY <3>1, ConcatProperties
    <3>3. QED
      BY <3>2 DEF b
  <2>2. QED
    BY <2>1
<1> HIDE DEF X, Takes, n, none
<1>5. F \in [X \X (1..n) -> X] /\ \A q \in X, i \in 1..n : F[q, i] = Takes(q, i)
  BY <1>4
<1> HIDE DEF F
<1>6. none \in X
  BY DEF X, none
<1>7. PICK g \in [SUBSET (1..n) -> X] : TakesLast(g, n, none, F)
  BY <1>2, <1>5, <1>6, LeftFoldExists
<1>8. \A s \in SUBSET (1..n) : s # {} => Max(s) \in 1..n
  BY <1>2, LargestIn
<1>9. g = [s \in SUBSET (1..n) |-> IF s = {} THEN none ELSE Takes(g[s \ {Max(s)}], Max(s))]
  <2>1. \A s \in SUBSET (1..n) : s # {} => F[g[s \ {Max(s)}], Max(s)] = Takes(g[s \ {Max(s)}], Max(s))
    BY <1>5, <1>8
  <2>2. QED
    BY <1>7, <2>1 DEF TakesLast
<1>10. P(g)
  <2>1. \A s \in SUBSET (1..n) : s # {} =>
          Takes(g[s \ {Max(s)}], Indices(Tracks)[Max(s)]) = Takes(g[s \ {Max(s)}], Max(s))
    BY <1>3, <1>8
  <2>2. QED
    BY <1>3, <1>9, <2>1
<1>11. P(it)
  <2> HIDE DEF P
  <2>1. QED
    BY <1>10
<1>15. it[{}] = none /\ \A s \in SUBSET (1..n) : s # {} => it[s] = Takes(it[s \ {Max(s)}], Indices(Tracks)[Max(s)])
  BY <1>3, <1>11
<1> HIDE DEF it, P
<1> DEFINE h == [k \in 0..n |-> it[1..k]]
<1>12. h[0] = none /\ OfKind(sort, p) = h[n]
  <2>1. 1..0 = {} /\ {} \in SUBSET (1..n)
    OBVIOUS
  <2>3. h[0] = it[1..0] /\ h[n] = it[1..n]
    BY <1>2
  <2>4. QED
    BY <1>1, <1>3, <1>15, <2>1, <2>3
<1>13. ASSUME NEW k \in 0..n - 1 PROVE h[k + 1] = Takes(h[k], k + 1)
  <2>1. /\ 1..k + 1 \in SUBSET (1..n) /\ 1..k + 1 # {} /\ k + 1 \in 1..n
        /\ Max(1..k + 1) = k + 1 /\ (1..k + 1) \ {k + 1} = 1..k
    BY <1>2, InitialSegments
  <2>2. it[1..k + 1] = Takes(it[1..k], Indices(Tracks)[k + 1])
    BY <1>15, <2>1
  <2>3. h[k + 1] = it[1..k + 1] /\ h[k] = it[1..k]
    BY <1>2
  <2>4. QED
    BY <1>3, <2>1, <2>2, <2>3
<1> HIDE DEF h
<1>16. TrackWalk(h, sort, p, n)
  BY <1>12, <1>13 DEF Takes, none, TrackWalk
<1>14. QED
  BY <1>2, <1>16 DEF n

(* A layer that is put into a sequence of layers.                                  *)
LEMMA LayerInserted ==
  ASSUME NEW q \in Seq(Layer), NEW l \in Layer, NEW c \in 0..Len(q)
  PROVE  /\ InsertAt(q, 1 + c, l) \in Seq(Layer) /\ Len(InsertAt(q, 1 + c, l)) = Len(q) + 1
         /\ \A i \in 1..Len(q) + 1 :
              InsertAt(q, 1 + c, l)[i] = IF i <= c THEN q[i] ELSE IF i = c + 1 THEN l ELSE q[i - 1]
<1> DEFINE n == Len(q)
           a == SubSeq(q, 1, (1 + c) - 1)
           b == SubSeq(q, 1 + c, n)
           m == <<l>>
           r == InsertAt(q, 1 + c, l)
<1>1. n \in Nat /\ c \in Nat /\ c <= n /\ (1 + c) - 1 = c /\ \A i \in 1..n : q[i] \in Layer
  OBVIOUS
<1>2. r = (a \o m) \o b
  BY DEF InsertAt
<1>3. a \in Seq(Layer) /\ Len(a) = c /\ \A i \in 1..c : a[i] = q[i]
  BY <1>1, SubSeqProperties
<1>4. b \in Seq(Layer) /\ Len(b) = n - c /\ \A i \in 1..n - c : b[i] = q[c + i]
  <2>1. \A i \in 1 + c..n : q[i] \in Layer
    BY <1>1
  <2>2. /\ b \in Seq(Layer) /\ Len(b) = IF 1 + c <= n THEN n - (1 + c) + 1 ELSE 0
        /\ \A i \in 1..n - (1 + c) + 1 : b[i] = q[(1 + c) + i - 1]
    BY <1>1, <2>1, SubSeqProperties
  <2> HIDE DEF b, n
  <2>3. Len(b) = n - c
    BY <1>1, <2>2
  <2>4. ASSUME NEW i \in 1..n - c PROVE b[i] = q[c + i]
    <3>1. i \in 1..n - (1 + c) + 1 /\ (1 + c) + i - 1 = c + i
      BY <1>1
    <3>2. QED
      BY <2>2, <3>1
  <2>5. QED
    BY <2>2, <2>3, <2>4
<1>5. m \in Seq(Layer) /\ Len(m) = 1 /\ m[1] = l
  OBVIOUS
<1> HIDE DEF a, b, m, r, n
<1>6. /\ a \o m \in Seq(Layer) /\ Len(a \o m) = Len(a) + Len(m)
      /\ \A i \in 1..Len(a) + Len(m) : (a \o m)[i] = IF i <= Len(a) THEN a[i] ELSE m[i - Len(a)]
  BY <1>3, <1>5, ConcatProperties
<1>7. Len(a \o m) = c + 1 /\ \A i \in 1..c + 1 : (a \o m)[i] = IF i <= c THEN q[i] ELSE l
  <2>1. Len(a \o m) = c + 1
    BY <1>1, <1>3, <1>5, <1>6
  <2>2. ASSUME NEW i \in 1..c + 1 PROVE (a \o m)[i] = IF i <= c THEN q[i] ELSE l
    <3>1. CASE i <= c
      BY <1>1, <1>3, <1>5, <1>6, <3>1
    <3>2. CASE ~(i <= c)
      <4>1. i = c + 1 /\ i - Len(a) = 1 /\ ~(i <= Len(a)) /\ i \in 1..Len(a) + Len(m)
        BY <1>1, <1>3, <1>5, <3>2
      <4>2. QED
        BY <1>5, <1>6, <3>2, <4>1
    <3>3. QED
      BY <3>1, <3>2
  <2>3. QED
    BY <2>1, <2>2
<1> DEFINE d == a \o m
<1>8. d \in Seq(Layer) /\ Len(d) = c + 1 /\ \A i \in 1..c + 1 : d[i] = IF i <= c THEN q[i] ELSE l
  BY <1>6, <1>7
<1> HIDE DEF d
<1>9. /\ d \o b \in Seq(Layer) /\ Len(d \o b) = Len(d) + Len(b)
      /\ \A i \in 1..Len(d) + Len(b) : (d \o b)[i] = IF i <= Len(d) THEN d[i] ELSE b[i - Len(d)]
  BY <1>4, <1>8, ConcatProperties
<1>10. r = d \o b
  BY <1>2 DEF d
<1>11. Len(r) = n + 1 /\ r \in Seq(Layer) /\ Len(d) + Len(b) = n + 1
  <2>1. Len(d) + Len(b) = n + 1
    BY <1>1, <1>4, <1>8
  <2>2. Len(r) = Len(d) + Len(b) /\ r \in Seq(Layer)
    BY <1>9, <1>10
  <2>3. QED
    BY <2>1, <2>2
<1>12. ASSUME NEW i \in 1..n + 1 PROVE r[i] = IF i <= c THEN q[i] ELSE IF i = c + 1 THEN l ELSE q[i - 1]
  <2>1. CASE i <= c + 1
    <3>1. i \in 1..c + 1 /\ r[i] = d[i]
      BY <1>1, <1>8, <1>9, <1>10, <1>11, <2>1
    <3>2. QED
      BY <1>1, <1>8, <3>1
  <2>2. CASE ~(i <= c + 1)
    <3>1. i - (c + 1) \in 1..n - c /\ c + (i - (c + 1)) = i - 1 /\ ~(i <= c) /\ i # c + 1
      BY <1>1, <2>2
    <3>2. r[i] = b[i - (c + 1)]
      BY <1>8, <1>9, <1>10, <1>11, <2>2
    <3>3. QED
      BY <1>4, <3>1, <3>2
  <2>3. QED
    BY <2>1, <2>2
<1>13. QED
  BY <1>11, <1>12 DEF r, n

Before(l, m) == l.track < m.track \/ (l.track = m.track /\ l.clip < m.clip)

Ordered(s) == \A i, j \in DOMAIN s : i < j => Before(s[i], s[j])

(* How many layers a new one comes after.                                          *)
LEMMA LayersBelow ==
  ASSUME NEW q \in Seq(Layer), NEW l \in Layer
  PROVE  /\ Cardinality({i \in DOMAIN q : q[i].track <= l.track}) \in 0..Len(q)
         /\ Ordered(q) => {i \in DOMAIN q : q[i].track <= l.track}
                            = 1..Cardinality({i \in DOMAIN q : q[i].track <= l.track})
<1> DEFINE n == Len(q)
           D == {i \in DOMAIN q : q[i].track <= l.track}
<1>1. n \in Nat /\ DOMAIN q = 1..n /\ \A i \in 1..n : q[i] \in Layer
  OBVIOUS
<1> HIDE DEF n
<1>2. D \in SUBSET (1..n) /\ IsFiniteSet(1..n) /\ Cardinality(1..n) = n
  BY <1>1, FS_Interval
<1>3. Cardinality(D) \in 0..n
  <2>1. IsFiniteSet(D) /\ Cardinality(D) <= Cardinality(1..n)
    BY <1>2, FS_Subset
  <2>2. Cardinality(D) \in Nat
    BY <2>1, FS_CardinalityType
  <2>3. QED
    BY <1>1, <1>2, <2>1, <2>2
<1>4. ASSUME Ordered(q) PROVE D = 1..Cardinality(D)
  <2>1. ASSUME NEW j \in D, NEW i \in 1..n, i < j PROVE i \in D
    <3>1. Before(q[i], q[j]) /\ q[j].track <= l.track
      BY <1>1, <1>4, <2>1 DEF Ordered
    <3>2. q[i].track \in Nat /\ q[j].track \in Nat /\ l.track \in Nat
      BY <1>1, <2>1 DEF Layer
    <3>3. q[i].track <= l.track
      BY <3>1, <3>2 DEF Before
    <3>4. QED
      BY <1>1, <3>3
  <2> DEFINE out == {i \in 1..n + 1 : i \notin D}
  <2> HIDE DEF D
  <2>2. n + 1 \in out /\ out \in SUBSET Nat
    BY <1>1, <1>2
  <2>3. PICK m \in out : \A k \in out : m <= k
    BY <2>2, LeastOf
  <2>4. m \in 1..n + 1 /\ m \notin D
    OBVIOUS
  <2>5. D = 1..m - 1
    <3>1. ASSUME NEW i \in 1..m - 1 PROVE i \in D
      <4>1. i \in 1..n + 1 /\ i < m
        BY <1>1, <2>4
      <4>2. i \notin out
        BY <2>3, <2>4, <4>1
      <4>3. QED
        BY <4>1, <4>2
    <3>2. ASSUME NEW i \in D PROVE i \in 1..m - 1
      <4>1. i \in 1..n /\ i # m
        BY <1>2, <2>4
      <4>2. ~(m < i)
        <5>1. ASSUME m < i PROVE FALSE
          <6>1. m \in 1..n
            BY <1>1, <2>4, <4>1, <5>1
          <6>2. QED
            BY <2>1, <2>4, <5>1, <6>1
        <5>2. QED
          BY <5>1
      <4>3. QED
        BY <2>4, <4>1, <4>2
    <3>3. QED
      BY <3>1, <3>2
  <2>6. Cardinality(1..m - 1) = m - 1
    <3>1. m - 1 \in Int /\ 1 \in Int
      BY <2>4
    <3>2. Cardinality(1..m - 1) = IF 1 > m - 1 THEN 0 ELSE (m - 1) - 1 + 1
      BY <3>1, FS_Interval
    <3>3. QED
      BY <2>4, <3>2
  <2>7. QED
    BY <2>5, <2>6
<1>5. QED
  BY <1>3, <1>4 DEF n
(* Layers of the tracks S, those of one track in the order of its clips.           *)
InTrackOrder(s, S) ==
  /\ s \in Seq(Layer)
  /\ \A i \in 1..Len(s) : s[i].track \in S
  /\ \A i, j \in 1..Len(s) : i < j /\ s[i].track = s[j].track => s[i].clip < s[j].clip

LEMMA InTurnOfBoth ==
  ASSUME NEW S, NEW U, S \cap U = {}, NEW s, NEW u, InTrackOrder(s, S), InTrackOrder(u, U)
  PROVE  InTrackOrder(s \o u, S \cup U)
<1> DEFINE m == Len(s)
           n == Len(u)
           w == s \o u
<1>1. s \in Seq(Layer) /\ u \in Seq(Layer) /\ m \in Nat /\ n \in Nat
  BY DEF InTrackOrder
<1>2. /\ w \in Seq(Layer) /\ Len(w) = m + n
      /\ \A i \in 1..m + n : w[i] = IF i <= m THEN s[i] ELSE u[i - m]
  BY <1>1, ConcatProperties
<1>3. /\ \A i \in 1..m : s[i].track \in S
      /\ \A i, j \in 1..m : i < j /\ s[i].track = s[j].track => s[i].clip < s[j].clip
      /\ \A i \in 1..n : u[i].track \in U
      /\ \A i, j \in 1..n : i < j /\ u[i].track = u[j].track => u[i].clip < u[j].clip
  BY DEF InTrackOrder
<1> HIDE DEF m, n, w
<1>4. \A i \in 1..m + n : \/ i \in 1..m /\ w[i] = s[i]
                          \/ i - m \in 1..n /\ m < i /\ w[i] = u[i - m]
  <2>1. SUFFICES ASSUME NEW i \in 1..m + n
                 PROVE  \/ i \in 1..m /\ w[i] = s[i]
                        \/ i - m \in 1..n /\ m < i /\ w[i] = u[i - m]
    OBVIOUS
  <2>2. CASE i <= m
    BY <1>1, <1>2, <2>1, <2>2
  <2>3. CASE ~(i <= m)
    BY <1>1, <1>2, <2>1, <2>3
  <2>4. QED
    BY <2>2, <2>3
<1>5. ASSUME NEW i \in 1..m + n PROVE w[i].track \in S \cup U
  BY <1>3, <1>4, <1>5
<1>6. ASSUME NEW i \in 1..m + n, NEW j \in 1..m + n, i < j, w[i].track = w[j].track
      PROVE  w[i].clip < w[j].clip
  <2>1. CASE i \in 1..m /\ w[i] = s[i]
    <3>1. CASE j \in 1..m /\ w[j] = s[j]
      BY <1>3, <1>6, <2>1, <3>1
    <3>2. CASE j - m \in 1..n /\ w[j] = u[j - m]
      <4>1. w[i].track \in S /\ w[j].track \in U
        BY <1>3, <2>1, <3>2
      <4>2. QED
        BY <1>6, <4>1
    <3>3. QED
      BY <1>4, <3>1, <3>2
  <2>2. CASE i - m \in 1..n /\ m < i /\ w[i] = u[i - m]
    <3>1. ~(j \in 1..m)
      BY <1>1, <1>6, <2>2
    <3>2. j - m \in 1..n /\ w[j] = u[j - m]
      BY <1>4, <3>1
    <3>3. i - m < j - m
      BY <1>1, <1>6
    <3>4. u[i - m].track = u[j - m].track
      BY <1>6, <2>2, <3>2
    <3>5. QED
      BY <1>3, <2>2, <3>2, <3>3, <3>4
  <2>3. QED
    BY <1>4, <2>1, <2>2
<1>7. QED
  BY <1>2, <1>5, <1>6 DEF InTrackOrder, w

LEMMA NoneInTurn == ASSUME NEW S PROVE InTrackOrder(<<>>, S)
<1> DEFINE none == <<>>
<1>1. none \in Seq(Layer) /\ 1..Len(none) = {}
  OBVIOUS
<1> HIDE DEF none
<1>2. InTrackOrder(none, S)
  BY <1>1 DEF InTrackOrder
<1>3. QED
  BY <1>2 DEF none

LEMMA MoreInTurn ==
  ASSUME NEW S, NEW U, S \subseteq U, NEW s, InTrackOrder(s, S)
  PROVE  InTrackOrder(s, U)
BY DEF InTrackOrder

(* The clips of one track that a walk over its first n clips has found.            *)
Found(s, t, n) ==
  /\ s \in Seq(Layer)
  /\ \A i \in 1..Len(s) : s[i].track = t /\ s[i].clip <= n
  /\ \A i, j \in 1..Len(s) : i < j => s[i].clip < s[j].clip

LEMMA FoundSteps ==
  ASSUME NEW t \in Nat, NEW n \in Nat, NEW s, Found(s, t, n)
  PROVE  Found(s, t, n + 1) /\ Found(Append(s, [track |-> t, clip |-> n + 1]), t, n + 1)
<1> DEFINE m == Len(s)
           l == [track |-> t, clip |-> n + 1]
           w == Append(s, l)
<1>1. s \in Seq(Layer) /\ m \in Nat /\ \A i \in 1..m : s[i] \in Layer
  BY DEF Found
<1>2. l \in Layer /\ l.track = t /\ l.clip = n + 1
  BY DEF Layer
<1> HIDE DEF l
<1>3. /\ w \in Seq(Layer) /\ Len(w) = m + 1 /\ w[m + 1] = l
      /\ \A i \in 1..m : w[i] = s[i]
  BY <1>1, <1>2
<1>4. /\ \A i \in 1..m : s[i].track = t /\ s[i].clip <= n /\ s[i].clip \in Nat
      /\ \A i, j \in 1..m : i < j => s[i].clip < s[j].clip
  BY <1>1 DEF Found, Layer
<1> HIDE DEF m, w
<1>5. \A i \in 1..m : s[i].track = t /\ s[i].clip <= n + 1
  BY <1>4
<1>6. Found(s, t, n + 1)
  BY <1>1, <1>4, <1>5 DEF Found, m
<1>7. \A i \in 1..m + 1 : i \in 1..m \/ i = m + 1
  BY <1>1
<1>8. ASSUME NEW i \in 1..m + 1 PROVE w[i].track = t /\ w[i].clip <= n + 1
  BY <1>2, <1>3, <1>5, <1>7
<1>9. ASSUME NEW i \in 1..m + 1, NEW j \in 1..m + 1, i < j PROVE w[i].clip < w[j].clip
  <2>1. i \in 1..m
    BY <1>1, <1>9
  <2>2. CASE j \in 1..m
    BY <1>3, <1>4, <1>9, <2>1, <2>2
  <2>3. CASE j = m + 1
    <3>1. w[j].clip = n + 1 /\ w[i].clip <= n /\ w[i].clip \in Nat
      BY <1>2, <1>3, <1>4, <2>1, <2>3
    <3>2. QED
      BY <3>1
  <2>4. QED
    BY <1>7, <2>2, <2>3
<1>10. Found(w, t, n + 1)
  BY <1>3, <1>8, <1>9 DEF Found
<1>11. QED
  BY <1>6, <1>10 DEF w, l

LEMMA UnderInTurn ==
  ASSUME RenderingAssumption, NEW t \in DOMAIN Tracks, NEW p
  PROVE  InTrackOrder(Under(t, p), {t})
<1> DEFINE n == Len(Tracks[t].clips)
           none == <<>>
<1>1. n \in Nat /\ \E h : ClipWalk(h, t, p, n)
  BY UnderSteps
<1>2. PICK h : ClipWalk(h, t, p, n)
  BY <1>1
<1>3. t \in Nat
  BY TracksAreTracks
<1>4. Found(none, t, 0)
  <2>1. none \in Seq(Layer) /\ 1..Len(none) = {}
    OBVIOUS
  <2> HIDE DEF none
  <2>2. QED
    BY <2>1 DEF Found
<1> DEFINE Bad == {k \in 0..n : ~Found(h[k], t, k)}
<1>5. /\ Bad \subseteq Nat /\ Bad \subseteq 0..n
      /\ \A k \in 0..n : k \notin Bad => Found(h[k], t, k)
      /\ \A k \in Bad : ~Found(h[k], t, k)
  BY <1>1
<1> HIDE DEF Bad, n, none
<1>6. /\ h[0] = none /\ Under(t, p) = h[n]
      /\ \A k \in 0..n - 1 : \/ h[k + 1] = Append(h[k], [track |-> t, clip |-> k + 1])
                             \/ h[k + 1] = h[k]
  BY <1>2 DEF ClipWalk, none
<1>7. Bad = {}
  <2>1. SUFFICES ASSUME Bad # {} PROVE FALSE
    OBVIOUS
  <2>2. PICK k \in Bad : \A j \in Bad : k <= j
    BY <1>5, <2>1, LeastOf
  <2>3. k # 0 /\ k \in 0..n
    BY <1>4, <1>5, <1>6, <2>2
  <2> DEFINE j == k - 1
  <2>4. j \in 0..n - 1 /\ j \in 0..n /\ j \in Nat /\ j + 1 = k /\ ~(k <= j)
    BY <1>1, <2>3
  <2> HIDE DEF j
  <2>5. Found(h[j], t, j)
    BY <1>5, <2>2, <2>4
  <2>6. Found(h[j + 1], t, j + 1)
    BY <1>3, <1>6, <2>4, <2>5, FoundSteps
  <2>7. QED
    BY <1>5, <2>2, <2>4, <2>6
<1>8. Found(Under(t, p), t, n)
  BY <1>1, <1>5, <1>6, <1>7
<1>9. QED
  BY <1>8 DEF Found, InTrackOrder

LEMMA LayersInTurn ==
  ASSUME RenderingAssumption, NEW t \in DOMAIN Tracks, NEW p
  PROVE  InTrackOrder(LayersOf(t, p), {t})
<1> DEFINE u == Under(t, p)
           none == <<>>
           one == SubSeq(u, 1, IF u = <<>> THEN 0 ELSE 1)
<1>1. InTrackOrder(u, {t}) /\ InTrackOrder(none, {t})
  BY UnderInTurn, NoneInTurn
<1>2. InTrackOrder(one, {t})
  <2>1. u \in Seq(Layer) /\ Len(u) \in Nat
    BY <1>1 DEF InTrackOrder
  <2> HIDE DEF u
  <2>2. CASE u = <<>>
    <3>1. one = none
      BY <2>2
    <3>2. QED
      BY <1>1, <3>1
  <2>3. CASE u # <<>>
    <3>1. Len(u) >= 1 /\ u[1] \in Layer
      BY <2>1, <2>3, EmptySeq
    <3>2. one = SubSeq(u, 1, 1)
      BY <2>3
    <3>3. one \in Seq(Layer) /\ Len(one) = 1 /\ one[1] = u[1]
      BY <2>1, <3>1, <3>2
    <3>4. u[1].track = t
      BY <1>1, <2>1, <3>1 DEF InTrackOrder
    <3> HIDE DEF one
    <3>5. \A i \in 1..1 : i = 1
      OBVIOUS
    <3>6. \A i \in 1..Len(one) : one[i].track \in {t}
      BY <3>3, <3>4, <3>5
    <3>7. \A i, j \in 1..Len(one) : ~(i < j)
      BY <3>3, <3>5
    <3>8. QED
      BY <3>3, <3>6, <3>7 DEF InTrackOrder
  <2>4. QED
    BY <2>2, <2>3
<1>3. LayersOf(t, p) \in {u, none, one}
  BY DEF LayersOf
<1> HIDE DEF u, none, one
<1>4. QED
  BY <1>1, <1>2, <1>3

LEMMA KindInTurn ==
  ASSUME RenderingAssumption, NEW sort, NEW p
  PROVE  InTrackOrder(OfKind(sort, p), {t \in DOMAIN Tracks : Tracks[t].kind = sort})
<1> DEFINE n == Len(Tracks)
           none == <<>>
           K(k) == {t \in 1..k : Tracks[t].kind = sort}
<1>1. \A t \in DOMAIN Tracks : InTrackOrder(LayersOf(t, p), {t}) /\ LayersOf(t, p) \in Seq(Layer)
  BY LayersInTurn DEF InTrackOrder
<1>2. n \in Nat /\ DOMAIN Tracks = 1..n /\ \E h : TrackWalk(h, sort, p, n)
  BY <1>1, OfKindSteps
<1>3. PICK h : TrackWalk(h, sort, p, n)
  BY <1>2
<1> DEFINE Bad == {k \in 0..n : ~InTrackOrder(h[k], K(k))}
<1>5. /\ Bad \subseteq Nat /\ Bad \subseteq 0..n
      /\ \A k \in 0..n : k \notin Bad => InTrackOrder(h[k], K(k))
      /\ \A k \in Bad : ~InTrackOrder(h[k], K(k))
  BY <1>2
<1> HIDE DEF Bad, n, none
<1>6. /\ h[0] = none /\ OfKind(sort, p) = h[n]
      /\ \A k \in 0..n - 1 : \/ Tracks[k + 1].kind = sort /\ h[k + 1] = h[k] \o LayersOf(k + 1, p)
                             \/ Tracks[k + 1].kind # sort /\ h[k + 1] = h[k]
  BY <1>3 DEF TrackWalk, none
<1>4. InTrackOrder(none, K(0))
  BY NoneInTurn DEF none
<1>7. Bad = {}
  <2>1. SUFFICES ASSUME Bad # {} PROVE FALSE
    OBVIOUS
  <2>2. PICK k \in Bad : \A j \in Bad : k <= j
    BY <1>5, <2>1, LeastOf
  <2>3. k # 0 /\ k \in 0..n
    <3> HIDE DEF K
    <3>1. QED
      BY <1>4, <1>5, <1>6, <2>2
  <2> DEFINE j == k - 1
  <2>4. j \in 0..n - 1 /\ j \in 0..n /\ j \in Nat /\ j + 1 = k /\ ~(k <= j) /\ j + 1 \in 1..n
    BY <1>2, <2>3
  <2> HIDE DEF j
  <2>5. InTrackOrder(h[j], K(j))
    <3> HIDE DEF K
    <3>1. QED
      BY <1>5, <2>2, <2>4
  <2>6. InTrackOrder(h[j + 1], K(j + 1))
    <3>1. CASE Tracks[j + 1].kind = sort /\ h[j + 1] = h[j] \o LayersOf(j + 1, p)
      <4>1. K(j) \cap {j + 1} = {} /\ K(j) \cup {j + 1} = K(j + 1)
        BY <2>4, <3>1
      <4>2. InTrackOrder(LayersOf(j + 1, p), {j + 1})
        BY <1>1, <1>2, <2>4
      <4> HIDE DEF K
      <4>3. InTrackOrder(h[j] \o LayersOf(j + 1, p), K(j) \cup {j + 1})
        BY <2>5, <4>1, <4>2, InTurnOfBoth
      <4>4. QED
        BY <3>1, <4>1, <4>3
    <3>2. CASE h[j + 1] = h[j]
      <4>1. K(j) \subseteq K(j + 1)
        BY <2>4
      <4> HIDE DEF K
      <4>2. QED
        BY <2>5, <3>2, <4>1, MoreInTurn
    <3>3. QED
      BY <1>6, <2>4, <3>1, <3>2
  <2> HIDE DEF K
  <2>7. QED
    BY <1>5, <2>2, <2>4, <2>6
<1>8. K(n) = {t \in DOMAIN Tracks : Tracks[t].kind = sort}
  BY <1>2
<1> HIDE DEF K
<1>9. InTrackOrder(OfKind(sort, p), K(n))
  BY <1>2, <1>5, <1>6, <1>7
<1>10. QED
  BY <1>8, <1>9

LEMMA GatheredInTurn ==
  ASSUME RenderingAssumption, NEW p
  PROVE  InTrackOrder(OfKind("video", p) \o OfKind("text", p) \o OfKind("caption", p), DOMAIN Tracks)
<1> DEFINE K(sort) == {t \in DOMAIN Tracks : Tracks[t].kind = sort}
           V == OfKind("video", p)
           T == OfKind("text", p)
           C == OfKind("caption", p)
<1>1. InTrackOrder(V, K("video")) /\ InTrackOrder(T, K("text")) /\ InTrackOrder(C, K("caption"))
  BY KindInTurn
<1>2. K("video") \cap K("text") = {} /\ (K("video") \cup K("text")) \cap K("caption") = {}
  OBVIOUS
<1>3. (K("video") \cup K("text")) \cup K("caption") \subseteq DOMAIN Tracks
  OBVIOUS
<1> HIDE DEF K, V, T, C
<1>4. InTrackOrder(V \o T, K("video") \cup K("text"))
  BY <1>1, <1>2, InTurnOfBoth
<1>5. InTrackOrder((V \o T) \o C, (K("video") \cup K("text")) \cup K("caption"))
  BY <1>1, <1>2, <1>4, InTurnOfBoth
<1>6. InTrackOrder((V \o T) \o C, DOMAIN Tracks)
  BY <1>3, <1>5, MoreInTurn
<1>7. QED
  BY <1>6 DEF V, T, C
LEMMA LayerFields == ASSUME NEW l \in Layer PROVE l.track \in Nat /\ l.clip \in Nat
BY DEF Layer

(* The layers of a sequence come from another.                                     *)
From(r, q, l) == \A i \in 1..Len(r) : r[i] = l \/ \E j \in 1..Len(q) : r[i] = q[j]

LEMMA InsertedInOrder ==
  ASSUME NEW q \in Seq(Layer), NEW l \in Layer
  PROVE  /\ InsertByTrack(q, l) \in Seq(Layer)
         /\ Ordered(q) /\ (\A i \in 1..Len(q) : q[i].track = l.track => q[i].clip < l.clip) =>
              Ordered(InsertByTrack(q, l)) /\ From(InsertByTrack(q, l), q, l)
<1> DEFINE n == Len(q)
           c == Cardinality({i \in DOMAIN q : q[i].track <= l.track})
           r == InsertByTrack(q, l)
<1>1. n \in Nat /\ DOMAIN q = 1..n /\ \A i \in 1..n : q[i] \in Layer /\ q[i].track \in Nat /\ q[i].clip \in Nat
  <2>1. n \in Nat /\ DOMAIN q = 1..n /\ \A i \in 1..n : q[i] \in Layer
    OBVIOUS
  <2>2. QED
    BY <2>1, LayerFields
<1>2. c \in 0..n /\ (Ordered(q) => {i \in DOMAIN q : q[i].track <= l.track} = 1..c)
  BY LayersBelow
<1>3. r = InsertAt(q, 1 + c, l)
  BY DEF InsertByTrack
<1> HIDE DEF c, r
<1>4. /\ r \in Seq(Layer) /\ Len(r) = n + 1
      /\ \A i \in 1..n + 1 : r[i] = IF i <= c THEN q[i] ELSE IF i = c + 1 THEN l ELSE q[i - 1]
  <2> DEFINE z == InsertAt(q, 1 + c, l)
  <2>1. /\ z \in Seq(Layer) /\ Len(z) = Len(q) + 1
        /\ \A i \in 1..Len(q) + 1 : z[i] = IF i <= c THEN q[i] ELSE IF i = c + 1 THEN l ELSE q[i - 1]
    BY <1>2, LayerInserted
  <2>2. r = z
    BY <1>3
  <2> HIDE DEF z
  <2>3. QED
    BY <2>1, <2>2
<1>5. l.track \in Nat /\ l.clip \in Nat
  BY DEF Layer
<1> HIDE DEF n
<1>6. ASSUME NEW i \in 1..n + 1
      PROVE  \/ i <= c /\ i \in 1..n /\ r[i] = q[i]
             \/ i = c + 1 /\ r[i] = l
             \/ c + 1 < i /\ i - 1 \in 1..n /\ r[i] = q[i - 1]
  <2>1. CASE i <= c
    BY <1>1, <1>2, <1>4, <2>1
  <2>2. CASE i = c + 1
    BY <1>1, <1>2, <1>4, <2>2
  <2>3. CASE ~(i <= c) /\ i # c + 1
    <3>1. c + 1 < i /\ i - 1 \in 1..n
      BY <1>1, <1>2, <2>3
    <3>2. QED
      BY <1>4, <2>3, <3>1
  <2>4. QED
    BY <2>1, <2>2, <2>3
<1>7. ASSUME Ordered(q), \A i \in 1..n : q[i].track = l.track => q[i].clip < l.clip
      PROVE  Ordered(r) /\ From(r, q, l)
  <2>1. \A i \in 1..n : q[i].track <= l.track <=> i \in 1..c
    BY <1>1, <1>2, <1>7
  <2>2. \A i \in 1..n : i <= c => Before(q[i], l)
    <3>1. ASSUME NEW i \in 1..n, i <= c PROVE Before(q[i], l)
      <4>1. q[i].track <= l.track
        BY <1>2, <2>1, <3>1
      <4>2. q[i].track < l.track \/ (q[i].track = l.track /\ q[i].clip < l.clip)
        <5>1. q[i].track \in Nat
          BY <1>1
        <5>2. CASE q[i].track = l.track
          BY <1>7, <5>2
        <5>3. CASE q[i].track # l.track
          BY <1>5, <4>1, <5>1, <5>3
        <5>4. QED
          BY <5>2, <5>3
      <4>3. QED
        BY <4>2 DEF Before
    <3>2. QED
      BY <3>1
  <2>3. \A i \in 1..n : c < i => Before(l, q[i])
    <3>1. ASSUME NEW i \in 1..n, c < i PROVE Before(l, q[i])
      <4>1. ~(q[i].track <= l.track)
        BY <1>2, <2>1, <3>1
      <4>2. QED
        <5>1. q[i].track \in Nat /\ l.track \in Nat
          BY <1>1, <1>5
        <5>2. l.track < q[i].track
          BY <4>1, <5>1
        <5>3. QED
          BY <5>2 DEF Before
    <3>2. QED
      BY <3>1
  <2>4. \A i, j \in 1..n : i < j => Before(q[i], q[j])
    BY <1>1, <1>7 DEF Ordered
  <2>5. ASSUME NEW i \in 1..n + 1, NEW j \in 1..n + 1, i < j PROVE Before(r[i], r[j])
    <3>1. CASE i <= c /\ i \in 1..n /\ r[i] = q[i]
      <4>1. CASE j <= c /\ j \in 1..n /\ r[j] = q[j]
        BY <2>4, <2>5, <3>1, <4>1
      <4>2. CASE j = c + 1 /\ r[j] = l
        BY <2>2, <3>1, <4>2
      <4>3. CASE c + 1 < j /\ j - 1 \in 1..n /\ r[j] = q[j - 1]
        <5>1. i < j - 1
          BY <1>2, <3>1, <4>3
        <5>2. QED
          BY <2>4, <3>1, <4>3, <5>1
      <4>4. QED
        BY <1>6, <4>1, <4>2, <4>3
    <3>2. CASE i = c + 1 /\ r[i] = l
      <4>1. ~(j <= c) /\ j # c + 1
        BY <1>2, <2>5, <3>2
      <4>2. c + 1 < j /\ j - 1 \in 1..n /\ r[j] = q[j - 1]
        BY <1>6, <4>1
      <4>3. c < j - 1
        BY <1>2, <4>2
      <4>4. QED
        BY <2>3, <3>2, <4>2, <4>3
    <3>3. CASE c + 1 < i /\ i - 1 \in 1..n /\ r[i] = q[i - 1]
      <4>1. ~(j <= c) /\ j # c + 1
        BY <1>2, <2>5, <3>3
      <4>2. c + 1 < j /\ j - 1 \in 1..n /\ r[j] = q[j - 1]
        BY <1>6, <4>1
      <4>3. i - 1 < j - 1
        BY <2>5
      <4>4. QED
        BY <2>4, <3>3, <4>2, <4>3
    <3>4. QED
      BY <1>6, <3>1, <3>2, <3>3
  <2>6. DOMAIN r = 1..n + 1
    BY <1>4
  <2>7. Ordered(r)
    BY <2>5, <2>6 DEF Ordered
  <2>8. From(r, q, l)
    BY <1>4, <1>6 DEF From, n
  <2>9. QED
    BY <2>7, <2>8
<1>8. QED
  BY <1>4, <1>7 DEF n, r

SortWalk(h, w, n) ==
  /\ h[0] = <<>> /\ FoldLeft(InsertByTrack, <<>>, w) = h[n]
  /\ \A k \in 0..n - 1 : h[k + 1] = InsertByTrack(h[k], w[k + 1])

LEMMA SortSteps ==
  ASSUME NEW w \in Seq(Layer)
  PROVE  \E h : SortWalk(h, w, Len(w))
<1> DEFINE n == Len(w)
           none == <<>>
           X == Seq(Layer)
           Takes(q, i) == InsertByTrack(q, w[i])
           F == [q \in X \X (1..n) |-> Takes(q[1], q[2])]
           P(g) == g = [s \in SUBSET DOMAIN w |->
                          IF s = {} THEN none ELSE Takes(g[s \ {Max(s)}], Max(s))]
           it == CHOOSE g : P(g)
<1>1. FoldLeft(InsertByTrack, none, w) = it[DOMAIN w]
  BY DEF FoldLeft, MapThenFoldSet
<1>2. n \in Nat /\ DOMAIN w = 1..n /\ \A i \in 1..n : w[i] \in Layer
  OBVIOUS
<1>4. \A q \in X, i \in 1..n : Takes(q, i) \in X
  BY <1>2, InsertedInOrder
<1> HIDE DEF X, Takes, n, none
<1>5. F \in [X \X (1..n) -> X] /\ \A q \in X, i \in 1..n : F[q, i] = Takes(q, i)
  BY <1>4
<1> HIDE DEF F
<1>6. none \in X
  BY DEF X, none
<1>7. PICK g \in [SUBSET (1..n) -> X] : TakesLast(g, n, none, F)
  BY <1>2, <1>5, <1>6, LeftFoldExists
<1>8. \A s \in SUBSET (1..n) : s # {} => Max(s) \in 1..n
  BY <1>2, LargestIn
<1>9. g = [s \in SUBSET (1..n) |-> IF s = {} THEN none ELSE Takes(g[s \ {Max(s)}], Max(s))]
  <2>1. \A s \in SUBSET (1..n) : s # {} => F[g[s \ {Max(s)}], Max(s)] = Takes(g[s \ {Max(s)}], Max(s))
    BY <1>5, <1>8
  <2>2. QED
    BY <1>7, <2>1 DEF TakesLast
<1>10. P(g)
  BY <1>2, <1>9
<1>11. P(it)
  <2> HIDE DEF P
  <2>1. QED
    BY <1>10
<1>15. it[{}] = none /\ \A s \in SUBSET (1..n) : s # {} => it[s] = Takes(it[s \ {Max(s)}], Max(s))
  BY <1>2, <1>11
<1> HIDE DEF it, P
<1> DEFINE h == [k \in 0..n |-> it[1..k]]
<1>12. h[0] = none /\ FoldLeft(InsertByTrack, none, w) = h[n]
  <2>1. 1..0 = {}
    OBVIOUS
  <2>2. h[0] = it[1..0] /\ h[n] = it[1..n]
    BY <1>2
  <2>3. h[0] = none
    BY <1>15, <2>1, <2>2
  <2> DEFINE z == FoldLeft(InsertByTrack, none, w)
  <2>4. z = it[1..n]
    BY <1>1, <1>2
  <2> HIDE DEF z
  <2>5. z = h[n]
    BY <2>2, <2>4
  <2>6. QED
    BY <2>3, <2>5 DEF z
<1>13. ASSUME NEW k \in 0..n - 1 PROVE h[k + 1] = Takes(h[k], k + 1)
  <2>1. /\ 1..k + 1 \in SUBSET (1..n) /\ 1..k + 1 # {} /\ k + 1 \in 1..n
        /\ Max(1..k + 1) = k + 1 /\ (1..k + 1) \ {k + 1} = 1..k
    BY <1>2, InitialSegments
  <2>2. it[1..k + 1] = Takes(it[1..k], k + 1)
    BY <1>15, <2>1
  <2>3. h[k + 1] = it[1..k + 1] /\ h[k] = it[1..k]
    BY <1>2
  <2>4. QED
    BY <2>2, <2>3
<1> HIDE DEF h
<1>16. SortWalk(h, w, n)
  BY <1>12, <1>13 DEF Takes, none, SortWalk
<1>14. QED
  BY <1>16 DEF n

(* The first n layers of a sequence, sorted.                                       *)
Sorted(s, w, n) ==
  /\ s \in Seq(Layer) /\ Ordered(s)
  /\ \A i \in 1..Len(s) : \E j \in 1..n : s[i] = w[j]

LEMMA SortedInOrder ==
  ASSUME NEW S, NEW w, InTrackOrder(w, S)
  PROVE  Sorted(FoldLeft(InsertByTrack, <<>>, w), w, Len(w))
<1> DEFINE n == Len(w)
           none == <<>>
           z == FoldLeft(InsertByTrack, none, w)
<1>1. /\ w \in Seq(Layer) /\ n \in Nat /\ \A i \in 1..n : w[i] \in Layer
      /\ \A i, j \in 1..n : i < j /\ w[i].track = w[j].track => w[i].clip < w[j].clip
  BY DEF InTrackOrder
<1>2. PICK h : SortWalk(h, w, n)
  BY <1>1, SortSteps
<1>4. Sorted(none, w, 0)
  <2>1. none \in Seq(Layer) /\ 1..Len(none) = {} /\ DOMAIN none = {}
    OBVIOUS
  <2> HIDE DEF none
  <2>2. QED
    BY <2>1 DEF Sorted, Ordered
<1> DEFINE Bad == {k \in 0..n : ~Sorted(h[k], w, k)}
<1>5. /\ Bad \subseteq Nat /\ Bad \subseteq 0..n
      /\ \A k \in 0..n : k \notin Bad => Sorted(h[k], w, k)
      /\ \A k \in Bad : ~Sorted(h[k], w, k)
  BY <1>1
<1>6. /\ h[0] = none /\ z = h[n]
      /\ \A k \in 0..n - 1 : h[k + 1] = InsertByTrack(h[k], w[k + 1])
  BY <1>2 DEF SortWalk
<1> HIDE DEF Bad, n, none, z
<1>7. Bad = {}
  <2>1. SUFFICES ASSUME Bad # {} PROVE FALSE
    OBVIOUS
  <2>2. PICK k \in Bad : \A j \in Bad : k <= j
    BY <1>5, <2>1, LeastOf
  <2>3. k # 0 /\ k \in 0..n
    BY <1>4, <1>5, <1>6, <2>2
  <2> DEFINE m == k - 1
  <2>4. m \in 0..n - 1 /\ m \in 0..n /\ m \in Nat /\ m + 1 = k /\ ~(k <= m) /\ m + 1 \in 1..n
    BY <1>1, <2>3
  <2> HIDE DEF m
  <2>5. Sorted(h[m], w, m)
    BY <1>5, <2>2, <2>4
  <2> DEFINE q == h[m]
             l == w[m + 1]
             r == InsertByTrack(q, l)
  <2>6. q \in Seq(Layer) /\ Ordered(q) /\ l \in Layer /\ \A i \in 1..Len(q) : \E j \in 1..m : q[i] = w[j]
    BY <1>1, <2>4, <2>5 DEF Sorted
  <2> HIDE DEF q, l
  <2>7. \A i \in 1..Len(q) : q[i].track = l.track => q[i].clip < l.clip
    <3>1. ASSUME NEW i \in 1..Len(q), q[i].track = l.track PROVE q[i].clip < l.clip
      <4>1. PICK j \in 1..m : q[i] = w[j]
        BY <2>6
      <4>2. j \in 1..n /\ j < m + 1
        BY <1>1, <2>4
      <4>3. QED
        BY <1>1, <2>4, <3>1, <4>1, <4>2 DEF l
    <3>2. QED
      BY <3>1
  <2>8. r \in Seq(Layer) /\ Ordered(r) /\ From(r, q, l)
    BY <2>6, <2>7, InsertedInOrder
  <2> HIDE DEF r
  <2>9. \A i \in 1..Len(r) : \E j \in 1..m + 1 : r[i] = w[j]
    <3>1. SUFFICES ASSUME NEW i \in 1..Len(r) PROVE \E j \in 1..m + 1 : r[i] = w[j]
      OBVIOUS
    <3>2. CASE r[i] = l
      <4>1. m + 1 \in 1..m + 1 /\ r[i] = w[m + 1]
        BY <2>4, <3>2 DEF l
      <4>2. QED
        BY <4>1
    <3>3. CASE \E j \in 1..Len(q) : r[i] = q[j]
      <4>1. PICK j \in 1..m : r[i] = w[j]
        BY <2>6, <3>3
      <4>2. j \in 1..m + 1
        BY <2>4
      <4>3. QED
        BY <4>1, <4>2
    <3>4. QED
      BY <2>8, <3>1, <3>2, <3>3 DEF From
  <2>10. Sorted(r, w, m + 1)
    BY <2>8, <2>9 DEF Sorted
  <2>11. h[m + 1] = r
    BY <1>6, <2>4 DEF r, q, l
  <2>12. QED
    BY <1>5, <2>2, <2>4, <2>10, <2>11
<1>8. Sorted(z, w, n)
  BY <1>1, <1>5, <1>6, <1>7
<1>9. QED
  BY <1>8 DEF z, none, n

(* What is gathered at a position is in order, and lies in the project.            *)
Gathered(s) ==
  /\ s \in Seq(Layer) /\ Ordered(s)
  /\ \A i \in 1..Len(s) : s[i].track \in DOMAIN Tracks

LEMMA GatherInOrder ==
  ASSUME RenderingAssumption, NEW p
  PROVE  Gathered(Gather(p))
<1> DEFINE w == OfKind("video", p) \o OfKind("text", p) \o OfKind("caption", p)
           z == FoldLeft(InsertByTrack, <<>>, w)
<1>1. InTrackOrder(w, DOMAIN Tracks)
  BY GatheredInTurn
<1>2. Gather(p) = z
  BY DEF Gather
<1> HIDE DEF w
<1>3. Sorted(z, w, Len(w))
  BY <1>1, SortedInOrder
<1> HIDE DEF z
<1>4. Gathered(z)
  BY <1>1, <1>3 DEF Sorted, Gathered, InTrackOrder
<1>5. QED
  BY <1>2, <1>4

(* An order is without repetitions.                                                *)
LEMMA OrderedOnce ==
  ASSUME NEW s \in Seq(Layer), Ordered(s)
  PROVE  Cardinality(ToSet(s)) = Len(s)
<1>1. Len(s) \in Nat /\ DOMAIN s = 1..Len(s) /\ \A i \in 1..Len(s) : s[i].track \in Nat /\ s[i].clip \in Nat
  <2>1. Len(s) \in Nat /\ DOMAIN s = 1..Len(s) /\ \A i \in 1..Len(s) : s[i] \in Layer
    OBVIOUS
  <2>2. QED
    BY <2>1, LayerFields
<1>2. ASSUME NEW i \in 1..Len(s), NEW j \in 1..Len(s), i < j PROVE s[i] # s[j]
  <2>1. Before(s[i], s[j])
    BY <1>1, <1>2 DEF Ordered
  <2>2. QED
    BY <1>1, <2>1 DEF Before
<1>3. \A i, j \in 1..Len(s) : s[i] = s[j] => i = j
  BY <1>1, <1>2
<1>4. IsInjective(s)
  BY <1>1, <1>3 DEF IsInjective
<1>5. QED
  BY <1>4, InjectiveLength
LEMMA NothingSumsUp ==
  ASSUME NEW S, IsFiniteSet(S), NEW f \in [S -> Nat], NEW g, Adds(g, S, f), \A x \in S : f[x] = 0
  PROVE  g[S] = 0
<1> DEFINE Bad == {n \in Nat : \E t \in SUBSET S : Cardinality(t) = n /\ g[t] # 0}
<1>1. SumsUp(g, S, f)
  BY SumSteps
<1>2. \A t \in SUBSET S : IsFiniteSet(t) /\ Cardinality(t) \in Nat
  BY FS_Subset, FS_CardinalityType
<1>3. Bad \subseteq Nat /\ \A t \in SUBSET S : g[t] # 0 => Cardinality(t) \in Bad
  BY <1>2
<1>4. \A n \in Bad : \E t \in SUBSET S : Cardinality(t) = n /\ g[t] # 0
  OBVIOUS
<1> HIDE DEF Bad
<1>5. Bad = {}
  <2>1. SUFFICES ASSUME Bad # {} PROVE FALSE
    OBVIOUS
  <2>2. PICK n \in Bad : \A k \in Bad : n <= k
    BY <1>3, <2>1, LeastOf
  <2>3. PICK t \in SUBSET S : Cardinality(t) = n /\ g[t] # 0
    BY <1>4, <2>2
  <2>4. t # {}
    BY <1>1, <2>3 DEF SumsUp
  <2>5. PICK x \in t : TRUE
    BY <2>4
  <2>6. g[t] = g[t \ {x}] + f[x] /\ f[x] = 0
    BY <1>1, <2>3, <2>5 DEF SumsUp
  <2>7. g[t \ {x}] = 0
    <3>1. t \ {x} \in SUBSET S /\ Cardinality(t \ {x}) = n - 1
      BY <1>2, <2>3, <2>5, FS_RemoveElement
    <3>2. n - 1 \notin Bad
      <4>1. n \in Nat /\ ~(n <= n - 1)
        BY <1>3, <2>2
      <4>2. QED
        BY <2>2, <4>1
    <3>3. QED
      BY <1>3, <3>1, <3>2
  <2>8. QED
    BY <2>3, <2>6, <2>7
<1>6. QED
  BY <1>3, <1>5

LEMMA NothingHeld ==
  ASSUME RenderingAssumption
  PROVE  BytesHeld([r \in Renderers |-> <<>>]) = 0
<1> DEFINE none == <<>>
           l == [r \in Renderers |-> none]
           f == [r \in Renderers |-> Total(l[r])]
<1>1. none \in Seq(Descs) /\ Total(none) = 0
  BY TotalOfFew
<1> HIDE DEF none
<1>2. l \in [Renderers -> Seq(Descs)] /\ \A r \in Renderers : l[r] = none
  BY <1>1
<1>3. f \in [Renderers -> Nat] /\ \A r \in Renderers : f[r] = 0
  BY <1>1, <1>2
<1>4. PICK g : BytesHeld(l) = g[Renderers] /\ Adds(g, Renderers, f)
  BY <1>2, HeldSums
<1>5. IsFiniteSet(Renderers)
  BY DEF RenderingAssumption
<1> HIDE DEF f, l
<1>6. g[Renderers] = 0
  BY <1>3, <1>4, <1>5, NothingSumsUp
<1>7. BytesHeld(l) = 0
  BY <1>4, <1>6
<1>8. QED
  BY <1>7 DEF l, none

(* What the compositor's callers, its pool and its cache of tables have.           *)
RenderShape ==
  /\ free \in Seq(Descs) /\ leased \in [Renderers -> Seq(Descs)]
  /\ reserved \in Nat /\ inUse \in Nat
  /\ stage \in [Renderers -> {"idle", "drawing", "rendered"}]
  /\ DOMAIN layers = Renderers /\ DOMAIN drawn = Renderers
  /\ luts \in [LutFiles -> {"unread", "table", "failed"}]
  /\ reads \in [LutFiles -> Nat]

(* The figures of the pool are those of the frames that there are.                 *)
Accounts ==
  /\ inUse = BytesHeld(leased)
  /\ reserved = inUse + Total(free)
  /\ reserved <= Budget

(* What is being drawn was gathered at one position.                               *)
Drawings == \A r \in Renderers : stage[r] = "drawing" => Gathered(layers[r])

RenderInv == RenderShape /\ Accounts /\ NothingLeaks /\ Drawings /\ LutReadOnce

LEMMA RenderPromise ==
  ASSUME RenderInv
  PROVE  RenderingSound
<1>1. PoolAccounts
  BY DEF RenderInv, Accounts, PoolAccounts, BytesHeld, HeldBytes
<1>2. BottomToTop
  <2>1. SUFFICES ASSUME NEW r \in Renderers, stage[r] = "drawing"
                 PROVE  /\ \A i, j \in DOMAIN layers[r] :
                            i < j => \/ layers[r][i].track < layers[r][j].track
                                     \/ layers[r][i].track = layers[r][j].track
                                        /\ layers[r][i].clip < layers[r][j].clip
                        /\ Cardinality(ToSet(layers[r])) = Len(layers[r])
    BY DEF BottomToTop
  <2> DEFINE s == layers[r]
  <2>2. s \in Seq(Layer) /\ Ordered(s)
    BY <2>1 DEF RenderInv, Drawings, Gathered
  <2> HIDE DEF s
  <2>3. Cardinality(ToSet(s)) = Len(s)
    BY <2>2, OrderedOnce
  <2>4. \A i, j \in DOMAIN s : i < j => s[i].track < s[j].track \/ (s[i].track = s[j].track /\ s[i].clip < s[j].clip)
    BY <2>2 DEF Ordered, Before
  <2>5. QED
    BY <2>3, <2>4 DEF s
<1>3. QED
  BY <1>1, <1>2 DEF RenderInv, RenderingSound

LEMMA RenderStart ==
  ASSUME RenderingAssumption, RenderInit
  PROVE  RenderInv
<1>1. RenderShape
  BY DEF RenderInit, RenderShape
<1>2. Accounts
  <2>1. free = <<>> /\ leased = [r \in Renderers |-> <<>>] /\ reserved = 0 /\ inUse = 0
    BY DEF RenderInit
  <2>2. BytesHeld(leased) = 0
    BY <2>1, NothingHeld
  <2>3. Total(free) = 0
    BY <2>1, TotalOfFew
  <2>4. Budget \in Nat
    BY DEF RenderingAssumption
  <2>5. QED
    BY <2>1, <2>2, <2>3, <2>4 DEF Accounts
<1>3. NothingLeaks
  BY DEF RenderInit, NothingLeaks
<1>4. Drawings
  BY DEF RenderInit, Drawings
<1>5. LutReadOnce
  BY DEF RenderInit, LutReadOnce
<1>6. QED
  BY <1>1, <1>2, <1>3, <1>4, <1>5 DEF RenderInv

LEMMA ReclaimedWithin ==
  ASSUME RenderShape, NEW need
  PROVE  Reclaimed(need) \in 0..Len(free)
<1> DEFINE E == {n \in 0 .. Len(free) : reserved - Total(SubSeq(free, 1, n)) + need <= Budget}
<1>1. Len(free) \in Nat
  BY DEF RenderShape
<1>2. E \subseteq Nat /\ E \subseteq 0..Len(free)
  BY <1>1
<1>3. Reclaimed(need) = IF E = {} THEN Len(free) ELSE CHOOSE n \in E : \A m \in E : n <= m
  BY DEF Reclaimed
<1> HIDE DEF E
<1>4. CASE E = {}
  BY <1>1, <1>3, <1>4
<1>5. CASE E # {}
  <2>1. \E n \in E : \A m \in E : n <= m
    BY <1>2, <1>5, LeastOf
  <2>2. QED
    BY <1>2, <1>3, <1>5, <2>1
<1>6. QED
  BY <1>4, <1>5

(* What a call to the pool leaves: its figures, and the leases of the others.      *)
PoolKept(r) ==
  /\ free' \in Seq(Descs) /\ leased' \in [Renderers -> Seq(Descs)]
  /\ reserved' \in Nat /\ inUse' \in Nat
  /\ Accounts'
  /\ \A q \in Renderers \ {r} : leased'[q] = leased[q]

LEMMA LeaseChanges ==
  ASSUME RenderingAssumption, RenderShape, Accounts, NEW r \in Renderers, NEW s \in Seq(Descs),
         leased' = [leased EXCEPT ![r] = s]
  PROVE  /\ leased' \in [Renderers -> Seq(Descs)] /\ leased'[r] = s
         /\ \A q \in Renderers \ {r} : leased'[q] = leased[q]
         /\ Total(leased[r]) \in Nat /\ Total(leased[r]) <= inUse /\ Total(s) \in Nat
         /\ BytesHeld(leased') = (inUse - Total(leased[r])) + Total(s)
<1> DEFINE l == leased
           m == leased'
<1>1. l \in [Renderers -> Seq(Descs)] /\ inUse = BytesHeld(l)
  BY DEF RenderShape, Accounts
<1>2. m \in [Renderers -> Seq(Descs)] /\ m[r] = s /\ \A q \in Renderers \ {r} : m[q] = l[q]
  BY <1>1
<1>3. Total(l[r]) \in Nat /\ Total(s) \in Nat
  BY <1>1, TotalOfFew
<1> HIDE DEF l, m
<1>4. /\ BytesHeld(l) \in Nat /\ Total(l[r]) <= BytesHeld(l)
      /\ BytesHeld(m) = (BytesHeld(l) - Total(l[r])) + Total(m[r])
  BY <1>1, <1>2, HeldChanges
<1>5. BytesHeld(m) = (inUse - Total(l[r])) + Total(s) /\ Total(l[r]) <= inUse
  BY <1>1, <1>2, <1>4
<1>6. QED
  BY <1>2, <1>3, <1>5 DEF l, m

LEMMA AcquireKeeps ==
  ASSUME RenderingAssumption, RenderShape, Accounts, NEW r \in Renderers, NEW d \in Descs,
         leased[r] = <<>>, Acquire(r, d)
  PROVE  PoolKept(r)
<1> DEFINE one == <<d>>
           none == <<>>
           k == Reclaimed(Bytes[d])
           kept == SubSeq(free, k + 1, Len(free))
           left == Total(free) - Total(kept)
<1>1. /\ one \in Seq(Descs) /\ Total(one) = Bytes[d] /\ Total(none) = 0
      /\ Bytes[d] \in Nat /\ Total(free) \in Nat
  BY TotalOfFew DEF RenderingAssumption, RenderShape
<1>2. /\ free \in Seq(Descs) /\ leased \in [Renderers -> Seq(Descs)] /\ reserved \in Nat /\ inUse \in Nat
      /\ inUse = BytesHeld(leased) /\ reserved = inUse + Total(free) /\ reserved <= Budget /\ Budget \in Nat
  BY DEF RenderShape, Accounts, RenderingAssumption
<1>3. k \in 0..Len(free)
  BY ReclaimedWithin
<1>4. /\ kept \in Seq(Descs) /\ SubSeq(free, 1, k) \in Seq(Descs)
      /\ Total(free) = Total(SubSeq(free, 1, k)) + Total(kept)
  BY <1>2, <1>3, TotalSplit
<1>5. Total(kept) \in Nat /\ Total(SubSeq(free, 1, k)) \in Nat
  BY <1>4, TotalOfFew
<1>6. \/ /\ d \in ToSet(free) /\ free' = RemoveFirst(free, d)
         /\ leased' = [leased EXCEPT ![r] = one] /\ inUse' = inUse + Bytes[d] /\ reserved' = reserved
      \/ /\ free' = kept /\ reserved - left + Bytes[d] <= Budget
         /\ leased' = [leased EXCEPT ![r] = one]
         /\ reserved' = reserved - left + Bytes[d] /\ inUse' = inUse + Bytes[d]
      \/ free' = kept /\ reserved' = reserved - left /\ leased' = leased /\ inUse' = inUse
  BY DEF Acquire
<1>7. ASSUME leased' = [leased EXCEPT ![r] = one]
      PROVE  /\ leased' \in [Renderers -> Seq(Descs)]
             /\ \A q \in Renderers \ {r} : leased'[q] = leased[q]
             /\ BytesHeld(leased') = inUse + Bytes[d]
  <2> HIDE DEF one
  <2>1. /\ leased' \in [Renderers -> Seq(Descs)]
        /\ \A q \in Renderers \ {r} : leased'[q] = leased[q]
        /\ BytesHeld(leased') = (inUse - Total(leased[r])) + Total(one)
    BY <1>1, <1>7, LeaseChanges
  <2>2. Total(leased[r]) = 0
    BY <1>1
  <2>3. QED
    BY <1>1, <1>2, <2>1, <2>2
<1> HIDE DEF one, none, kept, k
<1>12. reserved - left = inUse + Total(kept) /\ Total(kept) <= Total(free)
  <2> DEFINE a == Total(SubSeq(free, 1, k))
             b == Total(kept)
             c == Total(free)
  <2>1. a \in Nat /\ b \in Nat /\ c \in Nat /\ c = a + b /\ reserved = inUse + c /\ inUse \in Nat
    BY <1>1, <1>2, <1>4, <1>5
  <2>2. left = c - b
    OBVIOUS
  <2> HIDE DEF a, b, c, left
  <2>3. reserved - left = inUse + b /\ b <= c
    BY <2>1, <2>2
  <2>4. QED
    BY <2>3 DEF b, c
<1> HIDE DEF left
<1>8. CASE /\ d \in ToSet(free) /\ free' = RemoveFirst(free, d)
           /\ leased' = [leased EXCEPT ![r] = one] /\ inUse' = inUse + Bytes[d] /\ reserved' = reserved
  <2>1. free' \in Seq(Descs) /\ Total(free') = Total(free) - Bytes[d]
    BY <1>2, <1>8, TotalRemoved
  <2>2. inUse' \in Nat /\ reserved' \in Nat /\ reserved' = inUse' + Total(free') /\ reserved' <= Budget
    <3> DEFINE a == Total(free)
               b == Total(free')
               c == Bytes[d]
    <3>1. a \in Nat /\ c \in Nat /\ b = a - c
      BY <1>1, <2>1
    <3>2. reserved = inUse + a /\ inUse \in Nat /\ reserved \in Nat /\ inUse' = inUse + c /\ reserved' = reserved
      BY <1>2, <1>8
    <3> HIDE DEF a, b, c
    <3>3. inUse' \in Nat /\ reserved' = inUse' + b
      BY <3>1, <3>2
    <3>4. QED
      BY <1>2, <3>2, <3>3 DEF b
  <2>3. QED
    BY <1>7, <1>8, <2>1, <2>2 DEF PoolKept, Accounts
<1>9. CASE /\ free' = kept /\ reserved - left + Bytes[d] <= Budget
           /\ leased' = [leased EXCEPT ![r] = one]
           /\ reserved' = reserved - left + Bytes[d] /\ inUse' = inUse + Bytes[d]
  <2>1. inUse' \in Nat /\ reserved' \in Nat /\ reserved' = inUse' + Total(kept) /\ reserved' <= Budget
    <3> DEFINE b == Total(kept)
               c == Bytes[d]
               x == reserved - left
    <3>1. reserved' = x + c /\ x + c <= Budget /\ inUse' = inUse + c
      BY <1>9
    <3>2. x = inUse + b /\ b \in Nat /\ c \in Nat /\ inUse \in Nat
      BY <1>1, <1>2, <1>5, <1>12
    <3> HIDE DEF b, c, x
    <3>3. inUse' \in Nat /\ reserved' \in Nat /\ reserved' = inUse' + b /\ reserved' <= Budget
      BY <3>1, <3>2
    <3>4. QED
      BY <3>3 DEF b
  <2>2. QED
    BY <1>4, <1>7, <1>9, <2>1 DEF PoolKept, Accounts
<1>10. CASE free' = kept /\ reserved' = reserved - left /\ leased' = leased /\ inUse' = inUse
  <2>1. reserved' \in Nat /\ reserved' = inUse + Total(kept) /\ reserved' <= Budget
    BY <1>1, <1>2, <1>5, <1>10, <1>12
  <2>2. QED
    BY <1>2, <1>4, <1>10, <2>1 DEF PoolKept, Accounts
<1>11. QED
  BY <1>6, <1>8, <1>9, <1>10

LEMMA GiveBackKeeps ==
  ASSUME RenderingAssumption, RenderShape, Accounts, NEW r \in Renderers, GiveBack(r)
  PROVE  PoolKept(r) /\ leased'[r] = <<>>
<1> DEFINE none == <<>>
           s == leased[r]
           u == free \o s
<1>1. /\ free' = u /\ inUse' = inUse - Total(s)
      /\ leased' = [leased EXCEPT ![r] = none] /\ reserved' = reserved
  BY DEF GiveBack
<1>2. /\ free \in Seq(Descs) /\ s \in Seq(Descs) /\ none \in Seq(Descs) /\ reserved \in Nat /\ inUse \in Nat
      /\ reserved = inUse + Total(free) /\ reserved <= Budget
  BY DEF RenderShape, Accounts
<1>3. Total(none) = 0 /\ Total(s) \in Nat /\ Total(free) \in Nat
  BY <1>2, TotalOfFew
<1> HIDE DEF none
<1>4. /\ leased' \in [Renderers -> Seq(Descs)] /\ leased'[r] = none
      /\ \A q \in Renderers \ {r} : leased'[q] = leased[q]
      /\ Total(s) <= inUse /\ BytesHeld(leased') = (inUse - Total(s)) + Total(none)
  BY <1>1, <1>2, LeaseChanges
<1> HIDE DEF s
<1>5. u \in Seq(Descs) /\ Total(u) = Total(free) + Total(s)
  BY <1>2, TotalOfBoth, ConcatProperties
<1> HIDE DEF u
<1>6. inUse' \in Nat /\ reserved' \in Nat /\ BytesHeld(leased') = inUse' /\ reserved' = inUse' + Total(u)
  BY <1>1, <1>2, <1>3, <1>4, <1>5
<1>7. PoolKept(r)
  BY <1>1, <1>2, <1>4, <1>5, <1>6 DEF PoolKept, Accounts
<1>8. QED
  BY <1>4, <1>7 DEF none

LEMMA RenderStep ==
  ASSUME RenderingAssumption, RenderInv, [RenderNext]_renderVars
  PROVE  RenderInv'
<1>1. CASE UNCHANGED renderVars
  BY <1>1 DEF renderVars, RenderInv, RenderShape, Accounts, NothingLeaks, Drawings, LutReadOnce
<1>2. CASE RenderNext
  <2>1. PICK r \in Renderers : \/ \E d \in Descs : RenderBegins(r, d)
                               \/ DrawLayer(r) \/ LayerFails(r) \/ RenderEnds(r) \/ PictureUsed(r)
    BY <1>2 DEF RenderNext
  <2>2. /\ RenderShape /\ Accounts /\ NothingLeaks /\ Drawings /\ LutReadOnce
        /\ stage \in [Renderers -> {"idle", "drawing", "rendered"}] /\ leased \in [Renderers -> Seq(Descs)]
        /\ DOMAIN layers = Renderers /\ DOMAIN drawn = Renderers
        /\ luts \in [LutFiles -> {"unread", "table", "failed"}] /\ reads \in [LutFiles -> Nat]
    BY DEF RenderInv, RenderShape
  <2>3. ASSUME NEW d \in Descs, RenderBegins(r, d) PROVE RenderInv'
    <3>1. stage[r] = "idle" /\ Acquire(r, d) /\ luts' = luts /\ reads' = reads
      BY <2>3 DEF RenderBegins
    <3>2. leased[r] = <<>>
      BY <2>2, <3>1 DEF NothingLeaks
    <3>3. PoolKept(r)
      BY <2>2, <3>1, <3>2, AcquireKeeps
    <3>4. PICK p : \/ /\ leased'[r] # <<>> /\ stage' = [stage EXCEPT ![r] = "drawing"]
                      /\ layers' = [layers EXCEPT ![r] = Gather(p)] /\ drawn' = [drawn EXCEPT ![r] = 0]
                   \/ leased'[r] = <<>> /\ stage' = stage /\ layers' = layers /\ drawn' = drawn
      BY <2>3 DEF RenderBegins, Acquired
    <3> DEFINE w == Gather(p)
    <3>5. Gathered(w)
      BY GatherInOrder
    <3> HIDE DEF w
    <3>6. stage' \in [Renderers -> {"idle", "drawing", "rendered"}] /\ DOMAIN layers' = Renderers /\ DOMAIN drawn' = Renderers
      BY <2>2, <3>4
    <3>7. RenderShape' /\ Accounts'
      BY <2>2, <3>1, <3>3, <3>6 DEF RenderShape, PoolKept
    <3>8. NothingLeaks'
      BY <2>2, <3>1, <3>3, <3>4 DEF NothingLeaks, PoolKept
    <3>9. Drawings'
      BY <2>2, <3>4, <3>5 DEF Drawings, w
    <3>10. LutReadOnce'
      BY <2>2, <3>1 DEF LutReadOnce
    <3>11. QED
      BY <3>7, <3>8, <3>9, <3>10 DEF RenderInv
  <2>4. ASSUME DrawLayer(r) PROVE RenderInv'
    <3>1. UNCHANGED <<free, leased, reserved, inUse, stage, layers>> /\ drawn' = [drawn EXCEPT ![r] = @ + 1]
      BY <2>4 DEF DrawLayer
    <3>2. PICK path : LutFor(path)
      BY <2>4 DEF DrawLayer
    <3>3. \/ luts' = luts /\ reads' = reads
          \/ /\ luts[path] = "unread" /\ reads' = [reads EXCEPT ![path] = @ + 1]
             /\ \E found \in {"table", "failed"} : luts' = [luts EXCEPT ![path] = found]
      BY <3>2 DEF LutFor
    <3>4. /\ luts' \in [LutFiles -> {"unread", "table", "failed"}] /\ reads' \in [LutFiles -> Nat]
          /\ LutReadOnce'
      <4>1. CASE luts' = luts /\ reads' = reads
        BY <2>2, <4>1 DEF LutReadOnce
      <4>2. CASE luts[path] = "unread" /\ reads' = [reads EXCEPT ![path] = @ + 1]
                 /\ \E found \in {"table", "failed"} : luts' = [luts EXCEPT ![path] = found]
        <5>1. PICK found \in {"table", "failed"} : luts' = [luts EXCEPT ![path] = found]
          BY <4>2
        <5>2. luts' \in [LutFiles -> {"unread", "table", "failed"}] /\ reads' \in [LutFiles -> Nat]
          <6>1. luts' \in [LutFiles -> {"unread", "table", "failed"}]
            BY <2>2, <5>1
          <6>2. reads' \in [LutFiles -> Nat]
            <7>1. \A f \in LutFiles : reads[f] \in Nat /\ reads[f] + 1 \in Nat
              BY <2>2
            <7>2. reads' = [f \in LutFiles |-> IF f = path THEN reads[f] + 1 ELSE reads[f]]
              BY <2>2, <4>2
            <7>3. QED
              BY <7>1, <7>2
          <6>3. QED
            BY <6>1, <6>2
        <5>3. ASSUME NEW f \in LutFiles PROVE reads'[f] <= 1 /\ (reads'[f] = 0 <=> luts'[f] = "unread")
          <6>1. CASE f = path
            <7>1. reads[f] = 0
              BY <2>2, <4>2, <6>1 DEF LutReadOnce
            <7>2. reads'[f] = reads[f] + 1 /\ luts'[f] = found
              BY <2>2, <4>2, <5>1, <6>1
            <7>3. QED
              BY <7>1, <7>2
          <6>2. CASE f # path
            <7>1. reads'[f] = reads[f] /\ luts'[f] = luts[f]
              BY <2>2, <4>2, <5>1, <6>2
            <7>2. QED
              BY <2>2, <7>1 DEF LutReadOnce
          <6>3. QED
            BY <6>1, <6>2
        <5>4. QED
          BY <5>2, <5>3 DEF LutReadOnce
      <4>3. QED
        BY <3>3, <4>1, <4>2
    <3>5. DOMAIN drawn' = Renderers
      BY <2>2, <3>1
    <3>6. RenderShape'
      BY <2>2, <3>1, <3>4, <3>5 DEF RenderShape
    <3>7. Accounts' /\ NothingLeaks' /\ Drawings'
      BY <2>2, <3>1 DEF Accounts, NothingLeaks, Drawings
    <3>8. QED
      BY <3>4, <3>6, <3>7 DEF RenderInv
  <2>5. ASSUME GiveBack(r), Goes(r, "idle"), luts' = luts, reads' = reads PROVE RenderInv'
    <3>1. PoolKept(r) /\ leased'[r] = <<>>
      BY <2>2, <2>5, GiveBackKeeps
    <3>2. /\ stage' = [stage EXCEPT ![r] = "idle"]
          /\ layers' = [layers EXCEPT ![r] = <<>>] /\ drawn' = [drawn EXCEPT ![r] = 0]
      BY <2>5 DEF Goes
    <3>3. stage' \in [Renderers -> {"idle", "drawing", "rendered"}] /\ DOMAIN layers' = Renderers /\ DOMAIN drawn' = Renderers
      BY <2>2, <3>2
    <3>4. RenderShape' /\ Accounts'
      BY <2>2, <2>5, <3>1, <3>3 DEF RenderShape, PoolKept
    <3>5. NothingLeaks'
      BY <2>2, <3>1, <3>2 DEF NothingLeaks, PoolKept
    <3>6. Drawings'
      BY <2>2, <3>2 DEF Drawings
    <3>7. LutReadOnce'
      BY <2>2, <2>5 DEF LutReadOnce
    <3>8. QED
      BY <3>4, <3>5, <3>6, <3>7 DEF RenderInv
  <2>6. ASSUME RenderEnds(r) PROVE RenderInv'
    <3>1. /\ stage[r] = "drawing" /\ stage' = [stage EXCEPT ![r] = "rendered"]
          /\ layers' = [layers EXCEPT ![r] = <<>>] /\ drawn' = [drawn EXCEPT ![r] = 0]
          /\ UNCHANGED <<free, leased, reserved, inUse, luts, reads>>
      BY <2>6 DEF RenderEnds, Goes
    <3>2. RenderShape'
      BY <2>2, <3>1 DEF RenderShape
    <3>3. Accounts' /\ LutReadOnce'
      BY <2>2, <3>1 DEF Accounts, LutReadOnce
    <3>4. NothingLeaks'
      BY <2>2, <3>1 DEF NothingLeaks
    <3>5. Drawings'
      BY <2>2, <3>1 DEF Drawings
    <3>6. QED
      BY <3>2, <3>3, <3>4, <3>5 DEF RenderInv
  <2>7. QED
    BY <2>1, <2>3, <2>4, <2>5, <2>6 DEF LayerFails, PictureUsed
<1>3. QED
  BY <1>1, <1>2

-----------------------------------------------------------------------------------
(* The sound device. *)

CallShape ==
  /\ sinkCall \in [what : {"none", "connecting", "counting", "writing"}, left : Nat, waits : Nat,
                   recovered : BOOLEAN]
  /\ sinkCall.what = "none" => sinkCall = Idle

SinkShape ==
  /\ kind \in {"pipewire", "alsa", "null"} /\ chosen \in BOOLEAN /\ active \in BOOLEAN
  /\ held \subseteq {"loop", "stream", "thread", "pcm"} /\ stream \subseteq {"streaming", "failed"}
  /\ queued \in 0..Capacity
  /\ counted \in Nat /\ overflow \in Nat /\ offered \in Nat /\ played \in Nat /\ emitted \in Nat
  /\ reading[1] \in Nat /\ reading[2] \in Nat

(* Before a sink is chosen nothing has been given to one.                          *)
Untouched ==
  ~chosen => /\ queued = 0 /\ played = 0 /\ emitted = 0
             /\ counted = 0 /\ overflow = 0 /\ offered = 0 /\ reading = <<0, 0>>

(* Which calls, resources and frames go with which sink.                           *)
OfItsKind ==
  /\ sinkCall.what = "connecting" =>
       /\ kind = "pipewire" /\ ~active /\ queued = 0
       /\ played = 0 /\ emitted = 0 /\ counted = 0 /\ overflow = 0 /\ offered = 0 /\ reading = <<0, 0>>
  /\ sinkCall.what = "counting" => kind = "pipewire" /\ active /\ chosen
  /\ sinkCall.what = "writing" => kind = "alsa" /\ active /\ chosen
  /\ "thread" \in held => kind = "pipewire" /\ "pcm" \notin held
  /\ "pcm" \in held => kind = "alsa"
  /\ kind = "null" => chosen /\ held = {} /\ queued = 0
  /\ ~active /\ sinkCall.what = "none" => held = {} /\ queued = 0

Uncounted == IF sinkCall.what = "counting" THEN sinkCall.left ELSE 0

(* Where the frames are, also in the middle of a call.                             *)
Where ==
  /\ sinkCall.what \in {"none", "connecting"} => offered = counted + overflow
  /\ sinkCall.what = "counting" => offered >= counted + overflow + sinkCall.left
  /\ sinkCall.what = "writing" => offered = counted + overflow + sinkCall.left
  /\ kind = "pipewire" =>
       /\ played = emitted /\ played + queued <= counted + Uncounted
       /\ active => played + queued = counted + Uncounted
  /\ kind = "alsa" => queued <= counted

(* What the clock has shown, what it shows and what it may show.                   *)
Clock ==
  /\ reading[1] <= reading[2] /\ reading[2] <= played
  /\ kind # "pipewire" => played <= counted
  /\ sinkCall.what = "counting" => reading[2] <= counted + sinkCall.left
  /\ kind = "null" => /\ played <= Smaller(emitted, counted)
                      /\ ~active => played = Smaller(emitted, counted)

SinkInv == CallShape /\ SinkShape /\ Untouched /\ OfItsKind /\ Where /\ Clock

-----------------------------------------------------------------------------------
LEMMA SinkStart == ASSUME SinkAssumption, SinkInit PROVE SinkInv
<1>1. CallShape /\ Untouched
  BY DEF SinkInit, CallShape, Untouched, Idle
<1>3. SinkShape
  <2>1. /\ queued \in 0..Capacity /\ reading[1] \in Nat /\ reading[2] \in Nat
        /\ counted \in Nat /\ overflow \in Nat /\ offered \in Nat /\ played \in Nat /\ emitted \in Nat
    BY DEF SinkAssumption, SinkInit
  <2>2. /\ kind \in {"pipewire", "alsa", "null"} /\ chosen \in BOOLEAN /\ active \in BOOLEAN
        /\ held \subseteq {"loop", "stream", "thread", "pcm"} /\ stream \subseteq {"streaming", "failed"}
    BY DEF SinkInit
  <2>3. QED
    BY <2>1, <2>2 DEF SinkShape
<1>2. OfItsKind /\ Where /\ Clock
  BY DEF SinkAssumption, SinkInit, Idle, OfItsKind, Where, Clock, Uncounted
<1>4. QED
  BY <1>1, <1>2, <1>3 DEF SinkInv

(* A call that ends, or goes on as it was.                                         *)
LEMMA CallEnds ==
  ASSUME CallShape, sinkCall' = Idle \/ sinkCall' = sinkCall
  PROVE  CallShape'
<1>1. Idle \in [what : {"none", "connecting", "counting", "writing"}, left : Nat, waits : Nat,
                 recovered : BOOLEAN]
  BY DEF Idle
<1>2. CASE sinkCall' = Idle
  BY <1>1, <1>2 DEF CallShape
<1>3. CASE sinkCall' = sinkCall
  BY <1>3 DEF CallShape
<1>4. QED
  BY <1>2, <1>3

LEMMA SinkPromise == ASSUME SinkInv PROVE SinksSound
<1>1. ClockHonest
  BY DEF SinkInv, CallShape, SinkShape, Where, Clock, Uncounted, ClockHonest, Idle
<1>2. FramesAccounted
  BY DEF SinkInv, CallShape, SinkShape, Where, Uncounted, FramesAccounted, Idle
<1>3. StoppedIsReleased
  BY DEF SinkInv, CallShape, SinkShape, OfItsKind, Where, Clock, StoppedIsReleased, Idle
<1>4. QED
  BY <1>1, <1>2, <1>3 DEF SinksSound

LEMMA SinkStep == ASSUME SinkAssumption, SinkInv, [SinkNext]_sinkVars PROVE SinkInv'
<1> USE DEF SinkInv, SinkAssumption, Smaller
<1>1. CASE StartPipeWire
  <2>0. CallShape'
    BY <1>1 DEF StartPipeWire, MayStart, Reset, NotStarted, Built, Teardown, Idle,
       CallShape, SinkShape
  <2>1. SinkShape'
    <3>1. /\ queued' \in 0..Capacity /\ reading'[1] \in Nat /\ reading'[2] \in Nat
          /\ counted' \in Nat /\ overflow' \in Nat /\ offered' \in Nat /\ played' \in Nat /\ emitted' \in Nat
      BY <1>1 DEF StartPipeWire, MayStart, Reset, SinkShape
    <3>2. kind' \in {"pipewire", "alsa", "null"} /\ chosen' \in BOOLEAN /\ active' \in BOOLEAN
      BY <1>1 DEF StartPipeWire, MayStart, NotStarted, SinkShape
    <3>3. held' \subseteq {"loop", "stream", "thread", "pcm"}
      <4>1. held' = {} \/ held' = {"loop", "stream", "thread"}
        BY <1>1 DEF StartPipeWire, Built, Teardown
      <4>2. QED
        BY <4>1
    <3>4. stream' = {}
      BY <1>1 DEF StartPipeWire
    <3>5. QED
      BY <3>1, <3>2, <3>3, <3>4 DEF SinkShape
  <2>2. Untouched'
    BY <1>1 DEF StartPipeWire, MayStart, Reset, NotStarted, Built, Teardown, Idle,
       CallShape, SinkShape, Untouched, OfItsKind
  <2>3. OfItsKind'
    BY <1>1 DEF StartPipeWire, MayStart, Reset, NotStarted, Built, Teardown, Idle,
       CallShape, SinkShape, Untouched, OfItsKind, Where
  <2>4. Where'
    BY <1>1 DEF StartPipeWire, MayStart, Reset, NotStarted, Built, Teardown, Idle,
       CallShape, SinkShape, Untouched, OfItsKind, Where, Uncounted
  <2>5. Clock'
    BY <1>1 DEF StartPipeWire, MayStart, Reset, NotStarted, Built, Teardown, Idle,
       CallShape, SinkShape, Untouched, OfItsKind, Where, Clock, Uncounted
  <2>6. QED
    BY <2>0, <2>1, <2>2, <2>3, <2>4, <2>5
<1>2. CASE StartAlsa
  <2>0. CallShape'
    BY <1>2 DEF StartAlsa, MayStart, Reset, NotStarted, Idle, deviceVars, counters,
       CallShape, SinkShape
  <2>1. SinkShape'
    <3>1. /\ queued' \in 0..Capacity /\ reading'[1] \in Nat /\ reading'[2] \in Nat
          /\ counted' \in Nat /\ overflow' \in Nat /\ offered' \in Nat /\ played' \in Nat /\ emitted' \in Nat
      BY <1>2 DEF StartAlsa, MayStart, Reset, deviceVars, counters, SinkShape
    <3>2. /\ kind' \in {"pipewire", "alsa", "null"} /\ chosen' \in BOOLEAN /\ active' \in BOOLEAN
          /\ held' \subseteq {"loop", "stream", "thread", "pcm"} /\ stream' \subseteq {"streaming", "failed"}
      BY <1>2 DEF StartAlsa, MayStart, NotStarted, SinkShape
    <3>3. QED
      BY <3>1, <3>2 DEF SinkShape
  <2>2. Untouched'
    BY <1>2 DEF StartAlsa, MayStart, Reset, NotStarted, Idle, deviceVars, counters,
       CallShape, SinkShape, Untouched, OfItsKind
  <2>3. OfItsKind'
    BY <1>2 DEF StartAlsa, MayStart, Reset, NotStarted, Idle, deviceVars, counters,
       CallShape, SinkShape, Untouched, OfItsKind, Where
  <2>4. Where'
    BY <1>2 DEF StartAlsa, MayStart, Reset, NotStarted, Idle, deviceVars, counters,
       CallShape, SinkShape, Untouched, OfItsKind, Where, Uncounted
  <2>5. Clock'
    BY <1>2 DEF StartAlsa, MayStart, Reset, NotStarted, Idle, deviceVars, counters,
       CallShape, SinkShape, Untouched, OfItsKind, Where, Clock, Uncounted
  <2>6. QED
    BY <2>0, <2>1, <2>2, <2>3, <2>4, <2>5
<1>3. CASE StartNull
  <2>0. CallShape'
    BY <1>3 DEF StartNull, MayStart, Reset, Idle,
       CallShape, SinkShape
  <2>1. SinkShape'
    BY <1>3 DEF StartNull, MayStart, Reset, Idle,
       CallShape, SinkShape, Untouched, OfItsKind, Where
  <2>2. Untouched'
    BY <1>3 DEF StartNull, MayStart, Reset, Idle,
       CallShape, SinkShape, Untouched, OfItsKind
  <2>3. OfItsKind'
    BY <1>3 DEF StartNull, MayStart, Reset, Idle,
       CallShape, SinkShape, Untouched, OfItsKind, Where
  <2>4. Where'
    BY <1>3 DEF StartNull, MayStart, Reset, Idle,
       CallShape, SinkShape, Untouched, OfItsKind, Where, Uncounted
  <2>5. Clock'
    BY <1>3 DEF StartNull, MayStart, Reset, Idle,
       CallShape, SinkShape, Untouched, OfItsKind, Where, Clock, Uncounted
  <2>6. QED
    BY <2>0, <2>1, <2>2, <2>3, <2>4, <2>5
<1>4. ASSUME NEW s \in {"streaming", "error", "unconnected"}, OnStateChanged(s) PROVE SinkInv'
  <2>0. CallShape'
    BY <1>4 DEF OnStateChanged, deviceVars, counters,
       CallShape, SinkShape
  <2>1. SinkShape'
    BY <1>4 DEF OnStateChanged, deviceVars, counters,
       CallShape, SinkShape, Untouched, OfItsKind, Where
  <2>2. Untouched'
    BY <1>4 DEF OnStateChanged, deviceVars, counters,
       CallShape, SinkShape, Untouched, OfItsKind
  <2>3. OfItsKind'
    BY <1>4 DEF OnStateChanged, deviceVars, counters,
       CallShape, SinkShape, Untouched, OfItsKind, Where
  <2>4. Where'
    BY <1>4 DEF OnStateChanged, deviceVars, counters,
       CallShape, SinkShape, Untouched, OfItsKind, Where, Uncounted
  <2>5. Clock'
    BY <1>4 DEF OnStateChanged, deviceVars, counters,
       CallShape, SinkShape, Untouched, OfItsKind, Where, Clock, Uncounted
  <2>6. QED
    BY <2>0, <2>1, <2>2, <2>3, <2>4, <2>5
<1>5. CASE Connected
  <2>0. CallShape'
    <3>1. sinkCall' = Idle
      BY <1>5 DEF Connected, NotStarted
    <3>2. QED
      BY <3>1, CallEnds
  <2>1. SinkShape'
    BY <1>5 DEF Connected, NotStarted, Teardown, Idle, deviceVars, counters,
       CallShape, SinkShape, Untouched, OfItsKind, Where
  <2>2. Untouched'
    BY <1>5 DEF Connected, NotStarted, Teardown, Idle, deviceVars, counters,
       CallShape, SinkShape, Untouched, OfItsKind
  <2>3. OfItsKind'
    <3>1. CASE "streaming" \in stream
      BY <1>5, <3>1 DEF Connected, Idle, deviceVars, counters, CallShape, SinkShape, Untouched, OfItsKind
    <3>2. CASE "streaming" \notin stream
      <4>1. held' = {}
        BY <1>5, <3>2 DEF Connected, Teardown, OfItsKind, SinkShape
      <4>2. QED
        BY <1>5, <3>2, <4>1 DEF Connected, NotStarted, Idle, deviceVars, counters, CallShape, SinkShape, Untouched, OfItsKind
    <3>3. QED
      BY <3>1, <3>2
  <2>4. Where'
    BY <1>5 DEF Connected, NotStarted, Teardown, Idle, deviceVars, counters,
       CallShape, SinkShape, Untouched, OfItsKind, Where, Uncounted
  <2>5. Clock'
    BY <1>5 DEF Connected, NotStarted, Teardown, Idle, deviceVars, counters,
       CallShape, SinkShape, Untouched, OfItsKind, Where, Clock, Uncounted
  <2>6. QED
    BY <2>0, <2>1, <2>2, <2>3, <2>4, <2>5
<1>6. ASSUME NEW n \in BufferSizes, OnProcess(n) PROVE SinkInv'
  <2>0. CallShape'
    BY <1>6 DEF OnProcess, counters,
       CallShape, SinkShape
  <2>1. SinkShape'
    BY <1>6 DEF OnProcess, counters,
       CallShape, SinkShape, Untouched, OfItsKind, Where
  <2>2. Untouched'
    BY <1>6 DEF OnProcess, counters,
       CallShape, SinkShape, Untouched, OfItsKind
  <2>3. OfItsKind'
    BY <1>6 DEF OnProcess, counters,
       CallShape, SinkShape, Untouched, OfItsKind, Where
  <2>4. Where'
    BY <1>6 DEF OnProcess, counters,
       CallShape, SinkShape, Untouched, OfItsKind, Where, Uncounted
  <2>5. Clock'
    BY <1>6 DEF OnProcess, counters,
       CallShape, SinkShape, Untouched, OfItsKind, Where, Clock, Uncounted
  <2>6. QED
    BY <2>0, <2>1, <2>2, <2>3, <2>4, <2>5
<1>7. CASE HardwarePlays
  <2>0. CallShape'
    BY <1>7 DEF HardwarePlays, counters,
       CallShape, SinkShape
  <2>1. SinkShape'
    BY <1>7 DEF HardwarePlays, counters,
       CallShape, SinkShape, Untouched, OfItsKind, Where
  <2>2. Untouched'
    BY <1>7 DEF HardwarePlays, counters,
       CallShape, SinkShape, Untouched, OfItsKind
  <2>3. OfItsKind'
    BY <1>7 DEF HardwarePlays, counters,
       CallShape, SinkShape, Untouched, OfItsKind, Where
  <2>4. Where'
    BY <1>7 DEF HardwarePlays, counters,
       CallShape, SinkShape, Untouched, OfItsKind, Where, Uncounted
  <2>5. Clock'
    BY <1>7 DEF HardwarePlays, counters,
       CallShape, SinkShape, Untouched, OfItsKind, Where, Clock, Uncounted
  <2>6. QED
    BY <2>0, <2>1, <2>2, <2>3, <2>4, <2>5
<1>8. CASE TimePasses
  <2>0. CallShape'
    BY <1>8 DEF TimePasses, counters,
       CallShape, SinkShape
  <2>1. SinkShape'
    BY <1>8 DEF TimePasses, counters,
       CallShape, SinkShape, Untouched, OfItsKind, Where
  <2>2. Untouched'
    BY <1>8 DEF TimePasses, counters,
       CallShape, SinkShape, Untouched, OfItsKind
  <2>3. OfItsKind'
    BY <1>8 DEF TimePasses, counters,
       CallShape, SinkShape, Untouched, OfItsKind, Where
  <2>4. Where'
    BY <1>8 DEF TimePasses, counters,
       CallShape, SinkShape, Untouched, OfItsKind, Where, Uncounted
  <2>5. Clock'
    BY <1>8 DEF TimePasses, counters,
       CallShape, SinkShape, Untouched, OfItsKind, Where, Clock, Uncounted
  <2>6. QED
    BY <2>0, <2>1, <2>2, <2>3, <2>4, <2>5
<1>9. ASSUME NEW n \in BufferSizes, SubmitNull(n) PROVE SinkInv'
  <2>0. CallShape'
    BY <1>9 DEF SubmitNull, MaySubmit, deviceVars, Idle,
       CallShape, SinkShape
  <2>1. SinkShape'
    BY <1>9 DEF SubmitNull, MaySubmit, deviceVars, Idle,
       CallShape, SinkShape, Untouched, OfItsKind, Where
  <2>2. Untouched'
    BY <1>9 DEF SubmitNull, MaySubmit, deviceVars, Idle,
       CallShape, SinkShape, Untouched, OfItsKind
  <2>3. OfItsKind'
    BY <1>9 DEF SubmitNull, MaySubmit, deviceVars, Idle,
       CallShape, SinkShape, Untouched, OfItsKind, Where
  <2>4. Where'
    BY <1>9 DEF SubmitNull, MaySubmit, deviceVars, Idle,
       CallShape, SinkShape, Untouched, OfItsKind, Where, Uncounted
  <2>5. Clock'
    BY <1>9 DEF SubmitNull, MaySubmit, deviceVars, Idle,
       CallShape, SinkShape, Untouched, OfItsKind, Where, Clock, Uncounted
  <2>6. QED
    BY <2>0, <2>1, <2>2, <2>3, <2>4, <2>5
<1>10. ASSUME NEW n \in BufferSizes, SubmitPipeWire(n) PROVE SinkInv'
  <2>0. CallShape'
    <3> DEFINE k == Smaller(Capacity - queued, n)
    <3>1. k \in Nat /\ sinkCall' = [Idle EXCEPT !.what = "counting", !.left = k]
      BY <1>10 DEF SubmitPipeWire, SinkShape
    <3> HIDE DEF k
    <3>2. QED
      BY <3>1 DEF CallShape, Idle
  <2>1. SinkShape'
    BY <1>10 DEF SubmitPipeWire, MaySubmit, Idle,
       CallShape, SinkShape, Untouched, OfItsKind, Where
  <2>2. Untouched'
    BY <1>10 DEF SubmitPipeWire, MaySubmit, Idle,
       CallShape, SinkShape, Untouched, OfItsKind
  <2>3. OfItsKind'
    BY <1>10 DEF SubmitPipeWire, MaySubmit, Idle,
       CallShape, SinkShape, Untouched, OfItsKind, Where
  <2>4. Where'
    BY <1>10 DEF SubmitPipeWire, MaySubmit, Idle,
       CallShape, SinkShape, Untouched, OfItsKind, Where, Uncounted
  <2>5. Clock'
    BY <1>10 DEF SubmitPipeWire, MaySubmit, Idle,
       CallShape, SinkShape, Untouched, OfItsKind, Where, Clock, Uncounted
  <2>6. QED
    BY <2>0, <2>1, <2>2, <2>3, <2>4, <2>5
<1>11. CASE Counted
  <2>0. CallShape'
    BY <1>11 DEF Counted, deviceVars, Idle,
       CallShape, SinkShape
  <2>1. SinkShape'
    BY <1>11 DEF Counted, deviceVars, Idle,
       CallShape, SinkShape, Untouched, OfItsKind, Where
  <2>2. Untouched'
    BY <1>11 DEF Counted, deviceVars, Idle,
       CallShape, SinkShape, Untouched, OfItsKind
  <2>3. OfItsKind'
    BY <1>11 DEF Counted, deviceVars, Idle,
       CallShape, SinkShape, Untouched, OfItsKind, Where
  <2>4. Where'
    BY <1>11 DEF Counted, deviceVars, Idle,
       CallShape, SinkShape, Untouched, OfItsKind, Where, Uncounted
  <2>5. Clock'
    BY <1>11 DEF Counted, deviceVars, Idle,
       CallShape, SinkShape, Untouched, OfItsKind, Where, Clock, Uncounted
  <2>6. QED
    BY <2>0, <2>1, <2>2, <2>3, <2>4, <2>5
<1>12. ASSUME NEW n \in BufferSizes, SubmitAlsa(n) PROVE SinkInv'
  <2>0. CallShape'
    BY <1>12 DEF SubmitAlsa, MaySubmit, deviceVars, Idle,
       CallShape, SinkShape
  <2>1. SinkShape'
    BY <1>12 DEF SubmitAlsa, MaySubmit, deviceVars, Idle,
       CallShape, SinkShape, Untouched, OfItsKind, Where
  <2>2. Untouched'
    BY <1>12 DEF SubmitAlsa, MaySubmit, deviceVars, Idle,
       CallShape, SinkShape, Untouched, OfItsKind
  <2>3. OfItsKind'
    BY <1>12 DEF SubmitAlsa, MaySubmit, deviceVars, Idle,
       CallShape, SinkShape, Untouched, OfItsKind, Where
  <2>4. Where'
    BY <1>12 DEF SubmitAlsa, MaySubmit, deviceVars, Idle,
       CallShape, SinkShape, Untouched, OfItsKind, Where, Uncounted
  <2>5. Clock'
    BY <1>12 DEF SubmitAlsa, MaySubmit, deviceVars, Idle,
       CallShape, SinkShape, Untouched, OfItsKind, Where, Clock, Uncounted
  <2>6. QED
    BY <2>0, <2>1, <2>2, <2>3, <2>4, <2>5
<1>13. CASE Writes
  <2>0. CallShape'
    BY <1>13 DEF Writes, Writing,
       CallShape, SinkShape
  <2>1. SinkShape'
    BY <1>13 DEF Writes, Writing,
       CallShape, SinkShape, Untouched, OfItsKind, Where
  <2>2. Untouched'
    BY <1>13 DEF Writes, Writing,
       CallShape, SinkShape, Untouched, OfItsKind
  <2>3. OfItsKind'
    BY <1>13 DEF Writes, Writing,
       CallShape, SinkShape, Untouched, OfItsKind, Where
  <2>4. Where'
    BY <1>13 DEF Writes, Writing,
       CallShape, SinkShape, Untouched, OfItsKind, Where, Uncounted
  <2>5. Clock'
    BY <1>13 DEF Writes, Writing,
       CallShape, SinkShape, Untouched, OfItsKind, Where, Clock, Uncounted
  <2>6. QED
    BY <2>0, <2>1, <2>2, <2>3, <2>4, <2>5
<1>14. CASE WouldBlock
  <2>0. CallShape'
    <3>1. sinkCall' = Idle \/ sinkCall' = [sinkCall EXCEPT !.waits = 0]
      BY <1>14 DEF WouldBlock, GiveUp
    <3>2. CASE sinkCall' = [sinkCall EXCEPT !.waits = 0]
      BY <1>14, <3>2 DEF WouldBlock, Writing, CallShape
    <3>3. QED
      BY <3>1, <3>2, CallEnds
  <2>1. SinkShape'
    BY <1>14 DEF WouldBlock, Writing, GiveUp, deviceVars, Idle,
       CallShape, SinkShape, Untouched, OfItsKind, Where
  <2>2. Untouched'
    BY <1>14 DEF WouldBlock, Writing, GiveUp, deviceVars, Idle,
       CallShape, SinkShape, Untouched, OfItsKind
  <2>3. OfItsKind'
    BY <1>14 DEF WouldBlock, Writing, GiveUp, deviceVars, Idle,
       CallShape, SinkShape, Untouched, OfItsKind, Where
  <2>4. Where'
    BY <1>14 DEF WouldBlock, Writing, GiveUp, deviceVars, Idle,
       CallShape, SinkShape, Untouched, OfItsKind, Where, Uncounted
  <2>5. Clock'
    BY <1>14 DEF WouldBlock, Writing, GiveUp, deviceVars, Idle,
       CallShape, SinkShape, Untouched, OfItsKind, Where, Clock, Uncounted
  <2>6. QED
    BY <2>0, <2>1, <2>2, <2>3, <2>4, <2>5
<1>15. CASE Underrun
  <2>0. CallShape'
    <3>1. sinkCall' = Idle \/ sinkCall' = [sinkCall EXCEPT !.recovered = TRUE]
      BY <1>15 DEF Underrun, GiveUp
    <3>2. CASE sinkCall' = [sinkCall EXCEPT !.recovered = TRUE]
      BY <1>15, <3>2 DEF Underrun, Writing, CallShape
    <3>3. QED
      BY <3>1, <3>2, CallEnds
  <2>1. SinkShape'
    BY <1>15 DEF Underrun, Writing, GiveUp, deviceVars, Idle,
       CallShape, SinkShape, Untouched, OfItsKind, Where
  <2>2. Untouched'
    BY <1>15 DEF Underrun, Writing, GiveUp, deviceVars, Idle,
       CallShape, SinkShape, Untouched, OfItsKind
  <2>3. OfItsKind'
    BY <1>15 DEF Underrun, Writing, GiveUp, deviceVars, Idle,
       CallShape, SinkShape, Untouched, OfItsKind, Where
  <2>4. Where'
    BY <1>15 DEF Underrun, Writing, GiveUp, deviceVars, Idle,
       CallShape, SinkShape, Untouched, OfItsKind, Where, Uncounted
  <2>5. Clock'
    BY <1>15 DEF Underrun, Writing, GiveUp, deviceVars, Idle,
       CallShape, SinkShape, Untouched, OfItsKind, Where, Clock, Uncounted
  <2>6. QED
    BY <2>0, <2>1, <2>2, <2>3, <2>4, <2>5
<1>16. CASE Suspended
  <2>0. CallShape'
    <3>1. sinkCall' = Idle \/ sinkCall' = sinkCall
      BY <1>16 DEF Suspended, GiveUp
    <3>2. QED
      BY <3>1, CallEnds
  <2>1. SinkShape'
    BY <1>16 DEF Suspended, Writing, GiveUp, Idle,
       CallShape, SinkShape, Untouched, OfItsKind, Where
  <2>2. Untouched'
    BY <1>16 DEF Suspended, Writing, GiveUp, Idle,
       CallShape, SinkShape, Untouched, OfItsKind
  <2>3. OfItsKind'
    BY <1>16 DEF Suspended, Writing, GiveUp, Idle,
       CallShape, SinkShape, Untouched, OfItsKind, Where
  <2>4. Where'
    BY <1>16 DEF Suspended, Writing, GiveUp, Idle,
       CallShape, SinkShape, Untouched, OfItsKind, Where, Uncounted
  <2>5. Clock'
    BY <1>16 DEF Suspended, Writing, GiveUp, Idle,
       CallShape, SinkShape, Untouched, OfItsKind, Where, Clock, Uncounted
  <2>6. QED
    BY <2>0, <2>1, <2>2, <2>3, <2>4, <2>5
<1>17. CASE WriteReturns
  <2>0. CallShape'
    BY <1>17 DEF WriteReturns, deviceVars, Idle,
       CallShape, SinkShape
  <2>1. SinkShape'
    BY <1>17 DEF WriteReturns, deviceVars, Idle,
       CallShape, SinkShape, Untouched, OfItsKind, Where
  <2>2. Untouched'
    BY <1>17 DEF WriteReturns, deviceVars, Idle,
       CallShape, SinkShape, Untouched, OfItsKind
  <2>3. OfItsKind'
    BY <1>17 DEF WriteReturns, deviceVars, Idle,
       CallShape, SinkShape, Untouched, OfItsKind, Where
  <2>4. Where'
    BY <1>17 DEF WriteReturns, deviceVars, Idle,
       CallShape, SinkShape, Untouched, OfItsKind, Where, Uncounted
  <2>5. Clock'
    BY <1>17 DEF WriteReturns, deviceVars, Idle,
       CallShape, SinkShape, Untouched, OfItsKind, Where, Clock, Uncounted
  <2>6. QED
    BY <2>0, <2>1, <2>2, <2>3, <2>4, <2>5
<1>18. CASE ReadPosition
  <2>0. CallShape'
    BY <1>18 DEF ReadPosition, Candidates, PlayedFrames, Larger, counters, Idle,
       CallShape, SinkShape
  <2>1. SinkShape'
    BY <1>18 DEF ReadPosition, Candidates, PlayedFrames, Larger, counters, Idle,
       CallShape, SinkShape, Untouched, OfItsKind, Where
  <2>2. Untouched'
    BY <1>18 DEF ReadPosition, Candidates, PlayedFrames, Larger, counters, Idle,
       CallShape, SinkShape, Untouched, OfItsKind
  <2>3. OfItsKind'
    BY <1>18 DEF ReadPosition, Candidates, PlayedFrames, Larger, counters, Idle,
       CallShape, SinkShape, Untouched, OfItsKind, Where
  <2>4. Where'
    BY <1>18 DEF ReadPosition, Candidates, PlayedFrames, Larger, counters, Idle,
       CallShape, SinkShape, Untouched, OfItsKind, Where, Uncounted
  <2>5. Clock'
    BY <1>18 DEF ReadPosition, Candidates, PlayedFrames, Larger, counters, Idle,
       CallShape, SinkShape, Untouched, OfItsKind, Where, Clock, Uncounted
  <2>6. QED
    BY <2>0, <2>1, <2>2, <2>3, <2>4, <2>5
<1>19. CASE StopSink
  <2>0. CallShape'
    BY <1>19 DEF StopSink, PlayedFrames, Larger, counters, Idle,
       CallShape, SinkShape
  <2>1. SinkShape'
    <3>1. /\ queued' \in 0..Capacity /\ reading'[1] \in Nat /\ reading'[2] \in Nat
          /\ counted' \in Nat /\ overflow' \in Nat /\ offered' \in Nat /\ played' \in Nat /\ emitted' \in Nat
      BY <1>19 DEF StopSink, PlayedFrames, Larger, counters, SinkShape
    <3>2. /\ kind' \in {"pipewire", "alsa", "null"} /\ chosen' \in BOOLEAN /\ active' \in BOOLEAN
          /\ held' \subseteq {"loop", "stream", "thread", "pcm"} /\ stream' \subseteq {"streaming", "failed"}
      BY <1>19 DEF StopSink, StopSink, SinkShape
    <3>3. QED
      BY <3>1, <3>2 DEF SinkShape
  <2>2. Untouched'
    BY <1>19 DEF StopSink, PlayedFrames, Larger, counters, Idle,
       CallShape, SinkShape, Untouched, OfItsKind
  <2>3. OfItsKind'
    BY <1>19 DEF StopSink, PlayedFrames, Larger, counters, Idle,
       CallShape, SinkShape, Untouched, OfItsKind, Where
  <2>4. Where'
    BY <1>19 DEF StopSink, PlayedFrames, Larger, counters, Idle,
       CallShape, SinkShape, Untouched, OfItsKind, Where, Uncounted
  <2>5. Clock'
    BY <1>19 DEF StopSink, PlayedFrames, Larger, counters, Idle,
       CallShape, SinkShape, Untouched, OfItsKind, Where, Clock, Uncounted
  <2>6. QED
    BY <2>0, <2>1, <2>2, <2>3, <2>4, <2>5
<1>20. CASE UNCHANGED sinkVars
  BY <1>20 DEF sinkVars, deviceVars, counters, CallShape, SinkShape, Untouched, OfItsKind, Where, Clock, Uncounted
<1>21. QED
  BY <1>1, <1>2, <1>3, <1>4, <1>5, <1>6, <1>7, <1>8, <1>9, <1>10, <1>11, <1>12, <1>13, <1>14, <1>15, <1>16, <1>17, <1>18, <1>19, <1>20 DEF SinkNext, SinkCall

(* What a sink promises the engine, for any buffer, device and order of calls: the *)
(* clock is honest, every frame is counted once, and a stopped sink holds nothing  *)
(* (AlsaAudioSink::submit, PipeWireAudioSink::onProcess, NullAudioSink).           *)
THEOREM SinksAreSound == SinkSpec => []SinksSound
<1>1. SinkInit => SinkInv
  BY SinkStart, SinkAssumption
<1>2. SinkInv /\ [SinkNext]_sinkVars => SinkInv'
  BY SinkStep, SinkAssumption
<1>3. SinkInv => SinksSound
  BY SinkPromise
<1>4. QED
  BY <1>1, <1>2, <1>3, PTL DEF SinkSpec

-----------------------------------------------------------------------------------
(* What is shown and heard. *)

(* What is shown and what is heard, in the run that checks the mixer, the          *)
(* compositor and the device beside the other media parts: pictures composed in    *)
(* order out of frames that are accounted for, no more decoders of sound than the  *)
(* cache may hold, a clock that tells what was played (Compositor::renderAt,       *)
(* FramePool, AudioEngine::ensureAsset, PipeWireAudioSink, AlsaAudioSink).         *)
THEOREM OutputIsSound == MCSpec => []OutputSound
<1>1. MCInit => RenderInv /\ SinkInv /\ MixInv
  BY RenderStart, SinkStart, MixStart, RenderingAssumption, SinkAssumption, MixAssumption DEF MCInit
<1>2. RenderInv /\ SinkInv /\ MixInv /\ [MCNext]_mcVars => (RenderInv /\ SinkInv /\ MixInv)'
  <2>1. [MCNext]_mcVars => [RenderNext]_renderVars /\ [SinkNext]_sinkVars /\ [MixNext]_mixVars
    BY DEF MCNext, mcVars
  <2>2. QED
    BY <2>1, RenderStep, SinkStep, MixStep, RenderingAssumption, SinkAssumption, MixAssumption
<1>3. RenderInv /\ SinkInv /\ MixInv => OutputSound
  BY RenderPromise, SinkPromise, MixPromise DEF OutputSound
<1>4. QED
  BY <1>1, <1>2, <1>3, PTL DEF MCSpec

-----------------------------------------------------------------------------------
(* The types of all parts. *)

LEMMA EncodingTypedStart == ASSUME EncodingInit PROVE EncodingTypeOK
<1> DEFINE none == <<>>
<1>1. none \in Seq({"hardware", "software"}) /\ none \in Seq(1..ChunkSize)
  OBVIOUS
<1>2. opens = none /\ chunks = none
  BY DEF EncodingInit
<1> HIDE DEF none
<1>3. QED
  BY <1>1, <1>2 DEF EncodingInit, EncodingTypeOK

LEMMA EncodingTypedStep ==
  ASSUME EncodingAssumption, EncodingInv, EncodingTypeOK, [EncodingNext]_encodingVars
  PROVE  EncodingTypeOK'
<1> USE DEF EncodingTypeOK
<1>1. CASE UNCHANGED encodingVars
  BY <1>1 DEF encodingVars
<1>2. CASE SelectSoftware \/ ProbeRefuses
  BY <1>2 DEF SelectSoftware, ProbeRefuses, Choose, counts
<1>3. CASE InitSucceeds \/ InitFails
  <2>1. tries \in Nat /\ tries' = tries + 1
    BY <1>3 DEF InitSucceeds, InitFails
  <2>2. tries' \in Nat
    BY <2>1
  <2>3. UNCHANGED <<opens, output, rendered, submitted, fifo, chunks, result>>
    BY <1>3 DEF InitSucceeds, InitFails, Choose, counts
  <2>4. /\ phase' \in {"choosing", "opening", "rendering", "sounding", "ended"}
        /\ route' \in {"none", "hardware", "software"}
    BY <1>3 DEF InitSucceeds, InitFails, Choose
  <2>5. QED
    BY <2>2, <2>3, <2>4
<1>4. CASE Rejected
  BY <1>4 DEF Rejected, End, counts
<1>5. CASE Opened \/ OpenFails
  <2>1. route \in {"hardware", "software"}
    BY <1>5 DEF Opened, OpenFails, EncodingInv, OnTheWay
  <2>2. opens' = Append(opens, route)
    BY <1>5 DEF Opened, OpenFails
  <2>3. opens' \in Seq({"hardware", "software"})
    BY <2>1, <2>2
  <2>4. UNCHANGED <<tries, rendered, submitted, fifo, chunks>>
    BY <1>5 DEF Opened, OpenFails, counts
  <2>5. /\ phase' \in {"choosing", "opening", "rendering", "sounding", "ended"}
        /\ route' \in {"none", "hardware", "software"}
        /\ output' \in {"none", "older", "partial", "whole"}
        /\ result' \in {"none", "rejected", "failed", "cancelled", "ok"}
    BY <1>5 DEF Opened, OpenFails, End
  <2>6. QED
    BY <2>3, <2>4, <2>5
<1>6. CASE Stops("cancelled") \/ Stops("failed") \/ FinishFails
  BY <1>6 DEF Stops, FinishFails, End, counts
<1>7. CASE RenderFrame
  <2>1. rendered' \in Nat
    BY <1>7 DEF RenderFrame
  <2>2. QED
    BY <1>7, <2>1 DEF RenderFrame
<1>8. CASE MixInterval
  <2> DEFINE samples == IntervalSamples(rendered - 1)
             whole == (fifo + samples) \div ChunkSize
             more == [n \in 1..whole |-> ChunkSize]
  <2>1. ChunkSize \in Nat \ {0} /\ chunks \in Seq(1..ChunkSize)
    BY DEF EncodingAssumption
  <2>2. chunks' = chunks \o more
    BY <1>8 DEF MixInterval
  <2>3. submitted' \in Nat /\ fifo' \in Nat
    <3>1. EncodingInv'
      BY <1>8, EncodingStep DEF EncodingNext
    <3>2. QED
      BY <3>1 DEF EncodingInv, Chunked
  <2>4. whole \in Nat
    <3>1. samples \in Nat /\ fifo \in Nat
      <4>1. rendered - 1 \in Nat
        BY <1>8 DEF MixInterval, EncodingInv, Timed
      <4>2. QED
        BY <4>1, Interval DEF EncodingInv, Chunked
    <3> HIDE DEF samples
    <3>2. fifo + samples \in Nat
      BY <3>1
    <3>3. QED
      BY <2>1, <3>2, Floor
  <2> HIDE DEF whole
  <2>5. more \in Seq(1..ChunkSize)
    BY <2>1, <2>4
  <2> HIDE DEF more
  <2>6. chunks' \in Seq(1..ChunkSize)
    BY <2>1, <2>2, <2>5
  <2>7. QED
    BY <1>8, <2>3, <2>6 DEF MixInterval
<1>9. CASE Finish
  <2>1. /\ fifo \in Nat /\ fifo < ChunkSize /\ ChunkSize \in Nat /\ chunks \in Seq(1..ChunkSize)
        /\ fifo' = 0 /\ chunks' = (IF fifo > 0 THEN Append(chunks, fifo) ELSE chunks)
    BY <1>9 DEF EncodingInv, Chunked, EncodingAssumption, Finish
  <2>2. chunks' \in Seq(1..ChunkSize)
    <3>1. CASE fifo > 0
      <4>1. fifo \in 1..ChunkSize /\ chunks' = Append(chunks, fifo)
        BY <2>1, <3>1
      <4> DEFINE R == 1..ChunkSize
      <4>2. chunks \in Seq(R) /\ fifo \in R
        BY <2>1, <4>1
      <4> HIDE DEF R
      <4>3. chunks' \in Seq(R)
        BY <4>1, <4>2
      <4>4. QED
        BY <4>3 DEF R
    <3>2. QED
      BY <2>1, <3>1
  <2>3. QED
    BY <1>9, <2>2 DEF Finish, End
<1>10. QED
  BY <1>1, <1>2, <1>3, <1>4, <1>5, <1>6, <1>7, <1>8, <1>9 DEF EncodingNext

-----------------------------------------------------------------------------------
LEMMA DecodingTypedStart == ASSUME DecodingAssumption, DecodingInit PROVE DecodingTypeOK
<1>1. Len(Packets) \in Nat
  BY Decodable
<1> DEFINE none == <<>>
<1>2. none \in Seq(DOMAIN Packets)
  OBVIOUS
<1>3. \A s \in Streams : reader[s].next = 1 /\ reader[s].held = none /\ reader[s].draining = FALSE
  BY DEF DecodingInit
<1> HIDE DEF none
<1>4. \A s \in Streams : reader[s].next \in 1..Len(Packets) + 1
  BY <1>1, <1>3
<1>5. call \in [on : Streams \cup {"none"}, attempt : 0..2] /\ hardware \in BOOLEAN /\ opened \in BOOLEAN
  <2>1. call = NoCall /\ hardware \in BOOLEAN /\ opened = FALSE
    BY DEF DecodingInit
  <2>2. NoCall \in [on : Streams \cup {"none"}, attempt : 0..2]
    BY DEF NoCall
  <2>3. QED
    BY <2>1, <2>2
<1>6. QED
  BY <1>2, <1>3, <1>4, <1>5 DEF DecodingTypeOK

LEMMA DecodingTypedStep ==
  ASSUME DecodingAssumption, DecodingInv, DecodingTypeOK, [DecodingNext]_decodingVars
  PROVE  DecodingTypeOK'
<1> DEFINE Newest == Len(Packets) + 1
           Placed(e) == e.next \in 1..Newest /\ e.draining \in BOOLEAN
<1>1. Len(Packets) \in Nat /\ DOMAIN Packets = Numbered
  BY Decodable
<1>2. DecodingInv'
  BY DecodingStep
<1>3. \A s \in Streams : reader'[s].held \in Seq(DOMAIN Packets)
  BY <1>1, <1>2 DEF DecodingInv, Cursors
<1>4. (\A s \in Streams : Placed(reader[s])) /\ (\A s \in Streams : reader[s].next \in Nat)
  BY DEF DecodingTypeOK, DecodingInv, Cursors
<1>5. call \in [on : Streams \cup {"none"}, attempt : 0..2] /\ hardware \in BOOLEAN /\ opened \in BOOLEAN
  BY DEF DecodingTypeOK
<1>6. reader = [s \in Streams |-> reader[s]]
      /\ \A s \in Streams : reader[s] = [next |-> reader[s].next, held |-> reader[s].held, draining |-> reader[s].draining]
  BY DEF DecodingInv, Cursors
<1>7. NoCall \in [on : Streams \cup {"none"}, attempt : 0..2]
  BY DEF NoCall
<1>8. SUFFICES /\ \A s \in Streams : Placed(reader'[s])
               /\ call' \in [on : Streams \cup {"none"}, attempt : 0..2]
               /\ hardware' \in BOOLEAN /\ opened' \in BOOLEAN
  BY <1>3 DEF DecodingTypeOK
<1> HIDE DEF Newest
<1>9. ASSUME NEW s \in Streams, Received(s)
      PROVE  \A t \in Streams : Placed(reader'[t])
  <2>1. reader' = [reader EXCEPT ![s].held = Tail(@)]
    BY <1>9 DEF Received
  <2>2. QED
    BY <1>4, <1>6, <2>1
<1>10. ASSUME NEW s \in Streams, Needs(s), reader[s].next <= Len(Packets), NEW h,
              reader' = [reader EXCEPT ![s].next = reader[s].next + 1, ![s].held = h]
       PROVE  \A t \in Streams : Placed(reader'[t])
  <2>1. reader[s].next + 1 \in 1..Newest
    BY <1>1, <1>4, <1>10 DEF Newest
  <2>2. QED
    BY <1>4, <1>6, <1>10, <2>1
<1>11. ASSUME NEW s \in Streams, ReadsOn(s)
       PROVE  \A t \in Streams : Placed(reader'[t])
  <2>1. CASE reader[s].next > Len(Packets)
    <3>1. reader' = [reader EXCEPT ![s].draining = TRUE]
      BY <1>11, <2>1 DEF ReadsOn
    <3>2. QED
      <4>1. SUFFICES ASSUME NEW t \in Streams PROVE Placed(reader'[t])
        OBVIOUS
      <4>2. CASE t = s
        <5>1. reader'[t] = [reader[t] EXCEPT !.draining = TRUE]
          BY <1>6, <3>1, <4>2
        <5>2. reader[t] = [next |-> reader[t].next, held |-> reader[t].held, draining |-> reader[t].draining]
          BY <1>6
        <5>3. reader'[t] = [next |-> reader[t].next, held |-> reader[t].held, draining |-> TRUE]
          BY <5>1, <5>2
        <5>4. QED
          BY <1>4, <5>3
      <4>3. CASE t # s
        <5>1. reader'[t] = reader[t]
          BY <1>6, <3>1, <4>3
        <5>2. QED
          BY <1>4, <5>1
      <4>4. QED
        BY <4>2, <4>3
  <2>2. CASE ~(reader[s].next > Len(Packets))
    <3> DEFINE n == reader[s].next
               h == IF Packets[n].stream = s THEN Append(reader[s].held, n) ELSE reader[s].held
    <3>1. reader' = [reader EXCEPT ![s].next = n + 1, ![s].held = h]
      BY <1>6, <1>11, <2>2 DEF ReadsOn
    <3>2. n <= Len(Packets) /\ Needs(s)
      BY <1>1, <1>4, <1>11, <2>2 DEF ReadsOn
    <3> HIDE DEF h
    <3>3. QED
      BY <1>10, <3>1, <3>2
  <2>3. QED
    BY <2>1, <2>2
<1>12. ASSUME NEW s \in Streams, ReadsBad(s)
       PROVE  \A t \in Streams : Placed(reader'[t])
  <2>1. reader[s].next + 1 \in 1..Newest
    BY <1>1, <1>4, <1>12 DEF Newest, ReadsBad
  <2>2. reader' = [reader EXCEPT ![s].next = @ + 1]
    BY <1>12 DEF ReadsBad
  <2>3. QED
    BY <1>4, <1>6, <2>1, <2>2
<1>13. ASSUME NEW s \in Streams, NEW ts, Entry(s, ts) # {}, Restarted(s, LastOf(Entry(s, ts)))
       PROVE  \A t \in Streams : Placed(reader'[t])
  <2> DEFINE n == LastOf(Entry(s, ts))
  <2>1. Entry(s, ts) \subseteq DOMAIN Packets
    BY DEF Entry
  <2>2. n \in DOMAIN Packets
    BY <1>13, <2>1, LandsOnEntry
  <2> HIDE DEF n
  <2>3. n \in 1..Newest
    BY <1>1, <2>2 DEF Numbered, Newest
  <2>4. reader' = [reader EXCEPT ![s] = [next |-> n, held |-> <<>>, draining |-> FALSE]]
    BY <1>13 DEF Restarted, n
  <2>5. QED
    BY <1>4, <1>6, <2>3, <2>4
<1>14. "picture" \in Streams /\ "sound" \in Streams
  BY DEF Streams
<1>15. CASE UNCHANGED decodingVars
  BY <1>4, <1>5, <1>15 DEF decodingVars
<1>16. CASE NextFrame \/ OpenAudioStream \/ NextAudioFrame
  <2>1. reader' = reader /\ hardware' = hardware /\ opened' \in {opened, TRUE}
    BY <1>16 DEF NextFrame, OpenAudioStream, NextAudioFrame
  <2>2. call' \in [on : Streams \cup {"none"}, attempt : 0..2]
    BY <1>5, <1>14, <1>16 DEF NextFrame, OpenAudioStream, NextAudioFrame
  <2>3. QED
    BY <1>4, <1>5, <2>1, <2>2
<1>17. CASE LoopTurn
  <2>1. call.on \in Streams /\ ReadsOn(call.on) /\ UNCHANGED <<hardware, call, opened>>
    BY <1>5, <1>17 DEF LoopTurn
  <2>2. QED
    BY <1>5, <1>11, <2>1
<1>18. CASE PictureGiven \/ SoundGiven
  BY <1>5, <1>7, <1>9, <1>14, <1>18 DEF PictureGiven, SoundGiven
<1>19. CASE EndGiven
  BY <1>4, <1>5, <1>7, <1>19 DEF EndGiven
<1>20. CASE PictureBad
  <2>1. call' \in [on : Streams \cup {"none"}, attempt : 0..2]
    BY <1>5, <1>7, <1>20 DEF PictureBad
  <2>2. QED
    BY <1>5, <1>12, <1>14, <1>20, <2>1 DEF PictureBad
<1>21. CASE SoundBad
  BY <1>5, <1>7, <1>12, <1>14, <1>21 DEF SoundBad
<1>22. ASSUME NEW ts \in SeekPoints, Seek(ts) \/ SeekAudio(ts)
       PROVE  /\ \A s \in Streams : Placed(reader'[s])
              /\ UNCHANGED <<hardware, call, opened>>
  BY <1>13, <1>14, <1>22 DEF Seek, SeekAudio
<1>23. QED
  BY <1>5, <1>15, <1>16, <1>17, <1>18, <1>19, <1>20, <1>21, <1>22 DEF DecodingNext

-----------------------------------------------------------------------------------
ImportCall ==
  [at : {"idle", "checking", "probing", "done"}, location : Locations,
   verdict : Failures \cup {"none", "reachable", "accepted"}, rivalled : BOOLEAN,
   answer : Entries \cup {NoEntry}]

LEMMA RestIsACall ==
  ASSUME ImportCallsAssumption, NEW e \in Entries \cup {NoEntry}
  PROVE  [AtRest EXCEPT !.answer = e] \in ImportCall /\ AtRest \in ImportCall
<1>1. (CHOOSE l \in Locations : TRUE) \in Locations
  BY DEF ImportCallsAssumption
<1> DEFINE home == CHOOSE l \in Locations : TRUE
<1> HIDE DEF home
<1>2. home \in Locations
  BY <1>1 DEF home
<1>3. AtRest = [at |-> "idle", location |-> home, verdict |-> "none", rivalled |-> FALSE, answer |-> NoEntry]
  BY DEF AtRest, home
<1>4. AtRest \in ImportCall
  BY <1>2, <1>3 DEF ImportCall
<1> DEFINE rest == AtRest
<1> HIDE DEF rest
<1>5. rest \in ImportCall
  BY <1>4 DEF rest
<1>6. [rest EXCEPT !.answer = e] \in ImportCall
  BY <1>5 DEF ImportCall
<1>7. QED
  BY <1>4, <1>6 DEF rest

LEMMA ImportsTypedStart == ASSUME ImportCallsAssumption, ImportCallsInit PROVE ImportCallsTypeOK
<1>1. AtRest \in ImportCall
  BY RestIsACall
<1>2. calls \in [Importers -> ImportCall]
  BY <1>1 DEF ImportCallsInit
<1>3. onDisk \in [Locations -> Contents]
  BY DEF ImportCallsInit, Contents
<1>4. project \in 0..MaxReplaced /\ changes \in 0..MaxChanges /\ registered \in Nat
  BY DEF ImportCallsInit, ImportCallsAssumption
<1>5. entries \subseteq Entries /\ marked \subseteq Locations /\ cache \in [Locations -> Entries \cup {NoEntry}]
  BY DEF ImportCallsInit
<1>6. QED
  BY <1>2, <1>3, <1>4, <1>5 DEF ImportCallsTypeOK, ImportCall

LEMMA ImportsTypedStep ==
  ASSUME ImportCallsAssumption, ImportCallsTypeOK, [ImportCallsNext]_importCallVars
  PROVE  ImportCallsTypeOK'
<1>1. /\ entries \subseteq Entries /\ marked \subseteq Locations
      /\ cache \in [Locations -> Entries \cup {NoEntry}] /\ onDisk \in [Locations -> Contents]
      /\ registered \in Nat /\ project \in 0..MaxReplaced /\ changes \in 0..MaxChanges
      /\ calls \in [Importers -> ImportCall]
  BY DEF ImportCallsTypeOK, ImportCall
<1>2. SUFFICES /\ entries' \subseteq Entries /\ marked' \subseteq Locations
               /\ cache' \in [Locations -> Entries \cup {NoEntry}] /\ onDisk' \in [Locations -> Contents]
               /\ registered' \in Nat /\ project' \in 0..MaxReplaced /\ changes' \in 0..MaxChanges
               /\ calls' \in [Importers -> ImportCall]
  BY DEF ImportCallsTypeOK, ImportCall
<1>3. ASSUME NEW c \in Importers, NEW e \in Entries \cup {NoEntry}
      PROVE  Answers(c, e) \in [Importers -> ImportCall]
  BY <1>1, RestIsACall DEF Answers
<1>4. \A c \in Importers : calls[c].location \in Locations
  BY <1>1 DEF ImportCall
<1>5. CASE UNCHANGED importCallVars
  BY <1>1, <1>5 DEF importCallVars
<1>6. ASSUME NEW c \in Importers, NEW path \in Spellings, Import(c, path)
      PROVE  /\ calls' \in [Importers -> ImportCall] /\ marked' \subseteq Locations
             /\ UNCHANGED <<entries, cache, onDisk, registered, project, changes>>
  <2> DEFINE l == LocationOf[path]
  <2>1. l \in Locations
    BY DEF ImportCallsAssumption
  <2>2. CASE Duplicate(c, l)
    <3>1. PICK e \in Listed(l) : calls' = Answers(c, IF cache[l] # NoEntry THEN cache[l] ELSE e)
      BY <2>2 DEF Duplicate
    <3>2. e \in Entries \cup {NoEntry} /\ cache[l] \in Entries \cup {NoEntry}
      BY <1>1, <2>1 DEF Listed
    <3>3. QED
      BY <1>1, <1>3, <1>6, <2>2, <3>1, <3>2 DEF Duplicate, Import
  <2>3. CASE BeginProbe(c, l)
    <3> DEFINE mine == [at |-> "checking", location |-> l, verdict |-> "none", rivalled |-> Rivals(l) # {},
                        answer |-> NoEntry]
               told(d) == [calls[d] EXCEPT !.rivalled = @ \/ d \in Rivals(l)]
    <3>1. mine \in ImportCall
      BY <2>1 DEF ImportCall
    <3>2. ASSUME NEW d \in Importers PROVE told(d) \in ImportCall
      BY <1>1 DEF ImportCall
    <3>3. calls' = [d \in Importers |-> IF d = c THEN mine ELSE told(d)]
      BY <2>3 DEF BeginProbe
    <3>4. marked' \subseteq Locations
      BY <1>1, <2>1, <2>3 DEF BeginProbe
    <3> HIDE DEF mine, told
    <3>5. QED
      BY <1>6, <3>1, <3>2, <3>3, <3>4 DEF Import
  <2>4. QED
    BY <1>6, <2>2, <2>3 DEF Import
<1>7. ASSUME NEW c \in Importers, CheckAccess(c) \/ Probe(c)
      PROVE  /\ calls' \in [Importers -> ImportCall]
             /\ UNCHANGED <<entries, cache, marked, onDisk, registered, project, changes>>
  <2>1. PICK verdict \in Failures \cup {"reachable", "accepted"}, to \in {"probing", "done"} :
          calls' = [calls EXCEPT ![c].at = to, ![c].verdict = verdict]
    BY <1>7 DEF CheckAccess, Probe, WorkerStage, AccessVerdict, ProbeVerdict, Failures
  <2>2. [calls[c] EXCEPT !.at = to, !.verdict = verdict] \in ImportCall
    BY <1>1 DEF ImportCall
  <2>3. calls' = [calls EXCEPT ![c] = [calls[c] EXCEPT !.at = to, !.verdict = verdict]]
    BY <2>1
  <2>4. QED
    BY <1>1, <1>7, <2>2, <2>3 DEF CheckAccess, Probe, WorkerStage
<1>8. ASSUME NEW c \in Importers, TimesOut(c) \/ RejectedCall(c)
      PROVE  /\ calls' \in [Importers -> ImportCall] /\ marked' \subseteq Locations
             /\ UNCHANGED <<entries, cache, onDisk, registered, project, changes>>
  BY <1>1, <1>3, <1>8 DEF TimesOut, RejectedCall, Reject
<1>9. ASSUME NEW c \in Importers, Accepted(c)
      PROVE  /\ entries' \subseteq Entries /\ marked' \subseteq Locations
             /\ cache' \in [Locations -> Entries \cup {NoEntry}]
             /\ registered' \in Nat /\ calls' \in [Importers -> ImportCall]
             /\ UNCHANGED <<onDisk, project, changes>>
  <2> DEFINE e == [id |-> registered, location |-> calls[c].location,
                   rivalled |-> calls[c].rivalled, project |-> project]
  <2>1. calls[c].location \in Locations /\ calls[c].rivalled \in BOOLEAN
    BY <1>1 DEF ImportCall
  <2>2. project \in Nat
    BY <1>1
  <2>3. e \in Entries /\ e.location \in Locations
    BY <1>1, <2>1, <2>2 DEF Entries
  <2>4. Register(c, e) /\ registered' = registered + 1 /\ UNCHANGED <<onDisk, project, changes>>
    BY <1>9 DEF Accepted
  <2> HIDE DEF e
  <2>5. QED
    BY <1>1, <1>3, <2>3, <2>4 DEF Register
<1>10. ASSUME NEW l \in Locations, NEW content \in Contents, FileChanges(l, content)
       PROVE  /\ onDisk' \in [Locations -> Contents] /\ changes' \in 0..MaxChanges
              /\ UNCHANGED <<entries, cache, marked, calls, registered, project>>
  <2>1. changes < MaxChanges /\ changes' = changes + 1 /\ MaxChanges \in Nat
    BY <1>10 DEF FileChanges, ImportCallsAssumption
  <2>2. changes' \in 0..MaxChanges
    BY <1>1, <2>1
  <2>3. QED
    BY <1>1, <1>10, <2>2 DEF FileChanges
<1>11. ASSUME NEW c \in Importers, ReplaceProject(c)
       PROVE  /\ entries' \subseteq Entries /\ project' \in 0..MaxReplaced
              /\ calls' \in [Importers -> ImportCall]
              /\ UNCHANGED <<cache, marked, onDisk, registered, changes>>
  <2>1. project < MaxReplaced /\ project' = project + 1 /\ MaxReplaced \in Nat
    BY <1>11 DEF ReplaceProject, ImportCallsAssumption
  <2>2. project' \in 0..MaxReplaced
    BY <1>1, <2>1
  <2>3. \A l \in Locations : cache[l] \in Entries \cup {NoEntry}
    BY <1>1
  <2>4. entries' \subseteq Entries
    BY <1>11, <2>3 DEF ReplaceProject
  <2> DEFINE told(d) == [calls[d] EXCEPT !.rivalled = InProgress(d), !.answer = NoEntry]
  <2>5. ASSUME NEW d \in Importers PROVE told(d) \in ImportCall
    BY <1>1 DEF ImportCall, InProgress
  <2>6. calls' = [d \in Importers |-> told(d)]
    BY <1>11 DEF ReplaceProject
  <2> HIDE DEF told
  <2>7. QED
    BY <1>11, <2>2, <2>4, <2>5, <2>6 DEF ReplaceProject
<1>12. QED
  BY <1>1, <1>5, <1>6, <1>7, <1>8, <1>9, <1>10, <1>11 DEF ImportCallsNext, CallGoesOn

-----------------------------------------------------------------------------------
(* Each of the media parts keeps its types, in the run that checks them together:  *)
(* for any of their constants, beside whatever the other parts hold.               *)
THEOREM PartsAreTyped == MCSpec => []PartsTypeOK
<1> DEFINE Held1 == TeardownInv /\ EnvelopeInv /\ RenderInv /\ SinkInv /\ MixInv
           Held2 == EncodingInv /\ DecodingInv /\ EncodingTypeOK /\ DecodingTypeOK /\ ImportCallsTypeOK
<1>1. MCInit => Held1 /\ Held2
  <2>1. MCInit => Held1
    BY TeardownInvInit, EnvelopesStart, RenderStart, SinkStart, MixStart, RenderingAssumption,
       SinkAssumption, MixAssumption DEF MCInit
  <2>2. MCInit => Held2
    BY EncodingStart, DecodingStart, EncodingTypedStart, DecodingTypedStart, ImportsTypedStart,
       EncodingAssumption, DecodingAssumption, ImportCallsAssumption DEF MCInit
  <2>3. QED
    BY <2>1, <2>2
<1>2. Held1 /\ Held2 /\ [MCNext]_mcVars => (Held1 /\ Held2)'
  <2>1. [MCNext]_mcVars
          => /\ [TeardownNext]_teardownVars /\ [EnvelopeNext]_envelopeVars /\ [MixNext]_mixVars
             /\ [RenderNext]_renderVars /\ [SinkNext]_sinkVars
    BY DEF MCNext, mcVars
  <2>2. [MCNext]_mcVars
          => [EncodingNext]_encodingVars /\ [DecodingNext]_decodingVars /\ [ImportCallsNext]_importCallVars
    BY DEF MCNext, mcVars
  <2>3. Held1 /\ [MCNext]_mcVars => Held1'
    BY <2>1, TeardownInvNext, EnvelopesStep, RenderStep, SinkStep, MixStep, RenderingAssumption,
       SinkAssumption, MixAssumption
  <2>4. Held2 /\ [MCNext]_mcVars => Held2'
    BY <2>2, EncodingStep, DecodingStep, EncodingTypedStep, DecodingTypedStep, ImportsTypedStep,
       EncodingAssumption, DecodingAssumption, ImportCallsAssumption
  <2>5. QED
    BY <2>3, <2>4
<1>3. Held1 /\ Held2 => PartsTypeOK
  <2>1. TeardownInv => TeardownTypeOK
    BY DEF TeardownInv
  <2>2. EnvelopeInv => EnvelopeTypeOK
    BY DEF EnvelopeInv, EnvelopeRecords
  <2>3. MixInv => MixTypeOK
    BY DEF MixInv
  <2>4. RenderInv => RenderTypeOK
    BY DEF RenderInv, RenderShape, RenderTypeOK
  <2>5. SinkInv => SinkTypeOK
    BY DEF SinkInv, SinkShape, CallShape, SinkTypeOK
  <2>6. QED
    BY <2>1, <2>2, <2>3, <2>4, <2>5 DEF PartsTypeOK
<1>4. QED
  BY <1>1, <1>2, <1>3, PTL DEF MCSpec
===================================================================================
