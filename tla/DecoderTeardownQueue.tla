----------------------- MODULE DecoderTeardownQueue -----------------------
(***************************************************************************)
(* media/DecoderTeardownQueue: objects whose destructors may block are     *)
(* handed to one worker thread.  After shutdown() an object is destroyed   *)
(* by the thread that retires it.  An action is one critical section, one  *)
(* destructor, or the part of a call between two of them.  A condition     *)
(* variable is the set of the threads asleep on it.                        *)
(***************************************************************************)
EXTENDS Naturals, Sequences, FiniteSets

CONSTANTS
    Objects,    \* what may be retired
    Callers,    \* threads that retire objects and wait for the queue to drain
    Worker,     \* the queue's own thread
    Owner,      \* the thread that shuts the queue down
    NoObject

ASSUME TeardownAssumption ==
    /\ IsFiniteSet(Objects) /\ NoObject \notin Objects
    /\ Worker \notin Callers /\ Owner \notin Callers /\ Worker # Owner

VARIABLES
    queue,      \* queue_
    stopping,   \* stopping_
    accepted,   \* accepted_
    retired,    \* retired_
    at,         \* what each thread is doing
    item,       \* the object each thread is about to destroy or to count
    asleep,     \* threads asleep on work_ (the worker) or on idle_ (callers)
    destroyed   \* the objects whose destructors have run

teardownVars == <<queue, stopping, accepted, retired, at, item, asleep, destroyed>>

Threads == Callers \cup {Worker, Owner}

TeardownInit ==
    /\ queue = <<>>
    /\ stopping = FALSE
    /\ accepted = 0 /\ retired = 0
    /\ at = [t \in Threads |-> "idle"]
    /\ item = [t \in Threads |-> NoObject]
    /\ asleep = {}
    /\ destroyed = {}

Queued == {queue[i] : i \in 1 .. Len(queue)}

Held == {item[t] : t \in Threads} \ {NoObject}

Goto(t, place) == at' = [at EXCEPT ![t] = place]

\* Slips that the checks catch: a count without a destructor, and wake-ups that
\* are missing.
DestroyNothing(t) ==
    /\ at[t] = "destroying"
    /\ Goto(t, "counting")
    /\ UNCHANGED <<queue, stopping, accepted, retired, item, asleep, destroyed>>

CountSilently(t) ==
    /\ at[t] = "counting"
    /\ retired' = retired + 1
    /\ item' = [item EXCEPT ![t] = NoObject]
    /\ Goto(t, "idle")
    /\ UNCHANGED <<queue, stopping, accepted, asleep, destroyed>>

\* submit(): queued while the worker takes work, else destroyed here.
Submit(c, o) ==
    /\ at[c] = "idle" /\ o \notin Queued \cup Held \cup destroyed
    /\ accepted' = accepted + 1
    /\ IF stopping
          THEN /\ item' = [item EXCEPT ![c] = o] /\ Goto(c, "destroying")
               /\ UNCHANGED <<queue, asleep>>
          ELSE /\ queue' = Append(queue, o) /\ asleep' = asleep \ {Worker}
               /\ UNCHANGED <<item, at>>
    /\ UNCHANGED <<stopping, retired, destroyed>>

\* A destructor, on the worker or inline.  It runs outside of the mutex.
Destroy(t) ==
    /\ at[t] = "destroying"
    /\ destroyed' = destroyed \cup {item[t]}
    /\ Goto(t, "counting")
    /\ UNCHANGED <<queue, stopping, accepted, retired, item, asleep>>

\* The count after it wakes the threads in drain() when it is the last one.
Count(t) ==
    /\ at[t] = "counting"
    /\ retired' = retired + 1
    /\ asleep' = IF accepted = retired' THEN asleep \ Callers ELSE asleep
    /\ item' = [item EXCEPT ![t] = NoObject]
    /\ Goto(t, "idle")
    /\ UNCHANGED <<queue, stopping, accepted, destroyed>>

WorkerSleeps ==
    /\ at[Worker] = "idle" /\ Worker \notin asleep
    /\ queue = <<>> /\ ~stopping
    /\ asleep' = asleep \cup {Worker}
    /\ UNCHANGED <<queue, stopping, accepted, retired, at, item, destroyed>>

WorkerTakes ==
    /\ at[Worker] = "idle" /\ Worker \notin asleep /\ queue # <<>>
    /\ queue' = Tail(queue)
    /\ item' = [item EXCEPT ![Worker] = Head(queue)]
    /\ Goto(Worker, "destroying")
    /\ UNCHANGED <<stopping, accepted, retired, asleep, destroyed>>

WorkerEnds ==
    /\ at[Worker] = "idle" /\ Worker \notin asleep
    /\ queue = <<>> /\ stopping
    /\ Goto(Worker, "ended")
    /\ UNCHANGED <<queue, stopping, accepted, retired, item, asleep, destroyed>>

\* drain(), and drainFor() when its time is not yet over.
Drain(c) ==
    /\ at[c] = "idle"
    /\ Goto(c, "draining")
    /\ asleep' = IF accepted = retired THEN asleep ELSE asleep \cup {c}
    /\ UNCHANGED <<queue, stopping, accepted, retired, item, destroyed>>

\* Woken: the predicate is looked at again under the mutex.
DrainReturns(c) ==
    /\ at[c] = "draining" /\ c \notin asleep
    /\ IF accepted = retired
          THEN Goto(c, "idle") /\ UNCHANGED asleep
          ELSE asleep' = asleep \cup {c} /\ UNCHANGED at
    /\ UNCHANGED <<queue, stopping, accepted, retired, item, destroyed>>

\* shutdown(): no more work, the worker is woken and waited for.
Shutdown ==
    /\ at[Owner] = "idle"
    /\ stopping' = TRUE
    /\ asleep' = asleep \ {Worker}
    /\ Goto(Owner, "joining")
    /\ UNCHANGED <<queue, accepted, retired, item, destroyed>>

\* What the worker left, if anything, is destroyed and counted here.
ShutdownReturns ==
    /\ at[Owner] = "joining" /\ at[Worker] = "ended"
    /\ destroyed' = destroyed \cup Queued
    /\ retired' = retired + Len(queue)
    /\ queue' = <<>>
    /\ asleep' = asleep \ Callers
    /\ Goto(Owner, "ended")
    /\ UNCHANGED <<stopping, accepted, item>>

ThreadStep(t) == Destroy(t) \/ Count(t)

WorkerStep == ThreadStep(Worker) \/ WorkerSleeps \/ WorkerTakes \/ WorkerEnds

CallerStep(c) == ThreadStep(c) \/ DrainReturns(c)

TeardownNext ==
    \/ WorkerStep \/ Shutdown \/ ShutdownReturns
    \/ \E c \in Callers : CallerStep(c) \/ Drain(c) \/ \E o \in Objects : Submit(c, o)

\* Destructors end and every thread gets to run; nobody has to retire,
\* to drain or to shut down.
TeardownFairness ==
    /\ WF_teardownVars(WorkerStep) /\ WF_teardownVars(ShutdownReturns)
    /\ \A c \in Callers : WF_teardownVars(CallerStep(c))

TeardownSpec == TeardownInit /\ [][TeardownNext]_teardownVars /\ TeardownFairness

----------------------------------------------------------------------------
TeardownTypeOK ==
    /\ queue \in Seq(Objects)
    /\ stopping \in BOOLEAN
    /\ accepted \in Nat /\ retired \in Nat
    /\ at \in [Threads -> {"idle", "destroying", "counting", "draining", "joining", "ended"}]
    /\ item \in [Threads -> Objects \cup {NoObject}]
    /\ asleep \subseteq Threads
    /\ destroyed \subseteq Objects

(* The two counts differ by exactly the objects on their way: queued, in a *)
(* destructor, or destroyed and not yet counted, on whatever thread.       *)
(* pending() is that number, before, during and after shutdown().          *)
PendingIsExact == accepted = retired + Len(queue) + Cardinality(Held)

(* drain() is told that the queue is empty only when every object handed   *)
(* over so far is gone: a count never runs ahead of its destructor.        *)
DrainedIsDestroyed ==
    accepted = retired => queue = <<>> /\ Held = {} /\ Cardinality(destroyed) = accepted

(* drain() comes back once objects stop arriving, however it meets         *)
(* shutdown() and objects destroyed inline (lost wake-ups included).       *)
DrainsReturn == \A c \in Callers : at[c] = "draining" ~> at[c] # "draining"

(* shutdown() comes back with the worker gone and the queue destroyed.     *)
ShutdownEnds == stopping ~> (at[Owner] = "ended" /\ queue = <<>>)

(* What retiring promises: the count of pending objects is exact, and none *)
(* is called drained before it is destroyed.                               *)
TeardownSound == PendingIsExact /\ DrainedIsDestroyed

(* drain() and shutdown() both come back.                                  *)
TeardownEnds == DrainsReturn /\ ShutdownEnds
=============================================================================
