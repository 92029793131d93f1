--------------------------------- MODULE ImportCalls ---------------------------------
(*************************************************************************************)
(* One call of services/MediaImportService::import() step by step: the look into the *)
(* library, the pending mark, the worker that checks and probes the file under a     *)
(* deadline, the registration.  The media browser and the agent call it on the       *)
(* window's thread and the media.import tool on the endpoint's; nothing keeps the    *)
(* two apart, and either thread may put another project in place.  MediaImport has   *)
(* the call as one step, over the saves and loads of the session.                    *)
(*************************************************************************************)
EXTENDS Integers, FiniteSets

CONSTANTS
  Importers,        \* the threads that import
  Spellings,        \* paths as they are given
  Locations,        \* canonical paths
  LocationOf,       \* resolvePath(): weakly_canonical
  NoEntry,          \* nothing cached for a location
  MaxImports,       \* bound: assets registered
  MaxReplaced,      \* bound: projects put in place of another
  MaxChanges        \* bound: changes of what is on disk

ASSUME ImportCallsAssumption ==
  /\ LocationOf \in [Spellings -> Locations] /\ Locations # {}
  /\ MaxImports \in Nat /\ MaxReplaced \in Nat /\ MaxChanges \in Nat

VARIABLES
  entries,          \* mediaLibrary() of the project that is open
  cache,            \* imported_
  marked,           \* pending_
  calls,            \* by thread
  onDisk,           \* what is at a location
  registered,       \* how many assets there have been
  project,          \* how often the project was replaced
  changes

importCallVars == <<entries, cache, marked, calls, onDisk, registered, project, changes>>

(* What the access check, the prober and the acceptance policy can meet.  A stuck    *)
(* file is on a mount that does not answer.                                          *)
Contents == {"missing", "directory", "alien", "undecodable", "media", "stuck"}
Failures == {"FileNotFound", "FileUnreadable", "UnsupportedFormat", "TimedOut"}

(* rivalled is a history variable: meanwhile another call asked for the location, or *)
(* the project was replaced.  An entry keeps that of its call.                       *)
Entries == [id : Nat, location : Locations, rivalled : BOOLEAN, project : Nat]
AtRest  == [at |-> "idle", location |-> CHOOSE l \in Locations : TRUE,
            verdict |-> "none", rivalled |-> FALSE, answer |-> NoEntry]

ImportCallsInit ==
  /\ entries = {} /\ cache = [l \in Locations |-> NoEntry] /\ marked = {}
  /\ calls = [c \in Importers |-> AtRest]
  /\ onDisk \in [Locations -> {"media", "stuck"}]
  /\ registered = 0 /\ project = 0 /\ changes = 0

Listed(l) == {e \in entries : e.location = l}

InProgress(c) == calls[c].at # "idle"
Rivals(l) == {c \in Importers : InProgress(c) /\ calls[c].location = l}

Answers(c, answer) == [calls EXCEPT ![c] = [AtRest EXCEPT !.answer = answer]]

(* The location is listed already: what this service remembers of it, or the entry.  *)
Duplicate(c, l) ==
  /\ Listed(l) # {}
  /\ \E e \in Listed(l) : calls' = Answers(c, IF cache[l] # NoEntry THEN cache[l] ELSE e)
  /\ UNCHANGED marked

(* It is not: mark it pending and start the worker.                                  *)
BeginProbe(c, l) ==
  /\ Listed(l) = {} /\ registered < MaxImports
  /\ marked' = marked \cup {l}
  /\ calls' = [d \in Importers |->
       IF d = c THEN [at |-> "checking", location |-> l, verdict |-> "none",
                      rivalled |-> Rivals(l) # {}, answer |-> NoEntry]
       ELSE [calls[d] EXCEPT !.rivalled = @ \/ d \in Rivals(l)]]

Import(c, path) ==
  /\ ~InProgress(c)
  /\ Duplicate(c, LocationOf[path]) \/ BeginProbe(c, LocationOf[path])
  /\ UNCHANGED <<entries, cache, onDisk, registered, project, changes>>

(* runTimedSection() on the worker: filesystemAccessCheck(), ...                     *)
AccessVerdict(content) ==
  CASE content = "missing"   -> "FileNotFound"
    [] content = "directory" -> "FileUnreadable"
    [] OTHER                 -> "reachable"

(* ... then the prober, which cannot tell a container it does not know from a file   *)
(* it cannot read, and the policy.  No decode check is installed.                    *)
ProbeVerdict(content) ==
  CASE content \in {"missing", "directory", "alien"} -> "FileUnreadable"
    [] content = "undecodable"                       -> "UnsupportedFormat"
    [] OTHER                                         -> "accepted"

WorkerStage(c, from, verdict, to) ==
  /\ calls[c].at = from /\ onDisk[calls[c].location] # "stuck"
  /\ calls' = [calls EXCEPT ![c].at = to, ![c].verdict = verdict]
  /\ UNCHANGED <<entries, cache, marked, onDisk, registered, project, changes>>

CheckAccess(c) ==
  LET verdict == AccessVerdict(onDisk[calls[c].location])
  IN  WorkerStage(c, "checking", verdict, IF verdict = "reachable" THEN "probing" ELSE "done")

Probe(c) == WorkerStage(c, "probing", ProbeVerdict(onDisk[calls[c].location]), "done")

(* makeRejection(), and the mark goes with the call.                                 *)
Reject(c) ==
  /\ calls' = Answers(c, NoEntry)
  /\ marked' = marked \ {calls[c].location}

(* The deadline: the worker is left to itself with copies of all it touches.         *)
TimesOut(c) ==
  /\ calls[c].at \in {"checking", "probing"}
  /\ Reject(c)
  /\ UNCHANGED <<entries, cache, onDisk, registered, project, changes>>

RejectedCall(c) ==
  /\ calls[c].at = "done" /\ calls[c].verdict # "accepted"
  /\ Reject(c)
  /\ UNCHANGED <<entries, cache, onDisk, registered, project, changes>>

(* A fresh id, an entry of whatever project is open now, the description to answer   *)
(* the next call with.  The library is not looked at again.                          *)
Register(c, e) ==
  /\ marked' = marked \ {calls[c].location}
  /\ entries' = entries \cup {e}
  /\ cache' = [cache EXCEPT ![e.location] = e]
  /\ calls' = Answers(c, e)

Accepted(c) ==
  /\ calls[c].at = "done" /\ calls[c].verdict = "accepted"
  /\ registered' = registered + 1
  /\ Register(c, [id |-> registered, location |-> calls[c].location,
                  rivalled |-> calls[c].rivalled, project |-> project])
  /\ UNCHANGED <<onDisk, project, changes>>

(* The world: a file comes, goes or stops answering; a thread that is not importing  *)
(* makes a project or opens one, which may list an asset of an earlier one.          *)
FileChanges(l, content) ==
  /\ changes < MaxChanges /\ content # onDisk[l]
  /\ onDisk' = [onDisk EXCEPT ![l] = content]
  /\ changes' = changes + 1
  /\ UNCHANGED <<entries, cache, marked, calls, registered, project>>

ReplaceProject(c) ==
  /\ ~InProgress(c) /\ project < MaxReplaced
  /\ entries' \in {{}} \cup {{e} : e \in {cache[l] : l \in Locations} \ {NoEntry}}
  /\ calls' = [d \in Importers |-> [calls[d] EXCEPT !.rivalled = InProgress(d), !.answer = NoEntry]]
  /\ project' = project + 1
  /\ UNCHANGED <<cache, marked, onDisk, registered, changes>>

CallGoesOn(c) == CheckAccess(c) \/ Probe(c) \/ TimesOut(c) \/ RejectedCall(c) \/ Accepted(c)

ImportCallsNext ==
  \/ \E c \in Importers :
       CallGoesOn(c) \/ ReplaceProject(c) \/ \E path \in Spellings : Import(c, path)
  \/ \E l \in Locations, content \in Contents : FileChanges(l, content)

(* The deadline runs and the caller goes on; nobody has to import.                   *)
ImportCallsFairness ==
  \A c \in Importers : WF_importCallVars(TimesOut(c) \/ RejectedCall(c) \/ Accepted(c))

ImportCallsSpec == ImportCallsInit /\ [][ImportCallsNext]_importCallVars /\ ImportCallsFairness

--------------------------------------------------------------------------------------
ImportCallsTypeOK ==
  /\ entries \subseteq Entries /\ marked \subseteq Locations
  /\ cache \in [Locations -> Entries \cup {NoEntry}]
  /\ onDisk \in [Locations -> Contents] /\ registered \in Nat
  /\ project \in 0..MaxReplaced
  /\ changes \in 0..MaxChanges
  /\ calls \in [Importers ->
       [at : {"idle", "checking", "probing", "done"}, location : Locations,
        verdict : Failures \cup {"none", "reachable", "accepted"}, rivalled : BOOLEAN,
        answer : Entries \cup {NoEntry}]]

(* One asset per location, unless calls for it overlapped or the project was         *)
(* replaced under one: "no matter who asked" (MediaImportService.hpp) holds only for *)
(* calls that come one after the other.                                              *)
TwinsHadRivals ==
  \A a, b \in entries : a # b /\ a.location = b.location => a.rivalled \/ b.rivalled

(* A location is pending while a call without rivals is at it, and then it is not    *)
(* listed; and it is pending for no other reason.                                    *)
PendingIsInProgress ==
  /\ \A c \in Importers : InProgress(c) /\ ~calls[c].rivalled =>
       calls[c].location \in marked /\ Listed(calls[c].location) = {}
  /\ \A l \in marked : Rivals(l) # {}

(* An import names an asset of the open project, until the project is replaced; but  *)
(* what was remembered under an earlier project may be named again.                  *)
AnswersAreListed ==
  \A c \in Importers :
    LET answer == calls[c].answer
    IN  answer # NoEntry => answer \in entries
                            \/ \E e \in Listed(answer.location) : e.project # answer.project

ImportCallsSound == TwinsHadRivals /\ PendingIsInProgress /\ AnswersAreListed

(* Every import returns, whatever the file does.                                     *)
ImportsReturn == \A c \in Importers : InProgress(c) ~> ~InProgress(c)
=======================================================================================
