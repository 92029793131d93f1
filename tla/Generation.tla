--------------------------------- MODULE Generation ---------------------------------
(***********************************************************************************)
(* Generated media: services/GenerativeMediaCoordinator::generateAndPlace() over   *)
(* the job life cycle of GenerativeClient, with GenerativeClientRunner polling and *)
(* TimelineEnginePlacer putting the result on the timeline.                        *)
(*                                                                                 *)
(* A call checks its request, submits a job, polls it until it ends, fetches the   *)
(* media, places a clip through the engine and catalogues the media in the library.*)
(* It runs on the thread that called the tool: the accept thread of the MCP server *)
(* next to the main thread, where the user goes on editing, undoing and opening    *)
(* projects while the provider works.  Each engine call is one step.               *)
(*                                                                                 *)
(* The library is not part of the document: the engine restores a document, and    *)
(* only the revert of a placement takes its media from the library again.          *)
(***********************************************************************************)
EXTENDS Integers, FiniteSets, Sequences, SequencesExt, FiniteSetsExt

CONSTANTS
  Generators,   \* the threads that generate
  Gui,       \* the one the user edits on
  Tracks,    \* the tracks a new project has
  Assets,    \* the media the provider may name
  Slots,     \* places on a track, each as long as a generated clip
  Budget,    \* budget_, in ticks
  MaxPolls,  \* maxPollAttempts_
  MaxJobs,   \* bound: jobs ever submitted
  MaxUserEdits   \* bound: edits of the user

ASSUME GenerationAssumption ==
  /\ Gui \in Generators /\ Slots \subseteq Nat
  /\ Budget \in Nat /\ MaxPolls \in Nat /\ MaxJobs \in Nat /\ MaxUserEdits \in Nat

VARIABLES
  doc,       \* the document: tracks, clips and the asset table
  library,   \* the media library of the session
  undo,      \* the engine's histories
  redo,
  jobs,      \* jobs_, the client's record of every job it submitted
  provider,  \* what has become of each job at the provider
  broken,    \* history variable: jobs a failed request was the last word on
  call,      \* per thread, how far its generateAndPlace() is
  edits      \* edits so far

editing == <<doc, library, undo, redo>>
client  == <<jobs, provider, broken>>
generationVars == <<editing, client, call, edits>>

NoJob == 0
Resting  == [at |-> "idle", job |-> NoJob]

Clips    == [asset : Assets, track : Tracks, slot : Slots]
Commands ==
  [kind : {"place"}, clip : Clips, added : BOOLEAN, imported : BOOLEAN]
    \cup [kind : {"drop"}, track : Tracks, clips : SUBSET Clips]

NewDoc == [tracks |-> Tracks, clips |-> {}, assets |-> {}]

GenerationInit ==
  /\ doc = NewDoc /\ library = {} /\ undo = <<>> /\ redo = <<>>
  /\ jobs = <<>> /\ provider = <<>> /\ broken = {}
  /\ call = [t \in Generators |-> Resting]
  /\ edits = 0

-----------------------------------------------------------------------------------
(* PlaceGeneratedClipCommand.                                                      *)
Overlaps(d, clip) == \E c \in d.clips : c.track = clip.track /\ c.slot = clip.slot

Placement(clip) ==
  [kind     |-> "place", clip |-> clip,
   added    |-> clip.asset \notin doc.assets,
   imported |-> clip.asset \notin library]

Placed(clip) == [doc EXCEPT !.clips = @ \cup {clip}, !.assets = @ \cup {clip.asset}]

Reverted(c) ==
  [doc EXCEPT !.clips  = @ \ {c.clip},
              !.assets = IF c.added THEN @ \ {c.clip.asset} ELSE @]

(* Mistake: the undo of a placement always takes its media from the library.       *)
LibraryAfterAlways(c) == library \ {c.clip.asset}

LibraryAfter(c) == IF c.imported THEN library \ {c.clip.asset} ELSE library

(* engine.undo(): the last command is reverted and may be redone.                  *)
UndoTop ==
  IF undo = <<>> THEN UNCHANGED editing
  ELSE LET c == Last(undo) IN
       /\ undo' = Front(undo) /\ redo' = Append(redo, c)
       /\ IF c.kind = "place"
          THEN doc' = Reverted(c) /\ library' = LibraryAfter(c)
          ELSE /\ doc' = [doc EXCEPT !.tracks = @ \cup {c.track}, !.clips = @ \cup c.clips]
               /\ library' = library

(* engine.redo(): a placement looks again at what the library holds.               *)
RedoTop ==
  /\ redo # <<>> /\ redo' = Front(redo)
  /\ LET c == Last(redo) IN
     IF c.kind = "place"
     THEN /\ doc' = Placed(c.clip) /\ library' = library \cup {c.clip.asset}
          /\ undo' = Append(undo, Placement(c.clip))
     ELSE /\ doc' = [doc EXCEPT !.tracks = @ \ {c.track}, !.clips = @ \ c.clips]
          /\ undo' = Append(undo, c) /\ library' = library

Recorded(c) == undo' = Append(undo, c) /\ redo' = <<>>

TimelineEnd(d) == IF d.clips = {} THEN 0 ELSE 1 + Max({c.slot : c \in d.clips})

-----------------------------------------------------------------------------------
(* The user.                                                                       *)
Editing == call[Gui].at = "idle" /\ edits < MaxUserEdits /\ edits' = edits + 1

DeleteTrack(track) ==
  /\ Editing /\ track \in doc.tracks
  /\ LET gone == {c \in doc.clips : c.track = track} IN
     /\ doc' = [doc EXCEPT !.tracks = @ \ {track}, !.clips = @ \ gone]
     /\ Recorded([kind |-> "drop", track |-> track, clips |-> gone])
  /\ UNCHANGED <<library, client, call>>

UserUndo == Editing /\ undo # <<>> /\ UndoTop /\ UNCHANGED <<client, call>>

UserRedo == Editing /\ RedoTop /\ UNCHANGED <<client, call>>

(* Another project takes the place of this one; the histories end with it.         *)
OpenProject ==
  /\ Editing
  /\ doc' = NewDoc /\ library' = {} /\ undo' = <<>> /\ redo' = <<>>
  /\ UNCHANGED <<client, call>>

-----------------------------------------------------------------------------------
(* The provider, and the time that passes.                                         *)
Provide(j) ==
  /\ provider[j] = "running"
  /\ \E ends \in {"succeeded", "failed"} : provider' = [provider EXCEPT ![j] = ends]
  /\ UNCHANGED <<editing, jobs, broken, call, edits>>

TimePasses ==
  /\ jobs' = [j \in DOMAIN jobs |->
                [jobs[j] EXCEPT !.age = IF @ < Budget THEN @ + 1 ELSE @]]
  /\ UNCHANGED <<editing, provider, broken, call, edits>>

-----------------------------------------------------------------------------------
(* generateAndPlace().                                                             *)
GoTo(t, at) == call' = [call EXCEPT ![t].at = at]
GiveBack(t)   == call' = [call EXCEPT ![t] = Resting]

(* The request is well-formed, its track exists, and the account is entitled; a    *)
(* request that is refused here changes nothing.                                   *)
Generate(t, track, slot) ==
  /\ call[t].at = "idle" /\ track \in doc.tracks
  /\ call' = [call EXCEPT ![t] =
       [at |-> "submitting", job |-> NoJob, track |-> track, slot |-> slot, polls |-> 0]]
  /\ UNCHANGED <<editing, client, edits>>

(* The client submits the job and keeps a record of it.                            *)
Submit(t) ==
  /\ call[t].at = "submitting" /\ Len(jobs) < MaxJobs
  /\ jobs' = Append(jobs, [phase |-> "pending", cancelled |-> FALSE, age |-> 0])
  /\ provider' = Append(provider, "running")
  /\ call' = [call EXCEPT ![t].at = "polling", ![t].job = Len(jobs')]
  /\ UNCHANGED <<editing, broken, edits>>

SubmitFails(t) ==
  /\ call[t].at = "submitting" /\ GiveBack(t)
  /\ UNCHANGED <<editing, client, edits>>

Exceeded(j) == jobs[j].age >= Budget

(* The client gives the job up and tells the provider, who may not hear it.        *)
Cancel(j) ==
  /\ jobs' = [jobs EXCEPT ![j].cancelled = TRUE, ![j].phase = "failed"]
  /\ \/ provider' = provider
     \/ provider[j] = "running" /\ provider' = [provider EXCEPT ![j] = "stopped"]
  /\ UNCHANGED broken

(* poll(): the budget is looked at before the provider is asked, and again when it *)
(* has answered.                                                                   *)
Ask(t) ==
  /\ call[t].at = "polling" /\ call[t].polls < MaxPolls /\ ~Exceeded(call[t].job)
  /\ GoTo(t, "asked")
  /\ UNCHANGED <<editing, client, edits>>

TimesOut(t) ==
  /\ call[t].at = "polling" /\ call[t].polls < MaxPolls /\ Exceeded(call[t].job)
  /\ Cancel(call[t].job) /\ GiveBack(t)
  /\ UNCHANGED <<editing, edits>>

(* The provider's answer, mapped by phaseFrom().                                   *)
Phase(status) == IF status \in {"running", "succeeded"} THEN status ELSE "failed"

Answered(t) ==
  /\ call[t].at = "asked"
  /\ LET j == call[t].job
         phase == Phase(provider[j])
     IN IF phase \in {"succeeded", "failed"}
        THEN /\ jobs' = [jobs EXCEPT ![j].phase = phase]
             /\ GoTo(t, "ended")
             /\ UNCHANGED <<provider, broken>>
        ELSE IF Exceeded(j)
        THEN Cancel(j) /\ GiveBack(t)
        ELSE /\ jobs' = [jobs EXCEPT ![j].phase = phase]
             /\ call' = [call EXCEPT ![t].at = "polling", ![t].polls = @ + 1]
             /\ UNCHANGED <<provider, broken>>
  /\ UNCHANGED <<editing, edits>>

(* The request fails: the error is forwarded, and nobody cancels the job.          *)
PollFails(t) ==
  /\ call[t].at = "asked" /\ GiveBack(t)
  /\ broken' = broken \cup {call[t].job}
  /\ UNCHANGED <<editing, jobs, provider, edits>>

(* The attempts are used up.                                                       *)
GivesUp(t) ==
  /\ call[t].at = "polling" /\ call[t].polls = MaxPolls
  /\ Cancel(call[t].job) /\ GiveBack(t)
  /\ UNCHANGED <<editing, edits>>

Fetch(t, asset) ==
  /\ call[t].at = "ended" /\ jobs[call[t].job].phase = "succeeded"
  /\ call' = [call EXCEPT ![t] =
       [at |-> "placing", job |-> @.job,
        clip |-> [asset |-> asset, track |-> @.track, slot |-> @.slot]]]
  /\ UNCHANGED <<editing, client, edits>>

(* The provider failed, cannot be reached, or returned media of another kind.      *)
FetchFails(t) ==
  /\ call[t].at = "ended" /\ GiveBack(t)
  /\ UNCHANGED <<editing, client, edits>>

(* TimelineEnginePlacer::place() refuses before the engine is called ...           *)
Refusable(clip) == clip.track \notin doc.tracks \/ clip.slot > TimelineEnd(doc)

PlaceRefused(t) ==
  /\ call[t].at = "placing" /\ Refusable(call[t].clip)
  /\ GiveBack(t)
  /\ UNCHANGED <<editing, client, edits>>

(* ... or the engine finds that the clip overlaps, and restores the document.  The *)
(* command had imported the media by then.                                         *)
PlaceOverlaps(t) ==
  /\ call[t].at = "placing" /\ ~Refusable(call[t].clip) /\ Overlaps(doc, call[t].clip)
  /\ library' = library \cup {call[t].clip.asset}
  /\ GiveBack(t)
  /\ UNCHANGED <<doc, undo, redo, client, edits>>

Place(t) ==
  /\ call[t].at = "placing" /\ ~Refusable(call[t].clip) /\ ~Overlaps(doc, call[t].clip)
  /\ doc' = Placed(call[t].clip) /\ library' = library \cup {call[t].clip.asset}
  /\ Recorded(Placement(call[t].clip))
  /\ GoTo(t, "placed")
  /\ UNCHANGED <<client, edits>>

(* The media joins the library, unless it is there already.                        *)
Catalogue(t) ==
  /\ call[t].at = "placed"
  /\ library' = library \cup {call[t].clip.asset}
  /\ GoTo(t, "done")
  /\ UNCHANGED <<doc, undo, redo, client, edits>>

(* The tool executor takes the answer, or finds that the tool ran for too long and *)
(* undoes the one command it saw applied.                                          *)
Answer(t) ==
  /\ call[t].at = "done" /\ GiveBack(t)
  /\ UNCHANGED <<editing, client, edits>>

Overran(t) ==
  /\ call[t].at = "done" /\ UndoTop /\ GiveBack(t)
  /\ UNCHANGED <<client, edits>>

CallStep(t) ==
  \/ Submit(t) \/ SubmitFails(t)
  \/ Ask(t) \/ TimesOut(t) \/ Answered(t) \/ PollFails(t) \/ GivesUp(t)
  \/ \E asset \in Assets : Fetch(t, asset)
  \/ FetchFails(t)
  \/ PlaceRefused(t) \/ PlaceOverlaps(t) \/ Place(t) \/ Catalogue(t)
  \/ Answer(t) \/ Overran(t)

GenerationNext ==
  \/ \E t \in Generators :
       CallStep(t) \/ \E track \in Tracks, slot \in Slots : Generate(t, track, slot)
  \/ \E j \in DOMAIN provider : Provide(j)
  \/ TimePasses
  \/ \E track \in Tracks : DeleteTrack(track)
  \/ UserUndo \/ UserRedo \/ OpenProject

(* A thread inside generateAndPlace() goes on; requests are answered or fail.      *)
GenerationFairness == \A t \in Generators : WF_generationVars(CallStep(t))

GenerationSpec == GenerationInit /\ [][GenerationNext]_generationVars /\ GenerationFairness

-----------------------------------------------------------------------------------
(* Properties.                                                                     *)

(* The type invariant.                                                             *)
GenerationTypeOK ==
  /\ doc \in [tracks : SUBSET Tracks, clips : SUBSET Clips, assets : SUBSET Assets]
  /\ library \subseteq Assets
  /\ undo \in Seq(Commands) /\ redo \in Seq(Commands)
  /\ jobs \in Seq([phase : {"pending", "running", "succeeded", "failed"},
                   cancelled : BOOLEAN, age : 0..Budget])
  /\ provider \in Seq({"running", "succeeded", "failed", "stopped"})
  /\ Len(provider) = Len(jobs) /\ broken \subseteq DOMAIN jobs
  /\ \A t \in Generators : call[t].job \in {NoJob} \cup DOMAIN jobs

(* Whatever was edited while the provider worked, the document stays one the       *)
(* engine accepts: clips lie on tracks that exist and never on one another.        *)
TimelineSound ==
  /\ \A c \in doc.clips : c.track \in doc.tracks
  /\ \A c, d \in doc.clips : c.track = d.track /\ c.slot = d.slot => c = d

(* Every clip of the document finds its media in the asset table and in the        *)
(* library, through placements of the same media undone and redone in any order    *)
(* and projects opened in between.                                                 *)
ClipsResolve == {c.asset : c \in doc.clips} \subseteq doc.assets \cap library

(* A job nobody waits for any more has ended or was given up with a cancel, unless *)
(* a failed request was the last the client heard of it.                           *)
NoJobForgotten ==
  \A j \in DOMAIN jobs :
    \/ jobs[j].phase \in {"succeeded", "failed"}
    \/ j \in broken
    \/ \E t \in Generators : call[t].job = j

(* generateAndPlace() returns, however the provider behaves.                       *)
CallsEnd == \A t \in Generators : (call[t].at = "polling") ~> (call[t].at = "idle")

(* What a placement promises: a sound document, clips with media, and no   *)
(* job left running without somebody who waits for it.                     *)
PlacementsSound == GenerationTypeOK /\ TimelineSound /\ ClipsResolve /\ NoJobForgotten
=====================================================================================
