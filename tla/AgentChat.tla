---------------------------------- MODULE AgentChat ----------------------------------
(***********************************************************************************)
(* The agent chat: the panel and its view model (ui/AgentChatPanel,               *)
(* ui/AgentChatViewModel), the orchestrator (services/AgentOrchestrator), the     *)
(* mentions of media items (services/MentionResolver) and the interpreters        *)
(* (services/AgentInterpreterRegistry, services/OfflineIntentInterpreter).        *)
(*                                                                                 *)
(* A turn runs on the GUI's thread, in one call; the endpoint's thread may edit   *)
(* the same project between any two of its steps.  A message is what it asks for  *)
(* and the name it mentions: the grammar of both is left out.                      *)
(***********************************************************************************)
EXTENDS Naturals, Sequences, FiniteSets, SequencesExt

CONSTANTS
  Names,           \* the names a mention can use
  MaxEntries,      \* bound: entries of the transcript
  MaxTouches       \* bound: edits of the endpoint's thread

ASSUME AgentChatAssumption == /\ IsFiniteSet(Names)
                              /\ MaxEntries \in Nat /\ MaxTouches \in Nat

(* What a message can ask for: mute of the first track, an added track, an import  *)
(* of a path or of a mentioned item, the two phrases that need a selected clip, a  *)
(* save, or something no phrase matches (blank and overlong texts included).       *)
Asks     == {"mute", "addTrack", "import", "selectedClip", "save", "other"}
Messages == [ask : Asks \ {"import", "other"}, mention : {"none"}]
              \cup [ask : {"import", "other"}, mention : {"none"} \cup Names]
Blank    == [ask |-> "other", mention |-> "none"]    \* an empty line is one of those

VARIABLES
  installed,   \* the interpreter selectAgentInterpreter() chose
  authorised,  \* an active subscription or a validated key
  line,        \* the panel's input line
  draft,       \* AgentChatViewModel::draft_
  pending,     \* AgentOrchestrator::pendingMessage_ and hasPending_, as a set
  transcript,  \* the entries of the ChatSession
  turn,        \* the step the turn is at, its message, intent and error
  shown,       \* the status of the last answer
  tracks, mutedTracks, mediaLibrary,   \* the project
  applied,     \* the messages whose tool succeeded, in order
  touches      \* the endpoint's edits so far, and whether one fell into the turn

chatVars == <<installed, authorised, line, draft, pending, transcript, turn, shown,
              tracks, mutedTracks, mediaLibrary, applied, touches>>
projectVars == <<tracks, mutedTracks, mediaLibrary>>
-----------------------------------------------------------------------------------
NoTurn == [at |-> "idle", message |-> Blank, target |-> 0, error |-> "none"]

Entry(role, message) == [role |-> role, message |-> message]

(* selectAgentInterpreter(): anything that cannot be installed is the offline one. *)
SelectInterpreter(id, credentials) ==
  IF id \in {"hosted", "byok"} /\ credentials THEN id ELSE "offline"

ChatInit ==
  /\ authorised \in BOOLEAN
  /\ \E requested \in {"offline", "hosted", "unknown"} :
       installed = SelectInterpreter(requested, authorised)
  /\ line = Blank /\ draft = Blank /\ pending = {} /\ transcript = <<>>
  /\ turn = NoTurn /\ shown = "nothing"
  /\ tracks = <<1>> /\ mutedTracks = {} /\ mediaLibrary = [n \in Names |-> 0]
  /\ applied = <<>> /\ touches = [count |-> 0, within |-> FALSE]

(* MentionResolver::resolve() against the library of the moment.                        *)
Resolution(m) ==
  CASE m.mention = "none"          -> "resolved"
    [] OTHER -> IF mediaLibrary[m.mention] = 0 THEN "unmatched"
                ELSE IF mediaLibrary[m.mention] = 1 THEN "resolved" ELSE "ambiguous"

-----------------------------------------------------------------------------------
(* The user types, signs in or out, or the panel refreshes; between turns.         *)
Type ==
  /\ turn = NoTurn
  /\ \E m \in Messages : line' = m
  /\ UNCHANGED <<installed, authorised, draft, pending, transcript, turn, shown, projectVars,
                 applied, touches>>

SignInOrOut ==
  /\ turn = NoTurn
  /\ authorised' = ~authorised
  /\ UNCHANGED <<installed, line, draft, pending, transcript, turn, shown, projectVars,
                 applied, touches>>

RefreshPanel ==
  /\ turn = NoTurn /\ line = Blank /\ pending # {}
  /\ line' \in pending
  /\ UNCHANGED <<installed, authorised, draft, pending, transcript, turn, shown, projectVars,
                 applied, touches>>

(* Mistake: every refused message is kept.                                          *)
KeptAll(m) == pending \cup {m}

(* The orchestrator keeps one refused message, the last.                            *)
Kept(m) == {m}

(* onSendClicked(), sendDraft() and the first check of sendMessage(): without       *)
(* authorisation the text is kept and only a notice is recorded.                    *)
SendDraft ==
  /\ turn = NoTurn /\ Len(transcript) + 2 <= MaxEntries
  /\ draft' = line
  /\ touches' = [touches EXCEPT !.within = FALSE]
  /\ IF authorised
     THEN /\ turn' = [at |-> "resolve", message |-> line, target |-> 0, error |-> "none"]
          /\ UNCHANGED <<pending, transcript>>
     ELSE /\ pending' = Kept(line)
          /\ transcript' = Append(transcript, Entry("system", line))
          /\ turn' = [at |-> "classify", message |-> line, target |-> 0,
                      error |-> "Unauthenticated"]
  /\ UNCHANGED <<installed, authorised, line, shown, projectVars, applied>>

(* The preprocessor: an unmatched or ambiguous mention is not submitted.            *)
ResolveMentions ==
  /\ turn.at = "resolve"
  /\ LET r == Resolution(turn.message) IN
     IF r = "resolved"
     THEN turn' = [turn EXCEPT !.at = "interpret"] /\ UNCHANGED transcript
     ELSE /\ transcript' = Append(transcript, Entry("system", turn.message))
          /\ turn' = [turn EXCEPT !.at = "classify",
                        !.error = IF r = "unmatched" THEN "NotFound" ELSE "FailedPrecondition"]
  /\ UNCHANGED <<installed, authorised, line, draft, pending, shown, projectVars, applied, touches>>

(* What the interpreter makes of a message.  The editor context it reads holds the  *)
(* tracks and the document of the moment; the composition wires no selection.       *)
Interpretation(m) ==
  CASE installed # "offline"     -> "Unsupported"
    [] m.ask = "other"           -> "InvalidArgument"
    [] m.ask = "selectedClip"   -> "FailedPrecondition"
    [] m.ask = "mute" /\ tracks = <<>> -> "FailedPrecondition"
    [] OTHER                     -> "none"

Interpret ==
  /\ turn.at = "interpret"
  /\ LET e == Interpretation(turn.message) IN
     IF e = "none"
     THEN /\ turn' = [turn EXCEPT !.at = "execute",
                        !.target = IF turn.message.ask = "mute" THEN Head(tracks) ELSE 0]
          /\ UNCHANGED transcript
     ELSE /\ transcript' = transcript \o <<Entry("user", turn.message), Entry("system", turn.message)>>
          /\ turn' = [turn EXCEPT !.at = "classify", !.error = e]
  /\ UNCHANGED <<installed, authorised, line, draft, pending, shown, projectVars, applied, touches>>

-----------------------------------------------------------------------------------
(* The tools, as far as the chat can tell: an edit happens whole or not at all.     *)
Succeeds(outcome) ==
  /\ transcript' = transcript \o <<Entry("user", turn.message), Entry("agent", turn.message)>>
  /\ applied' = Append(applied, turn.message)
  /\ pending' = {}
  /\ turn' = [turn EXCEPT !.at = "classify"]
  /\ outcome

Fails(error) ==
  /\ transcript' = transcript \o <<Entry("user", turn.message), Entry("system", turn.message)>>
  /\ turn' = [turn EXCEPT !.at = "classify", !.error = error]
  /\ UNCHANGED <<projectVars, applied, pending>>

FreshTrack == 2 + touches.count + Len(applied)     \* an id never used before

MuteTrack ==
  /\ turn.message.ask = "mute"
  /\ IF turn.target \in Range(tracks)
     THEN Succeeds(mutedTracks' = mutedTracks \cup {turn.target}
                     /\ UNCHANGED <<tracks, mediaLibrary>>)
     ELSE Fails("NotFound")

AddTrack ==
  /\ turn.message.ask = "addTrack"
  /\ \/ Succeeds(tracks' = Append(tracks, FreshTrack)
                   /\ UNCHANGED <<mutedTracks, mediaLibrary>>)
     \/ Fails("Timeout")

(* A mention has become "@<id>" by now, which is the path of no file.               *)
ImportFile ==
  /\ turn.message.ask = "import"
  /\ \/ /\ turn.message.mention = "none"
        /\ \E n \in Names : Succeeds(mediaLibrary' = [mediaLibrary EXCEPT ![n] = @ + 1]
                              /\ mediaLibrary[n] < 2
                              /\ UNCHANGED <<tracks, mutedTracks>>)
     \/ Fails("NotFound")

(* A project that was never saved has no document to be saved to.                   *)
SaveProject ==
  /\ turn.message.ask = "save"
  /\ Succeeds(UNCHANGED projectVars) \/ Fails("FailedPrecondition")

ExecuteIntent ==
  /\ turn.at = "execute"
  /\ MuteTrack \/ AddTrack \/ ImportFile \/ SaveProject
  /\ UNCHANGED <<installed, authorised, line, draft, shown, touches>>

(* classifyError(): an error that could come from a mention is looked at again,      *)
(* with the message as typed and the library as it is now.                               *)
Classified(error, m) ==
  CASE error = "none"            -> "Applied"
    [] error = "Unauthenticated" -> "AuthenticationRequired"
    [] error \in {"NotFound", "FailedPrecondition"} /\ Resolution(m) = "unmatched" -> "MentionNotFound"
    [] error \in {"NotFound", "FailedPrecondition"} /\ Resolution(m) = "ambiguous" -> "MentionAmbiguous"
    [] OTHER                     -> "Failed"

(* Mistake: the draft is cleared whatever the answer.                                *)
ForgetfulAnswer ==
  /\ turn.at = "classify"
  /\ shown' = Classified(turn.error, turn.message)
  /\ draft' = Blank
  /\ IF shown' = "AuthenticationRequired" THEN line' \in pending ELSE line' = Blank
  /\ turn' = [turn EXCEPT !.at = "answered"]
  /\ UNCHANGED <<installed, authorised, pending, transcript, projectVars, applied, touches>>

(* The answer reaches sendDraft() and the panel.                                     *)
ClassifyAnswer ==
  /\ turn.at = "classify"
  /\ LET status == Classified(turn.error, turn.message) IN
     /\ shown' = status
     /\ draft' = IF status = "AuthenticationRequired" THEN draft ELSE Blank
     /\ CASE status = "Applied"                -> line' = Blank
          [] status = "AuthenticationRequired" -> line' \in pending
          [] OTHER                             -> UNCHANGED line
  /\ turn' = [turn EXCEPT !.at = "answered"]
  /\ UNCHANGED <<installed, authorised, pending, transcript, projectVars, applied, touches>>

TurnOver ==
  /\ turn.at = "answered" /\ turn' = NoTurn
  /\ UNCHANGED <<installed, authorised, line, draft, pending, transcript, shown, projectVars,
                 applied, touches>>

(* The endpoint's thread: it removes or adds a track, or imports a file.             *)
TouchProject ==
  /\ touches.count < MaxTouches
  /\ touches' = [count |-> touches.count + 1, within |-> turn # NoTurn]
  /\ \/ \E t \in Range(tracks) : /\ tracks' = SelectSeq(tracks, LAMBDA u : u # t)
                                 /\ mutedTracks' = mutedTracks \ {t}
                                 /\ UNCHANGED mediaLibrary
     \/ /\ tracks' = Append(tracks, FreshTrack)
        /\ UNCHANGED <<mutedTracks, mediaLibrary>>
     \/ /\ \E n \in Names : mediaLibrary[n] < 2 /\ mediaLibrary' = [mediaLibrary EXCEPT ![n] = @ + 1]
        /\ UNCHANGED <<tracks, mutedTracks>>
  /\ UNCHANGED <<installed, authorised, line, draft, pending, transcript, turn, shown, applied>>

ChatNext ==
  \/ Type \/ SignInOrOut \/ RefreshPanel \/ SendDraft \/ ResolveMentions \/ Interpret
  \/ ExecuteIntent \/ ClassifyAnswer \/ TurnOver \/ TouchProject

ChatTypeOK ==
  /\ installed \in {"offline", "hosted", "byok"} /\ line \in Messages /\ draft \in Messages
  /\ pending \subseteq Messages /\ Cardinality(pending) <= 1
  /\ turn.at \in {"idle", "resolve", "interpret", "execute", "classify", "answered"}
  /\ Len(transcript) <= MaxEntries
-----------------------------------------------------------------------------------
AgentRows(entries) == {i \in DOMAIN entries : entries[i].role = "agent"}

Tells(entries, succeeded) ==
  /\ Len(succeeded) = Cardinality(AgentRows(entries))
  /\ \A i \in AgentRows(entries) :
       /\ entries[i].message = succeeded[Cardinality({j \in AgentRows(entries) : j <= i})]
       /\ i > 1 /\ entries[i - 1] = Entry("user", entries[i].message)

(* The transcript tells what happened: its agent entries are exactly the messages    *)
(* whose tool succeeded, in order, each right after the user's own entry.            *)
TranscriptTells == Tells(transcript, applied)

(* A text refused for want of authorisation is still in the input line, in the       *)
(* draft and with the orchestrator when the answer is on screen, and nothing ran.    *)
RefusedTextIsKept ==
  turn.at = "answered" /\ shown = "AuthenticationRequired" =>
    /\ line = turn.message /\ draft = turn.message /\ pending = {turn.message}
    /\ Last(transcript).role = "system"

NotSubmitted ==
  /\ Last(transcript).role = "system"
  /\ Len(transcript) > 1 => transcript[Len(transcript) - 1].role # "user"

(* The panel asks the user to pick another item only for a message that was not      *)
(* submitted, unless the project was edited under the turn.                          *)
MentionAnswersAreHonest ==
  turn.at = "answered" /\ ~touches.within /\ shown \in {"MentionNotFound", "MentionAmbiguous"} => NotSubmitted

ChatSound == TranscriptTells /\ RefusedTextIsKept /\ MentionAnswersAreHonest

ChatSpec == ChatInit /\ [][ChatNext]_chatVars
===================================================================================
