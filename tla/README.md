# Formal models of palmier-pro-linux

This directory models the editing, persistence and concurrency logic of the
editor under `src/` in TLA+, checks the models with TLC on small instances, and
proves most of the safety properties with TLAPS for every value of the constants.

## 1. The system and its components

palmier-pro-linux is a non-linear video editor. The document (tracks, clips,
markers, effects, captions) lives in one `TimelineEngine`. Everything that
changes it is an `EditCommand`, whether it comes from the Qt panels, from an
agent plan or from an MCP client.

| component | state it keeps | operations | talks to |
|---|---|---|---|
| `core/TimelineEngine`, `core/UndoRedoStack` | the project, the undo and redo histories of command objects, observers | `apply`, `undo`, `redo`, `reset`, `observe` | commands; every observer gets a `ChangeSet` |
| `core/*EditCommands` | per command object, the state it captured when it was applied | `apply`, `revert` on a project | the engine only |
| `services/ProjectSession`, `ProjectSaveService`, `ProjectStore` | revision and saved revision, document path, media library, queue of save completions, save worker threads | create, open, request a save, deliver completions, destroy | the engine, the file system |
| `services/MediaImportService` | description cache per file, pending set | `import` | the session's media library, a probe thread |
| `services/McpToolExecutor`, `ToolRegistry` | the declared tools; none between calls | `executeTool` with a 60 s budget and a rollback | the engine through tool handlers |
| `services/McpServer`, `McpProtocolHandler`, `McpSessionRegistry`, `RemoteAccessGate` | listening socket, accept thread, client sessions with idle timeouts, failures per address | start, stop, initialize, call | the tool executor |
| `services/ExportCoordinator`, `media/ExportEngine`, `media/MediaEncoder` | running flag, cancel flag, worker thread, queued notifications, the open encoder | begin, cancel, pump; render, submit, finish | a snapshot of the session, encoders |
| `services/GenerativeMediaCoordinator`, `GenerativeClient`, backends, HTTP transport | job records, backend, connection | generate and place, cancel | the engine, the media library, remote services |
| `services/AuthenticationService`, `ByokCredentialManager`, `SecretStore` | session, lock, authorized providers, keys | sign in, save and remove keys | account server, providers |
| `services/AgentOrchestrator` and interpreters, `ui/AgentChat*` | transcript, pending input, interpreter | send a message | the tool executor |
| `media/DecodeWorkerPool`, `DecoderClipFrameProvider`, `DecoderTeardownQueue`, `MediaDecoder` | open decoders, per-clip frame queues, prefetch jobs, worker threads; decoders waiting to be destroyed | activate, retire, decode, prefetch, shut down | preview and export |
| `media/AudioEngine`, sinks, `PeakEnvelopeService` | decoders, clock, dropouts, envelope jobs | start, pump, stop, lookup | preview transport, timeline view |
| `ui/PreviewController`, `ui/AudioPlaybackDriver`, `ui/ScrubAudioController` | transport, timers, drag | play, pause, seek, drag | `AudioEngine`, `Compositor` |
| `gpu/*` | frame pool, LUT cache, compositor resources | composite, map frames | preview and export |
| `ui/*` | selection, drags, inspector fields, open prompt | gestures, menu actions | the engine, the tool executor, the session |
| `app/main`, `app/ApplicationComposition` | everything above, by ownership | construct, run, quit | all |

What is hard: undo and redo trust every command to be its own exact inverse;
saves, decoders, exports, envelopes and MCP calls run on threads of their own next
to the main thread; the endpoint's thread edits the same project as the window,
because `main()` installs no `mainThreadInvoker`; completions are delivered later
than the state they describe; timeouts abandon work that may still finish; several
steps that belong together may fail half way; and a modal prompt keeps a handler on
the stack while everything else goes on.

### What makes each component correct

- **Engine and commands.** Undo and redo walk back and forth over exactly the
  documents that were shown; a refused call changes nothing; every document on
  screen satisfies the timeline invariants although only `apply` and `reset` test
  them; the bound of the history holds although `redo` does not test it. Each command
  is its own exact inverse in every state a history can bring it to; a ripple keeps
  the spacing it promises; a trim keeps the retained content where it was.
- **Session and documents.** "Not modified" means that the document's file holds the
  document, whatever was edited during the write and whatever failed or crashed; no
  path ever holds half a document; every save is answered; a document reads back as
  the project it was written from, and is refused only for the reasons named.
- **Imports.** A file is in the library once; every asset a document uses is in
  the library; an import answers with an asset of the current project.
- **Exports.** Only a whole file survives an export, and a success is the project
  as it was at `begin()`; whoever sees the running flag down finds the outcome;
  reports never go back; an export ends; pictures and sound meet at every chunk.
- **Decoding.** One thread at a time moves a decoder and none is retired under it;
  the recorded position is the position; the picture is the frame that was asked
  for; queues and cache keep to their capacities; no wake-up and no decoder is lost.
- **Playback.** The picture at rest is the one of the playhead; scrub audio sounds
  only in a drag that may be heard; the transport follows the sound and settles.
- **Tool calls.** A call that fails or overruns its budget leaves the project as it
  found it, and the undo history but for what its own commands pushed out; what a
  tool declares, its handler parses.
- **Endpoint.** A session expires only by being idle and never comes back; refused
  credentials stay within the limit of the window; the server answers and stops.
- **Generation and accounts.** A placement meets the project as it is now; no job is
  left running with nobody who waits for it; a credential goes only to a host that
  proved its name, and only a key the provider has accepted is sent.
- **Chat, panels, file actions.** A message edits once or not at all, and its input
  is not lost; the two holders of the selection agree; the window replaces a project
  only when what it replaces was saved or given up.
- **Lifecycle.** No thread gets to a component that is gone; what a part holds outlives it,
  but for nine pairs that are listed and harmless as the code stands.

## 2. Modules

| module | models | checked by | proved in |
|---|---|---|---|
| `LinearHistory` | the abstract specification: a document with a linear, bounded history | refinement in `MCToolCalls`, `MCEndpoint` | |
| `TimelineEngine` | `core/TimelineEngine.cpp`, `core/UndoRedoStack.cpp`; the command set is a parameter | `clip_edits`, `mcp_endpoint` | `EngineProofs` |
| `Timeline` | the document (`Project.hpp`, `Track.hpp`, `Clip.hpp`), `ProjectValidation.cpp`, `EditCommandSupport.cpp` | `clip_edits` | `EngineProofs` |
| `ClipCommands` | the commands of `ClipEditCommands`, `RippleEditCommands`, `TrackEditCommands`, `MarkerEditCommands`, `TextCaptionEditCommands`, `ProjectSettingsEditCommands`, and clip properties, layouts and transitions of `EffectEditCommands` | `clip_edits`, `layout_undo` | `EngineProofs` |
| `EditPromises` | what the comments of `ClipEditCommands.hpp` and `RippleEditCommands.hpp` promise of trims and ripple trims, over `TimelineEngine` and `ClipCommands` | `clip_edits` | `EngineProofs` |
| `EffectEdits` | the effect chain of one clip: the other commands of `EffectEditCommands`, with the inspector's curve editor and effect list | `app_parts` | `AppProofs` |
| `ToolCalls` | `services/McpToolExecutor.cpp` over the engine, with the handlers and the direct edits of the panels | `mcp_endpoint` | `EngineProofs` |
| `ToolSurface` | `services/ToolSchema`, what each handler parses, `ui/GuiToolGateway` | `app_parts` | `AppProofs` |
| `AgentChat` | `ui/AgentChat*`, `services/AgentOrchestrator`, `MentionResolver`, the interpreters | `app_parts` | `AppProofs` |
| `ProjectSession` | `services/ProjectSession.cpp`, `services/ProjectSaveService.cpp` | `session` | `SessionProofs` |
| `ProjectDocument` | `services/ProjectStore.cpp`, `SchemaVersion`, what `openProject()` accepts | `session`, `saved_reopens` | `SessionProofs` |
| `MediaImport` | `services/MediaImportService.cpp` as one step, on top of `ProjectSession` | `session` | `SessionProofs` |
| `ImportCalls` | the same call step by step, from two threads, with the probe and its deadline | `media_parts` | `MediaPartsProofs` |
| `FileActions` | `ui/ProjectFileActions.cpp` with its prompts, and `project.save` step by step from two surfaces | `app_parts` | `AppProofs` |
| `Panels` | selection, drags, edit menu and inspector fields | `app_parts` | `AppProofs` |
| `ExportCoordinator` | `services/ExportCoordinator.cpp`, `ExportProgress.cpp`, `ExportToolSurface.cpp`, `media/ExportEngine.cpp`, `ui/ExportDialog.cpp` | `jobs` | `JobsProofs` |
| `Encoding` | one export below that: `EncoderSelector`, the plan of `ExportEngine`, `CodecBridge`, `MediaEncoder` | `media_parts` | `MediaPartsProofs` |
| `Generation` | `services/GenerativeMediaCoordinator`, `GenerativeClient`, the placement command | `jobs` | `JobsProofs` |
| `GenerativeHttp` | `HttpGenerativeJobProtocol` over `OpenSslGenerativeHttpTransport` | `jobs` | `JobsProofs` |
| `Accounts` | `AuthenticationService`, `ByokCredentialManager`, `SecretStore`, the choice of the backend and its credential | `mcp_endpoint` | `EngineProofs` |
| `McpEndpoint` | `McpServer`, `RemoteAccessGate`, `McpProtocolHandler`, `McpSessionRegistry` | `mcp_endpoint` | `EngineProofs` |
| `DecodePool` | `media/DecodeWorkerPool.cpp`, `media/DecoderClipFrameProvider.cpp` | `decode_pool` | `DecodePoolProofs` |
| `DecoderTeardownQueue` | `media/DecoderTeardownQueue` | `media_parts` | `MediaPartsProofs` |
| `PeakEnvelopes` | `media/PeakEnvelopeService`, its cache, the view that paints them | `media_parts` | `MediaPartsProofs` |
| `Decoding` | `media/MediaDecoder` over its FFmpeg backend | `media_parts` | `MediaPartsProofs` |
| `AudioMixing` | `media/AudioEngine`: which samples a window is mixed from | `media_parts`, `shared_engine` | `MediaPartsProofs` |
| `AudioSinks` | `AudioSinkSelector` and the PipeWire, ALSA and null sinks | `media_parts` | `MediaPartsProofs` |
| `Rendering` | `gpu/Compositor::renderAt()`, `FramePool`, `LutCache` | `media_parts` | `MediaPartsProofs` |
| `Playback` | `PreviewController`, `AudioPlaybackDriver`, `AudioTransportSync`, `ScrubAudioController`, the clock of `AudioEngine` | `playback` | `PlaybackProofs` |
| `AppLifecycle` | `app/main.cpp`, `app/ApplicationComposition` | `jobs`, `rasterizer_lifetime` | `JobsProofs` |
| `MCClipEditing`, `MCToolCalls` | the engine over the commands of `ClipCommands`, the arguments handlers may pass, small timelines; tool calls over that | | |
| `MCMediaImport`, `MCEndpoint`, `MCMediaParts`, `MCAppParts`, `MCJobs` | the instances of several components in one run | | |
| `MCPool` | the instances of one component | | |
| `SequenceLemmas` | the facts about sequences that the proofs share | | itself |

Components that share state are composed: `MediaImport` extends `ProjectSession`,
`ToolCalls` extends `TimelineEngine`, `Playback` holds its five classes at once. In a
run of several parts that share nothing, a behaviour is one of one part, chosen in
the initial state, and the others rest in their initial states: the parts have one
state space beside the other and not the product of all.

The parts that only compute (curves, keyframes, pixel kernels, JSON text) or only
perform I/O (FFmpeg, Vulkan, ALSA, sockets) are in the list of components of
`PROJECT.json` with the reason they have no module.

### Engine and commands

`project`, `undo` and `redo` are `project_`, `undo_` and `redo_`; `reply` is the
`CommandResult` a call returned and the origin of the `ChangeSet` it emitted.
`past` and `future` are history variables: for every command on a history, the
document it came from or must lead to. `Apply(c, p)` and `Revert(c, p)` are the two
virtual functions of `EditCommand`; each returns the document *and* the command
object, since a command captures state when it is applied. `ApplyOk` and
`ApplyRejected` are the two ends of `TimelineEngine::apply` (the second is the
restored copy), `Undo` and `Redo` include what happens when a command fails half
way, `NothingToDo` is the empty history, and `Reset` and `ResetRefused` are
`reset()`.

`ClipCommands` gives `Apply` and `Revert` as one pair of operators per command. Time
is in ticks, and a playback speed is counted in halves, so that the rounding of
`scaleDuration` happens. What a command captures is the field `cap`. Handlers look
nothing up before they build a command, so commands are offered with clip ids the
project does not hold. `EffectEdits` has the chain of one clip instead of a timeline,
with undo and redo, and the inspector's controls, which act by position.

### Tool calls

`call[t]` is the invocation that thread `t` runs: `counted` is `appliedCount`,
`undone` the loop variable of `rollback()`, `answer` what the handler returned.
`own` and `found` are history variables, the number of commands the call itself
applied and the engine it found, the latter forgotten when anybody else calls the
engine. `Heard` is the observer: it counts every announced `Apply`, whoever made it.
A handler (`HandlerEdits`, `HandlerWalks`) applies commands one after the other, or is
`edit.undo`, `edit.redo`, `project.create` or `project.open`, which call the engine
once. `Return` compares the elapsed time with the budget, which the code does only
after the handler has returned; `UndoOne` is one turn of the rollback. `GuiEdits` and
`GuiWalks` are the panels that bypass the executor. `Callers` are the main thread and
the accept thread of the MCP server, which runs its handlers itself.
`ToolSurface` is the other half: for every tool, the arguments its schema declares,
those the executor refuses, and what the handler makes of those it lets through.

### Session, documents, imports

`doc`, `library`, `revision`, `savedRevision` and `documentPath` are the fields of
`ProjectSession`. A document is a version number and the assets its asset table
lists: an edit makes a new version, and two documents are equal only if they are
the same one. `saves` are the worker threads with the step each has reached (write
a sibling file, rename it, report), `completions` and `inFlight` what they share
with the owner under `completionMutex_`. `Deliver` is one completion of
`pumpSaveCompletions`; `Close` is the destructor; `Crash` loses everything but
`disk`. `overlapped` records that a save or a project load met a save that was still
pending. `ProjectDocument` looks into one document: which fields are written for
which schema version, what a reader insists on and what it fills in.
`MediaImport` adds `imported_`, which lives as long as the program and not as long
as the project; `ImportCalls` takes the call apart (look, mark, probe under a
deadline, register) and lets two threads make it, with files that change meanwhile.

### Exports

`worker.stage` is the program counter of the export thread: encoder selection,
frame loop, `finishExport` in its two steps (queue the outcome under the mutex, then
clear the flag), and the return that runs the output guard. `DialogPump` and
`DialogTest` are the two halves of `onPump()`; the tool waits, cancels and waits
again. `begin()` is split where it is not under a lock: the checks with the snapshot
(`DialogAdmit`, `ToolAdmit`), then the join of the previous worker and the start.
`Encoding` is what one such frame loop does: plan, pictures, the sound of each
picture's interval, the chunks of the audio encoder, the fall back to software.

### Media

`DecodePool`: `step` is the program counter of every thread, the workers and the one
thread that asks for frames (`Renderer`). `asleep` are the threads blocked on
`assetFree_`. An entry of `decoders` has the position the pool believes
(`nextExpected`) and, as a history variable, where the decoder really stands
(`cursor`). The file system, FFmpeg and the seek are outcomes: a decode reaches its
frame, another one, or fails. `DecoderTeardownQueue` and `PeakEnvelopes` have one
action per critical section. In `AudioMixing` a sample is the source position it was
decoded from, in `Decoding` a picture is the packet it came from, in `Rendering` a
picture is the sequence of layers drawn into it; what is shown is left out. In
`AudioSinks` the device takes frames on its own, next to the engine's calls.

`Playback` has the turns of one thread (`Pump`, `DriverTick`, the user's inputs) and,
between them, `Pass` and the timers: the device and the wall clock go on. `transport`
is `PreviewController`, `engine` the part of `AudioEngine` that is its clock, `scrub`
the drag.

### Endpoint, accounts, generation

`McpEndpoint` keeps time as ages. `thread` is where the accept thread is and
`serving` its client, `source` what the gate remembers of each address, `live` and
`issued` the registry. `Accounts` has one action per call of the services, with the
answers of the account server, the providers and the store as outcomes. In
`Generation`, `call[t]` is one `generateAndPlace()` with its program counter; the
history of the engine is kept as the two sequences of documents, since a placement
command takes its media out of the library again when it is undone. `GenerativeHttp`
is one request at a time, from the name lookup to the parsed answer.

### Window and process

`AgentChat` is a turn from the typed line to the transcript, one step per call that
another thread may get in between. `Panels` holds the selection twice, as the code
does, and an edit is told to the inspector and the timeline one after the other
(`telling`). In `FileActions` a prompt is a state (`window`) in which the endpoint goes
on; `call[s]` is `project.save` on each of the two surfaces. `AppLifecycle` is the
order in which `main()` and `ApplicationComposition` construct and destroy, by the
rules of the language, with seven kinds of threads at work. `Members` is every member
that owns something, in the order of the header, and `BuildOrder` the order in which the
constructor makes them, which is another. `Borrows` is what a constructor is given,
`Installed` what a setter hands over later, `DiesFirst` which of these go before their
holder, and `Reaches` what each thread can get to over any of them. The variables
`backend` and `tls` say which of the generative parts this program has.

## 3. Runs

| run | instance | what it shows |
|---|---|---|
| `clip_edits` | a group on two tracks with a crossfade in it, and a title with two cues; two edits of nineteen kinds, walked over in every order | every history is exact, what undo and redo restore is valid, a refused call changes nothing, a trim keeps the retained content, a ripple at unit speed keeps spacing, and keeps grouped angles on tracks of their own together |
| `session` | parts `session`, `import`, `document`: two paths, two versions, two saves, two lives; two files, two ids; three edits of a document of any minor version | clean means saved, documents are whole, library and document agree across create, save, open and restart, documents read back; saves are answered |
| `decode_pool` | two assets, a cache of one, two workers, queues of one, three frames | claims, pictures, cache; every call returns |
| `mcp_endpoint` | parts `endpoint` (two clients, one session, loopback, plaintext and TLS bindings), `accounts` (one user, one provider, two keys) and `tools` (GUI and MCP thread, three edits, one invocation) | sessions and limits, the endpoint answers and stops; keys and locks; the engine implements `LinearHistory` under calls that fail, overrun and roll back |
| `playback` | one rate, a timeline of one and of four pictures, three inputs | the picture at rest and the ownership of the engine; playback comes to rest and picture and sound find each other |
| `media_parts` | parts `teardown`, `envelopes`, `mixing`, `rendering`, `encoding`, `decoding`, `sinks`, `importing` | the properties of each; what has to come to rest does |
| `app_parts` | parts `surface`, `chat`, `panels`, `files`, `effects` | what tools declare is what handlers parse; turns of the chat; panels and file actions; the effect chain and its editor |
| `jobs` | parts `export` (dialog and tool, two exports of two frames), `generation` (two threads, two jobs, one edit), `life`, `http` (two requests, one tick for each deadline) | outcomes, placements, destruction order, credentials; every job ends |

Four runs end in a violation and each is one entry of `findings`:

- `layout_undo`: a layout that names a clip twice captures its "prior" transform a
  second time after the first change, and undo, which restores the entries in order,
  ends with that one.
- `saved_reopens`: `openProject()` asks more of a document than the engine asks of an
  edit, so a saved project may be refused for ever after.
- `shared_engine`: an export renders its sound through the engine that plays, against
  what the composition says of its worker.
- `rasterizer_lifetime`: `main()` destroys the text rasterizer before the composition
  joins an export that calls it.

### Bounds

- **Engine.** `MinCapacity = 2` stands for `UndoRedoStack::kMinCapacity`, which is
  20 in the code: with a bound of two, four edits push commands out of the history
  twice, and undo, redo and reset need no bound at all. `MaxEdits`, counted since the
  last reset, is two where many kinds of command are offered: that is every ordered
  pair of edits with every walk over the history. `Starts` names the projects `reset`
  may bring. `Horizon`, `SourceLength`, `Spans` and `Speeds` are chosen so that clips
  may touch, overlap, leave gaps, be cut to one frame and be clamped at both ends of
  their source, and so that the halves of `scaleDuration` are rounded.
- **Tool calls.** `MaxInvocations = 1`: one call is enough to be disturbed, to evict
  and to be rolled back; `ToolsAbortRestores` is proved for any number of them.
- **Session.** Two saves are the smallest number that can overlap; the revisions let
  an edit, a load and an edit happen around them; the second life opens what the first
  one left. Two files and two ids: a file imported twice, and two files.
- **Endpoint.** With one session and two clients each is refused because of the other;
  a window of one and a threshold of two let failures leave the window and a block run
  out. `MaxIssued` bounds the sessions ever minted.
- **Accounts.** Three units of time let a lock of two run out; two keys let one be
  replaced by a rejected one.
- **Exports, generation, HTTP.** Two frames make a report between 0 % and 100 %; two
  exports and two jobs come from the same or from different callers; one tick lets a
  deadline pass between any two steps.
- **Pool.** With a cache of one every second request evicts; with queues of one a
  prefetched picture fills its queue; two workers and the renderer can all want one
  decoder. `MaxJobs` bounds the job list, which the code does not bound.
- **Playback.** A frame of two ticks and costs of one and five make pictures that are
  in time and pictures that drop others; a seek tolerance of three is met and missed.
- **Media parts.** Three objects over two retiring threads; three assets over a cache of
  two; two renderers over a budget that pictures of two sizes exceed or meet exactly; durations that end
  on, before and after a picture's edge at 24 and 29.97 pictures per second.
- **App parts.** One lane and two clips, three edits by user and endpoint; two effects
  and a curve of two points; two saves by two surfaces around one menu action.
- **Life.** Every component and every thread of the program; the window build with each
  of the three backends, the console build with the offline one, and TLS exactly where
  the backend is hosted: each part that may be missing is missing and there.

`CHECK_DEADLOCK FALSE` is used where the system stops: after the last life, the last
export, the shutdown of the pool, the exit of the process, and where a part reaches a
bound on what the user does. The run of the editing engine checks deadlock.

### Fairness

Threads run: weak fairness of each save worker, the export worker, each decode worker,
each extractor, the teardown worker and each thread that generates, which only
mutexes, a deadline and the file system can hold up. A call that has begun goes on:
the renderer, a sink's call, an import (its probe has a deadline), a request to a
provider (`ClientStep`, with `TickPasses` for the deadlines). Whoever waits keeps
looking: `Deliver` because `awaitSaveCompletions` pumps, `DialogPump` and `DialogTest`
because the dialog's timer fires while it is active, `ViewStep` because the view
repaints when told. `Serve` and `StopReturn` assume a client that is not silent for
ever: the reads of `McpServer` have no deadline. The process steps through `main()`,
posted repaints are handled, a request of the endpoint is answered. In `Playback`,
`DriverTick` with a full window and `EndDrag` are strongly fair: the timer fires again
and again although other turns may disable it, and a drag ends some time. No fairness
is assumed of the user's gestures, of failures or of crashes.

## 4. Proofs

All theorems hold for every value of the constants that the named assumptions allow:
any number of threads, clips, files, sessions, edits and saves, any capacity, any
deadline. Every safety property below is proved along the same path: an inductive
invariant that holds initially, is preserved by every action, and implies it; TLC had
checked the property, and the invariant where it was not obvious, on the small instance.

**`EngineProofs`.** The engine tests nothing in `undo` and `redo`, so it is
correct only together with its commands. The hypothesis is `Contract`, the text of
`EditCommand.hpp:38-70` as a formula over an arbitrary set of commands: a legal call
that succeeds can be reverted exactly, and reapplied with the same result. Under it
`EngineTyped`, `EngineValid`, `EngineBounded`, `EngineExact`, `EngineRefusals` and
`EngineImplementsHistory` (the refinement of `LinearHistory`) hold. `HistoryInv` says
more than `HistoryExact`: every command on the undo history can be reverted *and then
reapplied*, every one on the redo history reapplied *and then reverted*, every document
of `past` and `future` is valid, and both histories together fit the bound. The last is
what makes `redo` safe without a test, the one before what makes `undo` safe without
one.
That the commands of the six command files honour it is `CommandsHonourContract`, and with
it `CommandsExact`: undo and redo of the editor are exact at any depth, with nothing
assumed of its commands. `Documents` is every document whose tracks have identifiers of their
own, also one with overlapping clips, clip identifiers used twice or negative times;
`EditCommands` is every command object with any arguments and any capture of a command.
`MayApply` names the two things a caller has to see to: `AddClip` brings a clip whose
identifier is not in use, since `revert()` erases every clip that has it, and a layout
names each clip once, since `revert()` puts the looks back in the order of `apply()`;
`layout_undo` shows what happens otherwise. Each command has three lemmas. `...GoesBack`
is the work: the captured value put back leads to the whole earlier document, for which
the commands that rewrite one clip or one track rest on `Exchanged` and `TrackRestored`,
those that take out and put in on `OutAndBack` and `BackAndOut`, and those that walk over
several clips (ripple trims, layouts, the erasing of a clip) on what each step of the
fold leaves alone, by `FoldClimbs`. `...Again` says that the capture of an earlier call does not
matter to the next one, and `...Faithful` joins the two with the virtual call.
`EditsKeepTheirContent` is what the comments of the command files promise of trims: a
start trim leaves the end of its clip where it was, and a ripple trim of a group leaves
aligned angles aligned and opens neither gaps nor overlaps. The walk over the group is
described by `AnglesRippled`: after the k-th angle the tracks of the first k are trimmed
(`RippledTrack`) and every other track is untouched. It climbs because no clip is in a
group's walk twice (`TargetsOnce`), every clip keeps its place (`StayPut`), and no two
angles share a track (`OnOwnTracks`, a hypothesis of the property; section 5 says why).
`ToolsUseEngine`: every behaviour of the tool calls is one of the engine, so the
theorems hold with any number of callers. `ToolInv` adds, for every call that nobody
disturbed, where the engine stands relative to what the call found: the undo history is
the found one with its oldest entries dropped, followed by exactly the commands counted
and not yet undone. It makes each turn of the rollback step back to the right document
(`ToolsAbortRestores`), as long as the call applied no more commands than the history
holds.
The ways in: `EndpointInv` says that identifiers are minted once (`Minted`), the registry
keeps its limit (`SessionsBounded`), the thread exists exactly while the server runs,
and what the gate remembers of a source is what happened (`SourcesWatched`): all
refusals since the last admission that are within the window are at the end of its
failures, or a block is on that none of them is as young as. The rate limit follows by
counting an end of an ordered sequence. `AccountsInv`: a lock counts the last rejections
and what lies before them (`LocksHold`); what is filed or authorized was accepted.

**`SessionProofs`.** `SessionInv` adds to the properties of the session: what a pending
save captured is not newer than the session and, at the same revision, is the document
(`Captured`); a queued completion belongs to a reported save (`Queued`); without an
overlap at most one save is pending (`OnePending`) and the document's path and saved
revision were not touched since it was requested (`PendingIsCurrent`); a save that was
renamed has its document on the disk (`Landed`). Imports (`ImportInv`) need that every
document that may come back, captured by a save or on disk, lists a part of the library
of its moment (`InTable`). `DocumentsAreSound` rests on `DocumentInv`: a project never
holds a value that a reader would change (`Canonical`), and a file that was written is
`SerializeProject` of the project that was saved; what `Parse` makes of it is computed
field by field, for every project and not only those of the run.

**`DecodePoolProofs`.** `PoolInv` adds which steps each kind of thread can be in and
that it then has a job or a request (`Roles`), that the thread inside a decode stands
where its claim said (`Positioned`), and what the provider's list is during an open and
an eviction (`Resident`).

**`MediaPartsProofs`.** The teardown queue: `TeardownInv` says where an object can be
(`Places`), that it is in one place only (`Apart`), that the worker ends over an empty
queue (`Emptied`), and that the counts are the sizes of those places (`Counted`).
The envelopes: `EnvelopeInv` says that what is in flight is queued or being extracted
(`InFlightIsWork`), each asset once (`EachOnce`); with any number of extractors.
The encoder: until the end every chunk is whole and the rest is in the queue
(`Chunked`), and what is at the path follows from what each step of the way has opened
(`OnTheWay`). The number of pictures is a quotient rounded up and each interval of sound
the difference of two rounded down; that they cover the timeline and add up is proved
for every rate and length. The decoder: what was given out followed by what is held
back is, in order, what was read since the last seek (`EveryPacketInTurn`, inductive as
it stands), and the time that the next sound is compared with is the last stamped
(`Stamped`). The imports: calls that meet at a location have both been told
(`RivalsKnow`) and what is remembered of a location is listed, or is of an earlier
project (`CacheKnown`). `FilesAreSound` states all three of the run `media_parts`.
The compositor: the layers gathered kind by kind are, within a kind, in the order of
the tracks and of their clips (`GatheredInTurn`), and inserting each behind those of its
track leaves them in order, each once (`Gathered`). The pool (`Accounts`): the bytes of
a sum over renderers change by what one of them takes or gives back (`HeldChanges`), and
reclaiming from the front of the free list takes off what it takes out
(`TotalRemoved`); a render in progress holds a frame and one at rest none. The mixer:
`lru` names an asset once and has as many as `live` counts (`Resident`), kept by each
clip of a window and so by the window. The device: `Where` says which frames the stage of
each call has handed over, played and still holds, for each kind of sink, and `Clock`
what its time is. `OutputIsSound` states the three of the run. The folds
that these modules compute with are functions chosen by the community modules; the first
lemmas prove that they exist, what one step of them does (`SumSteps`) and that a sum does
not depend on the order of its terms (`SumAgrees`), each by a least counterexample.
`PartsAreTyped` adds the types of every part.

**`PlaybackProofs`.** `PlaybackInv` says that a transport that does not play shows the
playhead's picture, failed or ended (`AtRest`), and that scrub sound is heard only in a
drag that may be heard (`Hears`), through pumps of any length.

**`JobsProofs`.** Exports: what each stage of the worker has already done (`Phases`,
`Written`) and where its reports and its outcome then are, with whom (`Outcomes`,
`Reported`); for any number of frames, exports and edits and both callers.
HTTP: the host is proved before anything is written (`HostProved`) and an answer on its
way is and stays true (`AnswerIsTrue`); for any deadlines. Generation: the histories
lead from document to document (`Trail`), the library covers every document a history
can bring back (`Covers`), what a placement brought is used by no older document
(`Exclusive`), and a job that runs is waited for (`JobsInv`). The proof of `Exclusive`
is where the order of `place()` matters: the engine is asked before the library. The
process: `LifeInv` says which components are alive in each phase. Every member has its
place in the order of declaration and its turn in the order of construction (`Declared`,
`Built`, `Ranked`; they are sequences of 39 that join, `TurnsJoin`). Whatever a
constructor is given has the earlier turn and the earlier place, whatever a setter hands
over the earlier place, unless `DiesFirst` names it (`Orders`); so the last one alive can
go without anything left behind that held it (`Dropped`). What a thread reaches is closed
under holding (`Closed`, over the nine as well), and every component it reaches was
declared no later than the one that joins the thread, so it is still there.

**`AppProofs`.** The panels: `PanelsInv` says what the panels that were told of an edit
hold while the others were not (`InspectorCurrent`, `TimelineCurrent`), and that
fields and drags are of the selection (`FieldsFilled`, `DragTracks`). The file actions:
`FilesInv` says that a clean session holds what a save put on disk or what was never
edited (`CleanIsSafe`), that a job took the document of its revision (`JobsCaptured`),
that while the window waits for a save, the session holds what is being saved or may be
replaced anyway (`SavePasses`), and that every completion is in one place (`Dealt`).
`WindowIsSound` puts both under the specification of the run `app_parts`.

The effect chain: `revert()` checks nothing, so `HistoryInv` says of every command on either
history that it leads from one shown clip to the next and back, and that doing it again
would capture the same (`Link`, `Walk`). That every command offered and accepted is such a
link is proved for each kind (`Linked`), the one place where an exact inverse is proved of
commands instead of assumed: it needs effects with identities of their own (`Chain`), so
that an identity finds the effect it was captured of. `EditorsInv`: an editor shows the
points of its effect but for the drag in it (`DragKept`), so that a release is never
refused, and a removal only of the point that is being added, which no command knows yet
(`ToldEditors`). `EffectsAreSound` states it of the part, `ChainIsSound` of the run.

The chat: `ChatInv` says that until the answer the text of a turn is in the input line and
in the draft, and with the orchestrator if it was refused (`TurnKept`); that a message is
submitted only with its mention resolved, so an unresolved one found while the error is
classified was either not submitted or changed by the endpoint under the turn
(`MentionKept`); and that the transcript never ends with the user's entry (`EndsWell`). What
the transcript tells is carried over an entry of the system (`TellsOther`) and over the two
of an answer (`TellsAgent`). `ChatIsSound` states it of the part, `TurnsAreSound` of the run.

The types: `AppIsTyped` is more than bookkeeping for the panels. What a gesture submits may
hold a clip before zero (`LooseClips`); only the engine's check makes it a document
(`Fitted`), and the end of a project is a least bound that exists because a project has
finitely many clips (`HighestOf`).

The tool surface has no constants, but the run draws a client's arguments from each
declaration with one member changed. `HandlersRead` says of any arguments at all that what
the declaration accepts its handler can read, tool by tool but for those that leave a rule
to the handler; `GatewaySpeaks` says that every object the gateway builds has the required
members and only declared ones, each of the declared kind. `CallsAreUnderstood` draws
`SurfaceSound` of the run from the two.

**`SequenceLemmas`.** What appending, taking the head, replacing an element and
concatenating do to the elements of a sequence without repetitions, and `LeastOf`: a set
of naturals that is not empty has a least element, from which the proofs above argue by
a least counterexample where they would use induction. What `InsertAt` and `RemoveAt` do
to the places of the other elements and that one undoes the other (`OutAndBack`,
`BackAndOut`); and that the folds of the community modules are the last value of a
sequence that steps through what is folded (`FoldClimbs`, `SumSteps`).

**Only model-checked.** Liveness: `SavesAnswered`, `CallsReturn`, `EndpointAnswers`,
`TransportSettles`, `PartsSettle` and `JobsEnd` (temporal properties under fairness are
beyond the prover).
`MixIsExact`, which is not true of every constant: two clips of one asset closer together
than the tolerance of a seek share its decoder and lose samples to each other, so the run
lays them apart.

## 5. Divergences that are not runs

Met while modelling. Each is a place where the code does other than a comment, a
document or a reader would expect; the models do what the code does, and state their
properties where it holds.

**Engine and commands**

- `RippleTrim` and `TrimClip` add a source-time difference to a timeline position, so a
  start trim of a clip not at unit speed moves its end, and its followers are shifted by
  source time, against `RippleEditCommands.hpp:66-68`.
- Nothing keeps two clips of one track out of a multicam group. Ripple trimming the start
  of one of them trims the other too, and moves it away from the clip before it.
- `trackOrderedAndNonOverlapping` (`EditCommandSupport.cpp:48`) compares neighbours
  only: a short clip nested in a long one hides an overlap with the clip after.
- `clipsEqual` does not compare speed, transform, fades, keyframes, text and caption, so
  a layout edit emits an empty `ChangeSet`, against `ChangeSet.hpp:26` and `:70`.
- `AddClip` accepts an id that is in use; undoing it removes every clip with that id.
- Retiming a caption cue whose speed is not 1 changes its length on screen, even when
  only the start is given.
- `ReorderEffects` of a chain with a duplicate effect id (which only a file can bring)
  repeats the first and loses the other; a parameter with a curve channel's prefix is
  rewritten as a point of the curve.

**Tool calls**

- The rollback of a call undoes an edit the user made meanwhile, against
  `McpToolExecutor.hpp:66-69`: it counts what it hears, whoever made it.
- An aborted call does not give back the history entries its commands pushed out, nor
  the redo history they cleared, and its commands stay on the redo history, against
  `McpToolExecutor.hpp:61-71`. A call that applied more commands than the history holds
  is rolled back only in part.
- `edit.undo`, `edit.redo`, `project.create` and `project.open` announce no `Apply`:
  when they answer late they are reported as timed out and are not rolled back.
- `add_caption_cue` and `set_caption_text` refuse an empty text and `add_marker` a
  negative time that their declarations accept (`ToolSchema.hpp:6-17`);
  `set_keyframes` reads a fractional `timeNs` as 0.

**Session, documents, file actions**

- A completion that arrives after another project was opened gives that project the old
  path and leaves it unmodified, against `ProjectSession.hpp:59-61`. Two saves that
  overlap may land in the opposite order of their requests.
- An asset that was imported and never placed, and tags set by `media.set_tags`, are
  not in the document: after save and open they are gone although nothing was modified
  (`docs/UPSTREAM_PARITY.md:83` says tags round-trip).
- A saved document keeps the schema version of the file it was opened from, whatever it
  now holds; `isCompatible` refuses a newer minor version although `SchemaVersion.hpp`
  says a 1.4 build reads a 1.5 document; a canvas of 64 bits is cut to 32 when read.
- While a prompt is shown, the endpoint edits, saves and opens, against
  `ProjectFileActions.hpp:14-16`; what it edits after the check is lost unasked.
- With two surfaces in `project.save` at once, the one whose completion the other took
  answers that it was never delivered, although the file is written
  (`ProjectTools.cpp:235-240`). A save that overruns the 60 s budget is answered as
  failed, and cancels the pending open, although it is written.
- Closing the window never asks about unsaved changes; dismissing the picker of a save
  first is shown as an error; `openPath()` and the `saveProject` hook
  (`ProjectTools.cpp:223`) have no user.

**Imports**

- Two surfaces that import one file at once register two assets, against
  `MediaImportService.hpp:8-11`; the pending mark is a set, so the first of two calls
  clears it for both.
- A project put in place during a probe gets the asset; a cached answer may name an asset
  of another project (`MediaImportService.hpp:189-190`).
- The FFmpeg backend reports only I/O errors, so a container nobody reads is answered as
  unreadable and not as unsupported by name; each probe that timed out leaves a thread.

**Exports and audio**

- The dialog's timer stops between the pump and the end of the export and the form is
  never enabled again, against `ExportDialog.hpp:19-22`. The tool answers "cancelled and
  removed" about an export that succeeded, against `ExportCoordinator.hpp:505-507`. The
  pump of one caller may take the outcome the other waits for, and `begin()` drops an
  outcome nobody pumped.
- `begin()` tests the running flag (`ExportCoordinator.cpp:119`) and then joins the old
  worker and starts the new one (`:143-162`) under no lock. The dialog and a tool call may
  both be past the test: one after the other, as modelled, the second drops the first
  one's reports; at the same instant both handle the thread object, and a thread assigned
  over a running one ends the process. That instant is not modelled.
- An incomplete file whose removal fails stays (`ExportEngine.cpp:149-155` ignores the
  error); the model takes the removal to succeed.
- With an acknowledged overwrite, an export that fails before its encoder opens, or
  whose encoder cannot be created, still removes the file that was there.
- `mixWindow()` rounds the samples of each picture (`AudioEngine.cpp:236`): at 29.97
  pictures per second the sound grows by 0.9 s in an hour.
- Two clips of one asset whose source positions are less than 5 ms apart lose samples to
  each other's decoder.
- A hardware decoder's retry decodes the *next* picture although `MediaDecoder.hpp:283`
  says the same frame.
- Playback: scrub audio is started and never pumped (`CHANGELOG.md:436`); an empty
  timeline plays for ever; resuming keeps the old frame index.
- `AlsaAudioSink::stop()` gives the latched position before it is latched; an error of
  PipeWire after streaming began is never noticed; the loop over `ESTRPIPE` has no bound.
- `PeakEnvelopeService`: `forget()` during an extraction lets the old envelope be stored;
  with more assets on screen than the cache holds, painting never rests.
- `DecodeWorkerPool.cpp:15-17` says `shutdown()` waits for every claim; it joins the
  workers and not a caller inside `decodeFor`. The list of prefetch jobs has no bound.
- The renderer is shared by preview, capture and export, against `LutCache.hpp:48`.

**Endpoint, accounts, generation**

- `RemoteAccessGate` counts sessions up and nothing counts them down: after as many as the
  ceiling, every further session is refused with 429, `/health` too. An error of
  `accept()` ends the loop while `running()` stays true.
- A client that says nothing holds up every other client and `stop()`.
- A failed poll leaves the provider's job running; there is no pacing of polls; a time-out
  after the request was written leaves a job nobody knows of; 404 and 409 to a
  cancellation count as done.
- A placement that the engine refuses because it overlaps a clip leaves its asset in the
  library (`GenerativeMediaCoordinator.cpp:341-349`): the engine takes its project back,
  and the library is outside of it. The asset may be placed later by hand, so no property
  speaks against it; `Covers` holds with such assets in the library.
- Name lookup is outside the connect deadline; a server that keeps sending is not subject
  to the other one.
- At a cold start nobody is signed in and no provider is authorized, so the backend
  selected then is the one without credentials; a rejected new key leaves the old one in
  the store, where `ByokGenerativeBackend` reads it without asking `isAuthorized`; locks
  are forgotten at a restart.

**Chat, panels, lifecycle**

- `AgentOrchestrator.cpp:88` appends the user's entry after an interpreter failed although
  the header says the message is not submitted; no selection and no playhead is wired
  (`ApplicationComposition.cpp:516`), so "split at the playhead" never works; an older
  refused text is dropped when another message succeeds.
- A drag that trims outward paints the clip longer, does not extend it, and adds an undo
  step; a drag begun before an endpoint's move overwrites the move; leaving a rounded spin
  box untouched writes the rounded value and clears the redo history.
- Leaving a ColorGrade field applies the colour wheel a second time; a click on an effect
  or a point that the endpoint has moved meanwhile hits its neighbour.
- The callback of a finished envelope checks its token and then posts
  (`MainWindow.cpp:257-263`); the window may go in between.
- The transport that the composition makes for its generative backend is declared after
  it and destroyed before it (`ApplicationComposition.hpp:659` and `:662`, handed over at
  `.cpp:310-312`), against `HostedGenerativeBackend.hpp:62` ("`transport` must outlive
  this backend"). Nothing comes of it today: a backend's destructor does not use the
  transport, and whoever could send a request is destroyed or joined before both.
- What a part was given, mostly by a setter, is destroyed before it in eight more cases:
  the clip frame provider before the compositor whose function decodes through it
  (`.cpp:121`; a function that "must outlive the binding",
  `DecoderClipFrameProvider.hpp:140`), the audio engine before the playback engine that
  has a pointer to it (`.cpp:170-174`), the window before the playback engine and the
  envelope service that call it back, the rasterizer before the compositor and the
  export coordinator, the image encoder before the tool registry, and the startup errors
  before the health monitor that reports them. None of the holders' destructors uses
  them and no thread is left that does, but for an export and the rasterizer
  (`rasterizer_lifetime`) and the posted repaint above.
- `InspectorPanel` ignores what it is told while it draws itself (`refreshing_`,
  `InspectorPanel.cpp:101-105`): an edit of the endpoint in the middle of a drawing stays
  unseen until the next one. In `EffectEdits` a drawing is one step.

## 6. Not modelled, and what is left

Not modelled: geometry and keyframe interpolation, effect kernels, look-up tables,
placement and scopes, which compute; logging and identifiers; transcription, key
moments, captions and still frames; the health monitor and localization; the choice of
the GPU and its context; the project settings dialog, the media browser and other view
models; the application settings. `PROJECT.json` gives the reason for each. Left out
within modelled components: the lists of a `ChangeSet`, file-level validation beyond what
opening a document asks, wording and layout of the panels; the refusals of a render
before it takes a frame, and the cap of 600 frames decoded towards one position.

Outside TLC's and the prover's reach: pixels, samples, codecs, timing in milliseconds, the
JSON text, and data races inside one call. The program runs MCP tool calls on the accept
thread next to the GUI, because `main()` installs no `mainThreadInvoker`; the modules take
each engine call as atomic.

Left to prove: nothing of what the passing runs check but the liveness properties, which
are out of the prover's reach, and `MixIsExact`, which holds of some constants only.
