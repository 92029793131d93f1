--------------------------------- MODULE AppLifecycle ---------------------------------
(***********************************************************************************)
(* The life of the process: main() (app/main.cpp) checks the platform, builds the *)
(* composition (app/ApplicationComposition), starts the endpoint, shows the       *)
(* window, and takes everything down again, by the language's rules: a scope's    *)
(* objects in the reverse order of their declaration, and so a class's members.   *)
(*                                                                                 *)
(* The parts hold references, pointers and closures into each other, some given   *)
(* to a constructor, some installed later by a setter.  Most of what is held      *)
(* outlives its holder; DiesFirst lists, one by one, what does not.  Checked is   *)
(* that there is nothing else, and that no thread at work while the parts come    *)
(* down gets to anything destroyed.                                               *)
(***********************************************************************************)
EXTENDS Naturals, Sequences, SequencesExt

(* The members that are declared, and made, in one order ...                         *)
FirstParts ==
  <<"gpu", "session", "compositor", "decoderTeardown", "clipFrameProvider", "playbackEngine",
    "peakEnvelopes", "audioProject", "audioEngine", "saveService", "exportCoordinator",
    "mediaImportService", "secretStore", "byokValidator", "byokManager", "authBackend", "auth">>
PipelineParts ==
  <<"genClient", "genGate", "genRunner", "placer", "genCatalog", "genCoordinator",
    "transcriptionBackend", "transcriptionService", "toolRegistry", "executor">>

(* Mistake: the protocol handler is declared after the server that delegates to it.  *)
ProtocolLast ==
  <<"rejectionLog", "remoteAccessGate", "healthMonitor", "mcpSessions", "mcpServer", "mcpProtocol">>

EndpointMembers ==
  <<"rejectionLog", "remoteAccessGate", "healthMonitor", "mcpSessions", "mcpProtocol", "mcpServer">>

(* ... and all members of ApplicationComposition that own something, as declared:    *)
(* they are destroyed in the reverse of this order.                                  *)
Members ==
  FirstParts \o <<"generativeBackend", "generativeTransport">> \o PipelineParts
    \o EndpointMembers \o <<"agentGate", "agent", "startupErrors", "localization">>

(* The order they are made in; the list of startup errors is there from the start.   *)
EndpointOrder ==
  <<"mcpServer", "rejectionLog", "remoteAccessGate", "healthMonitor", "mcpSessions", "mcpProtocol">>
BuildOrder ==
  <<"startupErrors">> \o FirstParts \o <<"generativeTransport", "generativeBackend">>
    \o PipelineParts \o EndpointOrder \o <<"agentGate", "agent", "localization">>

Components == Range(Members)

(* The objects of main() that the composition or the window are given.               *)
Helpers == {"textRasterizer", "imageEncoder"}
-----------------------------------------------------------------------------------
VARIABLES
  shell,     \* "qt" or "console": which main() was built
  backend,   \* the generative backend: "offline", "hosted" over HTTPS, or "injected"
  tls,       \* whether the build has TLS, and so a transport of its own
  phase,     \* where main() is
  built,     \* how many components the constructor has made
  alive,     \* the components and objects that exist
  endpoint,  \* the server: "off", "listening" or "serving"
  busy,      \* the other threads at work
  repaint,   \* the envelope worker's callback: "none" or "checked"
  exitCode   \* 0 or 1 once main() has returned, else 2

lifeVars == <<shell, backend, tls, phase, built, alive, endpoint, busy, repaint, exitCode>>

LifeInit ==
  /\ shell \in {"qt", "console"} /\ backend \in {"offline", "hosted", "injected"}
  /\ tls \in BOOLEAN
  /\ phase = "checking" /\ built = 0 /\ alive = {} /\ endpoint = "off"
  /\ busy = {} /\ repaint = "none" /\ exitCode = 2

(* What this program does without: an injected backend is not owned, and needs no    *)
(* transport; the console shell has neither helpers nor a window.                    *)
Missing ==
  (CASE backend = "injected" -> {"generativeBackend", "generativeTransport"}
     [] backend # "injected" /\ ~tls -> {"generativeTransport"}
     [] OTHER -> {})
  \cup (IF shell = "qt" THEN {} ELSE Helpers \cup {"window"})
Made == Components \ Missing

(* What a part is given when it is made ...                                          *)
Borrows(c) ==
  CASE c = "compositor"           -> {"gpu"}
    [] c = "clipFrameProvider"    -> {"decoderTeardown"}
    [] c = "playbackEngine"       -> {"compositor", "gpu", "session"}
    [] c = "audioEngine"          -> {"session", "audioProject", "decoderTeardown"}
    [] c = "exportCoordinator"    -> {"session", "gpu", "decoderTeardown", "audioEngine",
                                      "textRasterizer"}
    [] c = "mediaImportService"   -> {"session"}
    [] c = "byokManager"          -> {"byokValidator", "secretStore"}
    [] c = "auth"                 -> {"authBackend"}
    [] c = "generativeBackend"    -> IF backend = "hosted"
                                     THEN {"generativeTransport", "secretStore"} ELSE {}
    [] c = "genClient"            -> {"generativeBackend"}
    [] c = "genGate"              -> {"auth"}
    [] c = "genRunner"            -> {"genClient"}
    [] c = "placer"               -> {"session"}
    [] c = "genCoordinator"       -> {"genGate", "genRunner", "session", "placer", "genCatalog"}
    [] c = "transcriptionService" -> {"transcriptionBackend"}
    [] c = "toolRegistry"         -> {"session", "genCoordinator", "generativeBackend",
                                      "genCatalog", "transcriptionService", "compositor",
                                      "exportCoordinator", "mediaImportService", "imageEncoder"}
    [] c = "executor"             -> {"toolRegistry", "session"}
    [] c = "mcpServer"            -> {"executor"}
    [] c = "remoteAccessGate"     -> {"rejectionLog"}
    [] c = "mcpProtocol"          -> {"toolRegistry", "executor", "mcpSessions"}
    [] c = "agentGate"            -> {"auth"}
    [] c = "agent"                -> {"executor", "agentGate", "session"}
    [] c = "window"               -> Components
    [] OTHER                      -> {}

(* ... and what a setter hands it afterwards.                                        *)
Installed(c) ==
  CASE c = "compositor"     -> {"clipFrameProvider", "textRasterizer"}
    [] c = "playbackEngine" -> {"audioEngine", "window"}
    [] c = "peakEnvelopes"  -> {"window"}
    [] c = "auth"           -> {"byokManager"}
    [] c = "mcpServer"      -> {"remoteAccessGate", "mcpProtocol", "healthMonitor"}
    [] c = "healthMonitor"  -> {"gpu", "startupErrors"}
    [] OTHER                -> {}

(* What is held and yet destroyed before its holder.                                 *)
DiesFirst(c) ==
  CASE c = "generativeBackend" -> {"generativeTransport"}
    [] c = "compositor"        -> {"clipFrameProvider", "textRasterizer"}
    [] c = "playbackEngine"    -> {"audioEngine", "window"}
    [] c = "peakEnvelopes"     -> {"window"}
    [] c = "exportCoordinator" -> {"textRasterizer"}
    [] c = "toolRegistry"      -> {"imageEncoder"}
    [] c = "healthMonitor"     -> {"startupErrors"}
    [] OTHER                   -> {}

(* The threads of the running program, the component whose destructor joins each,    *)
(* and the components it can get to from there, over whatever is held.               *)
Threads == {"endpoint", "export", "envelopes", "decoding", "saving", "teardown", "device"}
Joiner(t) ==
  CASE t = "endpoint"  -> "mcpServer"         [] t = "export"   -> "exportCoordinator"
    [] t = "envelopes" -> "peakEnvelopes"     [] t = "decoding" -> "clipFrameProvider"
    [] t = "saving"    -> "session"           [] t = "teardown" -> "decoderTeardown"
    [] t = "device"    -> "audioEngine"
Reaches(t) ==
  CASE t = "endpoint" -> Components
    [] t = "export"   -> {"exportCoordinator", "session", "gpu", "decoderTeardown", "audioEngine",
                          "audioProject"}
    [] t = "device"   -> {"audioEngine", "session", "audioProject", "decoderTeardown"}
    [] t = "decoding" -> {"clipFrameProvider", "decoderTeardown"}
    [] OTHER          -> {Joiner(t)}
-----------------------------------------------------------------------------------
(* checkPlatformCompatibility(): the facts probed, and the verdict on them; a glibc   *)
(* that cannot be told is one too old.  An unsupported platform ends main() at once.  *)
Dependencies == {"FFmpeg", "Vulkan", "LittleCMS", "libsecret"}
PlatformFacts == [architecture : {"x86_64", "other"}, glibc : {"new", "old", "unknown"},
                  loadable : {Dependencies} \cup {Dependencies \ {d} : d \in Dependencies}]

Compatible(facts) ==
  /\ facts.architecture = "x86_64" /\ facts.glibc = "new"
  /\ Dependencies \subseteq facts.loadable

CheckPlatform ==
  /\ phase = "checking"
  /\ \E facts \in PlatformFacts :
       IF Compatible(facts)
       THEN /\ phase' = "building" /\ UNCHANGED exitCode
            /\ alive' = IF shell = "qt" THEN Helpers ELSE {}
       ELSE phase' = "exited" /\ exitCode' = 1 /\ UNCHANGED alive
  /\ UNCHANGED <<shell, backend, tls, built, endpoint, busy, repaint>>

(* The constructor makes the next component, or throws there; a missing one is       *)
(* passed over.                                                                      *)
BuildComponent ==
  /\ phase = "building" /\ built < Len(BuildOrder)
  /\ alive' = alive \cup ({BuildOrder[built + 1]} \cap Made)
  /\ built' = built + 1
  /\ phase' = IF built + 1 = Len(BuildOrder) THEN "starting" ELSE phase
  /\ UNCHANGED <<shell, backend, tls, endpoint, busy, repaint, exitCode>>

ConstructorThrows ==
  /\ phase = "building" /\ phase' = "unwinding"
  /\ UNCHANGED <<shell, backend, tls, built, alive, endpoint, busy, repaint, exitCode>>

(* The members made so far are destroyed in reverse, then main() returns 1.          *)
LastAlive(i) == Members[i] \in alive /\ \A j \in i + 1 .. Len(Members) : Members[j] \notin alive

Unwind ==
  /\ phase = "unwinding"
  /\ \/ \E i \in DOMAIN Members :
          LastAlive(i) /\ alive' = alive \ {Members[i]} /\ UNCHANGED <<phase, exitCode>>
     \/ /\ alive \cap Components = {}
        /\ alive' = {} /\ phase' = "exited" /\ exitCode' = 1
  /\ UNCHANGED <<shell, backend, tls, built, endpoint, busy, repaint>>

(* start(): an endpoint that cannot listen is reported and the editor runs on.  The  *)
(* console build has no window and quits at once.                                    *)
StartEndpoint ==
  /\ phase = "starting"
  /\ endpoint' \in {"off", "listening"}
  /\ phase' = "running"
  /\ alive' = alive \cup (IF shell = "qt" THEN {"window"} ELSE {})
  /\ UNCHANGED <<shell, backend, tls, built, busy, repaint, exitCode>>
-----------------------------------------------------------------------------------
(* The threads.  The endpoint serves one client at a time, until it is stopped; a    *)
(* request or a gesture starts an export, a decode or a save.                        *)
ServeRequest ==
  /\ phase = "running" /\ endpoint = "listening" /\ endpoint' = "serving"
  /\ UNCHANGED <<shell, backend, tls, phase, built, alive, busy, repaint, exitCode>>

RequestAnswered ==
  /\ endpoint = "serving" /\ endpoint' = "listening"
  /\ UNCHANGED <<shell, backend, tls, phase, built, alive, busy, repaint, exitCode>>

StartWork ==
  /\ \/ phase = "running" /\ shell = "qt"
     \/ endpoint = "serving"
  /\ \E t \in Threads \ {"endpoint"} : t \notin busy /\ busy' = busy \cup {t}
  /\ UNCHANGED <<shell, backend, tls, phase, built, alive, endpoint, repaint, exitCode>>

WorkEnds ==
  /\ \E t \in busy : /\ t = "envelopes" => repaint = "none"
                     /\ busy' = busy \ {t}
  /\ UNCHANGED <<shell, backend, tls, phase, built, alive, endpoint, repaint, exitCode>>

(* The ready callback of an envelope: it looks at the window's token, then posts a   *)
(* repaint to the window's graph view.                                               *)
CheckToken ==
  /\ "envelopes" \in busy /\ repaint = "none" /\ "window" \in alive
  /\ repaint' = "checked"
  /\ UNCHANGED <<shell, backend, tls, phase, built, alive, endpoint, busy, exitCode>>

PostRepaint ==
  /\ repaint = "checked" /\ repaint' = "none"
  /\ UNCHANGED <<shell, backend, tls, phase, built, alive, endpoint, busy, exitCode>>
-----------------------------------------------------------------------------------
(* The user quits; stop() waits for the request being served and joins the accept    *)
(* thread; then main()'s scope ends: the window, the helpers, and last, since it is  *)
(* declared first, the pointer to the composition.                                   *)
QuitApplication ==
  /\ phase = "running" /\ phase' = "stopping"
  /\ UNCHANGED <<shell, backend, tls, built, alive, endpoint, busy, repaint, exitCode>>

StopEndpoint ==
  /\ phase = "stopping" /\ endpoint \in {"off", "listening"}
  /\ endpoint' = "off" /\ phase' = "leaving"
  /\ UNCHANGED <<shell, backend, tls, built, alive, busy, repaint, exitCode>>

LeaveScope ==
  /\ phase = "leaving"
  /\ CASE "window" \in alive         -> alive' = alive \ {"window"} /\ UNCHANGED phase
       [] Helpers \cap alive # {} /\ "window" \notin alive
                                     -> alive' = alive \ Helpers /\ UNCHANGED phase
       [] OTHER                      -> UNCHANGED alive /\ phase' = "destroying"
  /\ UNCHANGED <<shell, backend, tls, built, endpoint, busy, repaint, exitCode>>

(* ~ApplicationComposition(): the members in reverse; one that owns a thread joins   *)
(* it first (the export is cancelled, and stops at its next frame).                  *)
DestroyMember ==
  /\ phase = "destroying"
  /\ \/ \E i \in DOMAIN Members :
          /\ LastAlive(i) /\ \A t \in busy : Joiner(t) # Members[i]
          /\ alive' = alive \ {Members[i]} /\ UNCHANGED <<phase, exitCode>>
     \/ /\ alive = {}
        /\ phase' = "exited" /\ exitCode' = 0 /\ UNCHANGED alive
  /\ UNCHANGED <<shell, backend, tls, built, endpoint, busy, repaint>>

LifeNext ==
  \/ CheckPlatform \/ BuildComponent \/ ConstructorThrows \/ Unwind \/ StartEndpoint
  \/ ServeRequest \/ RequestAnswered \/ StartWork \/ WorkEnds \/ CheckToken \/ PostRepaint
  \/ QuitApplication \/ StopEndpoint \/ LeaveScope \/ DestroyMember

(* main() goes on, and the threads end what they began; a user may never quit.       *)
MainStep ==
  CheckPlatform \/ BuildComponent \/ Unwind \/ StartEndpoint \/ StopEndpoint \/ LeaveScope
    \/ DestroyMember

LifeFairness ==
  /\ WF_lifeVars(MainStep) /\ WF_lifeVars(PostRepaint) /\ WF_lifeVars(RequestAnswered)
  /\ \A t \in Threads \ {"endpoint"} : WF_lifeVars(WorkEnds /\ t \in busy \ busy')

LifeSpec == LifeInit /\ [][LifeNext]_lifeVars /\ LifeFairness
-----------------------------------------------------------------------------------
LifeTypeOK ==
  /\ phase \in {"checking", "building", "unwinding", "starting", "running", "stopping",
                "leaving", "destroying", "exited"}
  /\ shell \in {"qt", "console"} /\ backend \in {"offline", "hosted", "injected"} /\ tls \in BOOLEAN
  /\ built \in 0..Len(BuildOrder) /\ alive \subseteq Components \cup Helpers \cup {"window"}
  /\ endpoint \in {"off", "listening", "serving"} /\ busy \subseteq Threads
  /\ repaint \in {"none", "checked"} /\ exitCode \in 0..2

(* Whatever a part holds exists as long as the part does, from the moment it was     *)
(* handed over, but for what DiesFirst names: however far the construction got, and  *)
(* however far the destruction has gone.                                             *)
HeldOutlivesHolder ==
  LET notYet == {BuildOrder[i] : i \in built + 1 .. Len(BuildOrder)} IN
  \A c \in alive :
    (Borrows(c) \cup (Installed(c) \ notYet)) \ Missing \subseteq alive \cup DiesFirst(c)

(* No thread runs with a component gone that it could get to, over any reference,    *)
(* not even over one of those of DiesFirst.  What it can get to is Reaches: that     *)
(* nothing is missing there is looked at once, when everything is in place.          *)
ReachesAll ==
  \A t \in Threads :
    /\ Joiner(t) \in Reaches(t)
    /\ \A c \in Reaches(t) : (Borrows(c) \cup Installed(c)) \cap Components \subseteq Reaches(t)

ThreadsReachTheLiving ==
  /\ phase = "starting" => ReachesAll
  /\ \A t \in busy : Reaches(t) \ Missing \subseteq alive
  /\ endpoint # "off" => Reaches("endpoint") \ Missing \subseteq alive

(* A process that ends leaves nothing behind, and 0 means it had been composed.      *)
ExitIsClean ==
  phase = "exited" => alive = {} /\ busy = {} /\ endpoint = "off"
                      /\ (exitCode = 0 => built = Len(BuildOrder))

LifecycleSound == LifeTypeOK /\ HeldOutlivesHolder /\ ThreadsReachTheLiving /\ ExitIsClean

(* Once it has been asked to, the process ends.                                      *)
QuitEnds == phase = "stopping" ~> phase = "exited"

(* "Declared at this scope so it outlives both composition and app.exec() below, by   *)
(* ordinary C++ scope rules": an export never renders text with a destroyed           *)
(* rasterizer.                                                                        *)
RasterizerOutlivesExports == shell = "qt" /\ "export" \in busy => "textRasterizer" \in alive
===================================================================================
