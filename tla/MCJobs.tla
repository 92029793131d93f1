--------------------------------- MODULE MCJobs ---------------------------------
(* One run for the work that outlives the call that began it: exports, generated *)
(* media and the requests to its provider, and the process itself with its       *)
(* threads.  A behaviour is one of one part; the others rest in their initial    *)
(* states.                                                                       *)
EXTENDS ExportCoordinator, Generation, AppLifecycle, GenerativeHttp

CONSTANTS mcp, gui

VARIABLE part

mcVars == <<part, exportVars, generationVars, lifeVars, httpVars>>

MCGenerators == {mcp, gui}

MCInit ==
  /\ part \in {"export", "generation", "life", "http"}
  /\ Init /\ GenerationInit /\ LifeInit /\ HttpInit
  /\ tls = (backend = "hosted") /\ (shell = "console" => backend = "offline")
  /\ part # "life" => shell = "qt" /\ backend = "offline"

MCNext ==
  /\ UNCHANGED part
  /\ IF part = "export" THEN Next ELSE UNCHANGED exportVars
  /\ IF part = "generation" THEN GenerationNext ELSE UNCHANGED generationVars
  /\ IF part = "life" THEN LifeNext ELSE UNCHANGED lifeVars
  /\ IF part = "http" THEN HttpNext ELSE UNCHANGED httpVars

\* The fairness of each part; a part that rests has no step to take.
MCSpec ==
  /\ MCInit /\ [][MCNext]_mcVars
  /\ WF_exportVars(part = "export" /\ Work)
  /\ WF_exportVars(part = "export" /\ DialogStart)
  /\ WF_exportVars(part = "export" /\ ToolStart)
  /\ WF_exportVars(part = "export" /\ DialogPump)
  /\ WF_exportVars(part = "export" /\ DialogTest)
  /\ \A t \in Generators : WF_generationVars(part = "generation" /\ CallStep(t))
  /\ WF_lifeVars(part = "life" /\ MainStep)
  /\ WF_lifeVars(part = "life" /\ PostRepaint)
  /\ WF_lifeVars(part = "life" /\ RequestAnswered)
  /\ WF_httpVars(part = "http" /\ ClientStep)
  /\ WF_httpVars(part = "http" /\ TickPasses)
  /\ \A t \in Threads \ {"endpoint"} : WF_lifeVars(part = "life" /\ WorkEnds /\ t \in busy \ busy')

(* Everything that was begun ends: exports, generations, requests to a provider, *)
(* and a process that has been told to.                                          *)
JobsEnd == ExportsEnd /\ CallsEnd /\ SendsReturn /\ QuitEnds
=================================================================================
