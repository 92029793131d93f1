------------------------------- MODULE MCAppParts -------------------------------
(* One run for parts of the application that share no state: the tool surface,   *)
(* the agent chat, the panels that edit clips, the file menu and the chain of    *)
(* effects.  A behaviour is one of one part; the others rest in their initial    *)
(* states.                                                                       *)
EXTENDS ToolSurface, AgentChat, Panels, FileActions, EffectEdits

VARIABLE part

mcVars == <<part, surfaceVars, chatVars, panelVars, fileVars, effectVars>>

MCInit ==
  /\ part \in {"surface", "chat", "panels", "files", "effects"}
  /\ SurfaceInit /\ ChatInit /\ PanelsInit /\ FilesInit /\ EffectsInit
  /\ part # "chat" => ~authorised /\ installed = "offline"
  /\ part # "panels" => project.clips[CHOOSE id \in Clips : TRUE] # None

MCNext ==
  /\ UNCHANGED part
  /\ IF part = "surface" THEN SurfaceNext ELSE UNCHANGED surfaceVars
  /\ IF part = "chat" THEN ChatNext ELSE UNCHANGED chatVars
  /\ IF part = "panels" THEN PanelsNext ELSE UNCHANGED panelVars
  /\ IF part = "files" THEN FilesNext ELSE UNCHANGED fileVars
  /\ IF part = "effects" THEN EffectsNext ELSE UNCHANGED effectVars

MCSpec == MCInit /\ [][MCNext]_mcVars

AppTypeOK == SurfaceTypeOK /\ ChatTypeOK /\ PanelsTypeOK /\ FilesTypeOK /\ EffectsTypeOK

(* What the main window owes the user: panels that show the project they edit, and *)
(* menu actions that replace it only when asked (ProjectFileActions.hpp:14-20).    *)
WindowSound == PanelsSound /\ FileActionsSound
=================================================================================
