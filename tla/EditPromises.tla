-------------------------------- MODULE EditPromises -------------------------------
(***********************************************************************************)
(* What trims and ripple trims promise of everything they do not trim, as the     *)
(* comments of core/ClipEditCommands.hpp and core/RippleEditCommands.hpp state it: *)
(* properties of the steps of the timeline engine over the edit commands.         *)
(***********************************************************************************)
EXTENDS TimelineEngine, ClipCommands

(* A call of the command named op succeeded; it is the newest of the history.     *)
Edited(op) == reply'.origin = "Apply" /\ undo' # undo /\ Top(undo').op = op
ThisEdit == Top(undo')

(* The clips a ripple trim of `id` edits are on tracks of their own: the angles of *)
(* a multicam group.  Nothing in the program keeps two clips of one track out of a *)
(* group, and a start trim then moves the later of them away from the earlier.     *)
Angles(p, id) == ToSet(RippleTargets(p, id))

OnOwnTracks(p, ids) == \A x, y \in ids : FindClip(p, x)[1] = FindClip(p, y)[1] => x = y

(* The distance from a clip to the one after it on its track; 0 for the last one. *)
Spacing(p, id) ==
  LET at    == FindClip(p, id)
      clips == p.tracks[at[1]].clips
  IN  IF at[2] = Len(clips) THEN 0 ELSE clips[at[2] + 1].start - End(clips[at[2]])

(* RippleEditCommands.hpp:66-68 and TOOLS.md: a ripple trim shifts every later    *)
(* clip by exactly the change in duration, so it leaves neither a gap nor an      *)
(* overlap, on the track of the trimmed clip and of every grouped one.  So it is   *)
(* for clips that run at the speed of their source, whatever speed the clips      *)
(* around them have.                                                               *)
UnitSpeedRippleKeepsSpacing ==
  [][Edited("RippleTrim") =>
       LET targets == Angles(project, ThisEdit.clip)
           speed(id) == ClipAt(project, FindClip(project, id)).speed
       IN  OnOwnTracks(project, targets) /\ (\A id \in targets : speed(id) = UnitSpeed)
             => \A id \in targets : Spacing(project', id) = Spacing(project, id)]_vars

(* RippleEditCommands.hpp:79: grouped angles that started aligned stay aligned    *)
(* when one of them is ripple trimmed, whatever their speed.                       *)
GroupStaysAligned ==
  [][Edited("RippleTrim") =>
       LET targets == Angles(project, ThisEdit.clip)
           start(p, id) == ClipAt(p, FindClip(p, id)).start
       IN  OnOwnTracks(project, targets) =>
             \A x, y \in targets :
               start(project, x) = start(project, y) => start(project', x) = start(project', y)]_vars

(* ClipEditCommands.hpp:127-128: trimming the start edge of a clip that runs at   *)
(* its source's speed keeps the retained content where it is on the timeline, so   *)
(* the clip still ends where it ended (unless it was stopped at time zero).        *)
TrimKeepsContent ==
  [][Edited("TrimClip") /\ ThisEdit.edge = "start" =>
       LET old == ClipAt(project, FindClip(project, ThisEdit.clip))
           new == ClipAt(project', FindClip(project', ThisEdit.clip))
       IN  old.speed = UnitSpeed /\ new.start > 0 => End(new) = End(old)]_vars

(* What trims and ripple trims promise of everything they do not trim.             *)
EditsKeepContent == TrimKeepsContent /\ UnitSpeedRippleKeepsSpacing /\ GroupStaysAligned
====================================================================================
