------------------------- MODULE HierarchicalExample -------------------------
(***************************************************************************)
(* The audio player of examples/hierarchical.rs: the context of PlayerFSM  *)
(* holds a second machine, VolumeFSM, created by an entry hook, dispatched *)
(* to from inside a process hook and dropped by an exit hook.              *)
(***************************************************************************)
EXTENDS ExampleHooks

Player(v) == Variant("Player", v)
VolumeEvents == {"VolumeUp", "VolumeDown"}

(* `volume_fsm` is Option<VolumeFSM>; the track and the position in it   *)
(* are left out.                                                         *)
PlayerContext == [volume_fsm |-> "None", level |-> 0]
PlayerEvents ==
  Plainly({"Play", "Pause", "Stop"}) \cup {<<"VolumeChange", v>> : v \in VolumeEvents}

(* VolumeFSM: every entry hook writes its level.                           *)
LevelOf == [Low |-> 30, Medium |-> 60, High |-> 100]
Louder == [Low |-> "Medium", Medium |-> "High"]
Softer == [High |-> "Medium", Medium |-> "Low"]

(* The variant the nested process hook answers, if it moves.               *)
VolumeAnswer(v, e) ==
  LET moves == IF e = "VolumeUp" THEN Louder ELSE Softer
  IN  IF v \in DOMAIN moves THEN <<moves[v]>> ELSE << >>

(* volume_fsm.dispatch(&mut ctx.volume_ctx, vol_evt), run to completion    *)
(* inside the process hook of Playing.                                     *)
VolumeDispatch(c, e) ==
  LET to == VolumeAnswer(c.volume_fsm, e)
  IN  IF c.volume_fsm = "None" \/ to = << >> THEN c
      ELSE [c EXCEPT !.level = LevelOf[to[1]], !.volume_fsm = to[1]]

-----------------------------------------------------------------------------
PlayerStopped(c, e) ==
  Block([c EXCEPT !.volume_fsm = "None"],
        IF e = <<"Play">> THEN GoTo(Player("Playing"), c) ELSE Stay(c),
        c)

(* Mutant: the nested machine is created without its init.                 *)
PlayingSkipsInit(c, e) ==
  Block([c EXCEPT !.volume_fsm = "Medium"],
        CASE e = <<"Pause">> -> GoTo(Player("Paused"), c)
          [] e = <<"Stop">> -> GoTo(Player("Stopped"), c)
          [] e[1] = "VolumeChange" -> Stay(VolumeDispatch(c, e[2]))
          [] OTHER -> Stay(c),
        [c EXCEPT !.volume_fsm = "None"])

PlayerPlaying(c, e) ==
  Block([c EXCEPT !.level = LevelOf["Medium"], !.volume_fsm = "Medium"],
        CASE e = <<"Pause">> -> GoTo(Player("Paused"), c)
          [] e = <<"Stop">> -> GoTo(Player("Stopped"), c)
          [] e[1] = "VolumeChange" -> Stay(VolumeDispatch(c, e[2]))
          [] OTHER -> Stay(c),
        [c EXCEPT !.volume_fsm = "None"])

PlayerPaused(c, e) ==
  Reacts(c,
    CASE e = <<"Play">> -> GoTo(Player("Playing"), c)
      [] e = <<"Stop">> -> GoTo(Player("Stopped"), c)
      [] OTHER -> Stay(c))

PlayerHooks(s, c, e) ==
  CASE s = Player("Stopped") -> PlayerStopped(c, e)
    [] s = Player("Playing") -> PlayerPlaying(c, e)
    [] s = Player("Paused") -> PlayerPaused(c, e)
=============================================================================
