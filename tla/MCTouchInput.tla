---------------------------- MODULE MCTouchInput ----------------------------
(* TouchInput with three control buttons: one latches, two can be swiped   *)
(* onto, one of which latches too. Two gamepad buttons, two slots and two  *)
(* directions. The queue takes four events, as many as a stick sends. Used *)
(* together are sources that share a key: enter, or those of the sticks.   *)
EXTENDS TouchInput

MCKeycodes == [b \in Button |->
    <<CASE b = "latch" -> "control" [] b = "left" -> "z" [] b = "right" -> "x",
      NoCode, NoCode, NoCode>>]

MCGameMap == [g \in Pad |-> IF g = "A" THEN "space" ELSE Sneak]
MCMenuMap == [g \in Pad |-> IF g = "A" THEN "enter" ELSE "shift"]

MCUsing ==
    {{"buttons"}, {"surface"}, {"pad", "hardware"}, {"joystick", "thumbstick"},
     {"app", "hardware", "mouse"}}
=============================================================================
