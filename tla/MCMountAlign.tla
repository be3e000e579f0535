---------------------------- MODULE MCMountAlign ----------------------------
(* Values for checking MountAlign: the guide camera may see twice the band   *)
(* and is sized down, the main camera may see too little and gets a group of *)
(* its own; a nudge of one axis, screen moves of one and of both.            *)
EXTENDS MountAlign

MCFractions == [c \in Cameras |-> IF c = Narrow THEN {25, 50} ELSE {5, 25}]
MCNudge == [axis |-> 2, dir |-> -1, size |-> 3]
MCNudges == {MCNudge}
MCScreenMoves == {<<MCNudge>>, <<[MCNudge EXCEPT !.axis = 1], MCNudge>>}
=============================================================================
