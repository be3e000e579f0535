--------------------------- MODULE AbstractMotion ---------------------------
(***************************************************************************)
(* What the mount-motion executor promises its callers, without threads,   *)
(* locks or latches: one motion at a time; a stopped motion commands no    *)
(* further move; a motion ends only at rest.                               *)
(***************************************************************************)
EXTENDS Naturals

CONSTANT MaxClaims   \* bound: motions started in one behaviour

VARIABLES
  started,   \* motions started so far; they are numbered 1, 2, ...
  holder,    \* the motion in flight, or 0
  stopped,   \* the motions a Stop was pressed for
  moving     \* the motion with a command under way, or 0

vars == <<started, holder, stopped, moving>>

Init == started = 0 /\ holder = 0 /\ stopped = {} /\ moving = 0

Begin ==
  /\ holder = 0 /\ started < MaxClaims
  /\ started' = started + 1 /\ holder' = started + 1
  /\ UNCHANGED <<stopped, moving>>

Command ==
  /\ holder # 0 /\ holder \notin stopped /\ moving = 0
  /\ moving' = holder
  /\ UNCHANGED <<started, holder, stopped>>

Rest ==
  /\ moving # 0 /\ moving' = 0
  /\ UNCHANGED <<started, holder, stopped>>

Stop ==
  /\ holder # 0 /\ stopped' = stopped \cup {holder}
  /\ UNCHANGED <<started, holder, moving>>

End ==
  /\ holder # 0 /\ moving = 0 /\ holder' = 0
  /\ UNCHANGED <<started, stopped, moving>>

Next == Begin \/ Command \/ Rest \/ Stop \/ End

Spec == Init /\ [][Next]_vars
=============================================================================
