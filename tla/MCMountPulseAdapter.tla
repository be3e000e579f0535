------------------------ MODULE MCMountPulseAdapter ------------------------
(* Model values for checking MountPulseAdapter.                              *)
EXTENDS MountPulseAdapter

NoFaults  == {}
Rearm     == {"rearmWhileMoving"}
AllFaults == FaultKinds
=============================================================================
