------------------------- MODULE MCTrackingEnforcer -------------------------
(* Model values for checking TrackingEnforcer.                               *)
EXTENDS TrackingEnforcer

NothingRaises   == {}
AllButOnRereads == RaiseKinds \ {"onReread"}
=============================================================================
