--------------------------- MODULE MCMountMotion ---------------------------
(* Model values for checking MountMotion.                                    *)
EXTENDS MountMotion
=============================================================================
