SPECIFICATION FairSpec
CONSTANTS
  Gui = Gui
  Worker = {w1}
  Nobody = Nobody
  Motion = Motion
  Budget = 5
  Raises <- AllButOnRereads
  SlowSettle = FALSE
INVARIANTS TypeOK VerifiedOffIsOff
PROPERTIES RetriesEnd OwedIsCarriedOut TerrestrialEndsOff
CHECK_DEADLOCK FALSE
