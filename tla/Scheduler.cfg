SPECIFICATION FairSpec
CONSTANT Guests = {g1, g2, g3}
INVARIANT WakeUpKept
PROPERTIES ClaimIsServed ShutdownDrains
CHECK_DEADLOCK FALSE
