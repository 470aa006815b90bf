SPECIFICATION FairLockSpec
CONSTANTS
  Launcher = {l1, l2, l3}
  Warmer = {w1}
  MainLoop = MainLoop
  Nobody = Nobody
  MaxChunks = 3
INVARIANTS CopiesExcluded
PROPERTIES ReturnsUnlessInverted
CHECK_DEADLOCK FALSE
