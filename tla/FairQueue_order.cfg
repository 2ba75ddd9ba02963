SPECIFICATION FairSpec
CONSTANTS
  Jobs = {1, 2, 3}
  Kinds <- CloseKinds
  Policies <- Tuned
  Quantum = 75
  Horizon = 150
  MaxStreak = 2
PROPERTIES FirstComeFirstServed UrgencyYields TopRoutineServed
