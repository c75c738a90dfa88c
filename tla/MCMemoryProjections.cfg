CONSTANTS
  StreamKind <- MCStreamKind
  AttemptOf <- MCAttemptOf
  UserOf <- MCUserOf
  Payloads <- MCPayloads
  Rules = {"r1", "r2"}
  MaxSealed = 5
SPECIFICATION MemorySpec
INVARIANTS
  DeliveryIsChecked
  LearningCountsOnce
  IndexesAreLastWord
CHECK_DEADLOCK FALSE
