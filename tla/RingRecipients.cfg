SPECIFICATION Spec
CONSTANTS
  Users = 3
  Installations = 2
  MaxMembers = 2
  MaxInstallations = 2
  BatchGetChunk = 2
  MaxBatchAttempts = 2
  Event = "RING_DETECTED"
  Window = 1
  Horizon = 1
  MaxChanges = 1
  None = None
INVARIANTS
  TypeOK
  OnlyMembersAreRung
  OncePerExecution
  NobodyIsLeftOut
CHECK_DEADLOCK FALSE
