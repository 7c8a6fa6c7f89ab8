SPECIFICATION FairSpec
CONSTANTS
  Calls = {c1}
  Turns = {t1}
  UserId = "user"
  AgentId = "agent"
  Other = "chat"
  MaxChunk = 2
  MaxIter = 1
INVARIANTS ArchiveSavesOnce GroundedOnce OneIdentity
PROPERTIES ArchiveReturns
