CONSTANTS
  p = p
  q = q
  NoText = 0
  Text <- Texts
  Said <- OwnText
  Opener = {p, q}
  SessionId <- Ids
  Legacy <- OldTables
  MaxTime = 1
  MaxEvents = 3
SPECIFICATION Spec
SYMMETRY Interchangeable
INVARIANT TypeOK
INVARIANT PromptIsNewest
INVARIANT TitleIsLastReported
INVARIANT OpenMeansMigrated
INVARIANT ListAgreesWithHistory
