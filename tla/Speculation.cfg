SPECIFICATION FairSpec
CONSTANTS
  Cells <- MCCells
  Values <- MCValues
  Orders <- MCOrders
  Params <- MCParams
  MaxGen = 1
  Decisions <- MCDecisions
  NoDecision = NoDecision
  Carries <- MCCarries
  NoCarry = NoCarry
  Result <- MCResult
  Decision <- MCDecision
  ProbeResult <- MCResult
  Probe <- MCProbe
  AdmitResult <- MCAdmitResult
  Admission <- MCAdmission
  NoCall = NoCall
  NoPending = NoPending
  MaxJournal = 2
INVARIANTS TypeOK Scoped RollbackExact
PROPERTIES ImplementsDirect WorkerAnswers
