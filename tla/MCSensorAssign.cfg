SPECIFICATION FairSpec
CONSTANTS
  Function = {probe}
  Unassigned = Unassigned
  Session = {s1, s2, s3}
  None = None
  SeqMod = 2
  RxQueueSize = 1
  RepairAfter = 2
  StableInput = TRUE
  CommandsOften = FALSE
PROPERTIES KnowsItsFunction
