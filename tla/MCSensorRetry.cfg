SPECIFICATION Spec
CONSTANTS
  Function = {probe}
  Unassigned = Unassigned
  Session = {s1, s2}
  None = None
  SeqMod = 5
  RxQueueSize = 1
  RepairAfter = 1
  StableInput = FALSE
  CommandsOften = TRUE
SYMMETRY Sessions
INVARIANTS ConfirmedIsDriven
