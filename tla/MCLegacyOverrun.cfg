SPECIFICATION Spec
CONSTANTS
  MaxSequence = 3
  MaxAcks = 2
  None = None
  RxQueueSize = 2
  Patient = TRUE
  Paced = FALSE
INVARIANTS ConfirmedIsTaken
