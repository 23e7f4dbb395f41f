SPECIFICATION FairSpec
CONSTANTS
  MaxSequence = 4
  MaxAcks = 2
  None = None
  RxQueueSize = 3
  Patient = TRUE
  Paced = TRUE
INVARIANTS TypeOK ConfirmedIsTaken
PROPERTIES AcknowledgedIsTaken ForwardedOnce ComesBack
