\* No fault at all: what the service does with a generated signal.
SPECIFICATION FairSpec
CONSTANTS
  Count = 1
  Published <- MCPublished
  AlertRejections = FALSE
  MaxFaults = 0
PROPERTIES
    SignalsAreRecorded
CHECK_DEADLOCK FALSE
