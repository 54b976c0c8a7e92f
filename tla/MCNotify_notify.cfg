SPECIFICATION FairSpec
CONSTANTS
  Count = 1
  Published <- MCPublished
  AlertRejections = FALSE
  MaxFaults = 1
INVARIANTS
    AlertedOnce
    AuditIsComplete
    FilledBeforeClosed
PROPERTIES
    EventsAreSettled
CHECK_DEADLOCK FALSE
