CONSTANTS
  Transports = {"stdio", "http"}
  MaxMessages = 3
SPECIFICATION FairSpec
INVARIANTS AnsweredOnceInOrder SessionReleased AccessOutlivesCommand
PROPERTIES Ends
CHECK_DEADLOCK FALSE
