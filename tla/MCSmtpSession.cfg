SPECIFICATION Spec
CONSTANTS
  ManyLines = {"greet", "helo", "auth1", "auth2", "auth3", "mail", "rcpt",
               "data", "text", "quit"}
  MaxLines = 3
  MaxTries = 3
INVARIANT SentIsTaken
INVARIANT HardIsRefused
INVARIANT TextInStep
INVARIANT CopiesExplained
PROPERTY SessionEnds
CHECK_DEADLOCK FALSE
