\* A toolkit that may hang, hold its pipes open or close them, and a fatal signal at any moment.
CONSTANTS
  Leader = toolkit
  Descendants = {helper}
  StdoutCap = 1
  StderrCap = 1
  PipeCapacity = 1
  MaxWrites <- SmallWrites
  Deadline = 1
  ReaderGrace = 1
  Adversity = {"fork", "setsid", "close", "quit_early", "wait_error", "signal"}
SPECIFICATION FairSpec
INVARIANT
  NoOrphanOnceArmed
PROPERTY
  Returns
CHECK_DEADLOCK FALSE
