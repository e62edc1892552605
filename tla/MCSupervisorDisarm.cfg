\* The claim that the handler is disarmed before every reap.
CONSTANTS
  Leader = toolkit
  Descendants = {}
  StdoutCap = 1
  StderrCap = 1
  PipeCapacity = 1
  MaxWrites <- SmallWrites
  Deadline = 1
  ReaderGrace = 1
  Adversity = {}
SPECIFICATION Spec
INVARIANT
  DisarmPrecedesReap
CHECK_DEADLOCK FALSE
