\* A toolkit that may do anything, without signals.
CONSTANTS
  Leader = toolkit
  Descendants = {helper}
  StdoutCap = 1
  StderrCap = 1
  PipeCapacity = 1
  MaxWrites <- OversizedWrites
  Deadline = 2
  ReaderGrace = 2
  Adversity = {"fork", "setsid", "close", "quit_early", "fail", "spawn_error", "wait_error", "read_error"}
SPECIFICATION Spec
INVARIANTS
  TypeOK
  SupervisorKillsOnlyItsGroup
  OkMeansWhole
  SizeRefusalWins
  SweptWhenRefused
  CollectionGraceShared
CHECK_DEADLOCK FALSE
