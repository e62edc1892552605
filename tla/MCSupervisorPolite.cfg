\* A toolkit that works, with a chatty stderr.
CONSTANTS
  Leader = toolkit
  Descendants = {}
  StdoutCap = 1
  StderrCap = 1
  PipeCapacity = 1
  MaxWrites <- ChattyWrites
  Deadline = 2
  ReaderGrace = 1
  Adversity = {}
SPECIFICATION PoliteSpec
PROPERTY
  PoliteSucceeds
CHECK_DEADLOCK FALSE
