\* One call against every reply, in pieces of every size.
SPECIFICATION Spec
CONSTANTS
  r1 = r1
  r2 = r2
  None = None
  Byte <- MCByte
  Url <- MCUrl
  Replies <- MCReplies
  Stderrs <- MCStderrs
  Json <- MCJson
  Misfit <- MCMisfit
  Results <- MCResults
  MaxBody = 8
  MaxQuoted = 5
  MaxStderr = 6
  MinRedactablePath = 3
  ConnectTimeout = 2
  ReadTimeout = 3
  TotalTimeout = 6
  Horizon = 8
INVARIANTS TypeOK CapIsExact QuotesAreSanitized StderrIsSanitized
PROPERTY ImplementsCall
