\* Settings one at a time, and two runs that prove side by side or one after the other.
SPECIFICATION Spec
CONSTANTS
  a = a
  b = b
  old = old
  new = new
  gauge = gauge
  other = other
  None = None
  NotUnicode = NotUnicode
  Default = Default
  Malformed = Malformed
  Addresses = {gauge, other}
  MaxU64 = 15
  MaxEpoch = 15
  Roots = {"root"}
  Contracts = {gauge, other}
  Runs <- MCRuns
  Starts <- MCStarts
  InputJson <- MCInputJson
  Builds = {old, new}
  ElfFiles <- MCElfFiles
  Values <- MCValues
  MaxRebuilds = 1
SYMMETRY Symmetry
INVARIANTS TypeOK NoOverrideIsDropped NodeIsTheOneAskedFor JsonFollowsItsProof ArtifactIsOfOneProof OutputIsWhatWasCommitted VerifiedBeforeItIsSaved
