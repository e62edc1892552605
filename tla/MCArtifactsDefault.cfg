\* The kind of proof of a run that does not name one, against the reference of the environment.
SPECIFICATION Spec
CONSTANTS
  a = a
  b = b
  old = old
  new = new
  gauge = gauge
  other = other
  None = None
  NotUnicode = NotUnicode
  Default = Default
  Malformed = Malformed
  Addresses = {gauge, other}
  MaxU64 = 15
  MaxEpoch = 15
  Roots = {"root"}
  Contracts = {gauge, other}
  Runs <- MCRuns
  Starts <- MCStarts
  InputJson <- MCInputJson
  Builds = {old, new}
  ElfFiles <- MCElfFiles
  Values <- MCValues
  MaxRebuilds = 1
SYMMETRY Symmetry
INVARIANT ProofKindDefaultsToPlonk
