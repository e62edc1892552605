\* Nodes that conform, whatever their tips, or never answer, and a file that anyone may overwrite.
SPECIFICATION FairSpec
CONSTANTS
  g1 = g1
  g2 = g2
  a1 = a1
  cCurve = cCurve
  cYb = cYb
  cPendle = cPendle
  fake = fake
  absent = absent
  blk1 = blk1
  blk2 = blk2
  f = f
  Garbage = Garbage
  None = None
  Torn = Torn
  Gauges = {g1, g2}
  Accounts = {a1}
  Epochs = {0, 2}
  StateRoots = {blk1, blk2, f}
  ChainRoots = {blk1, blk2}
  Addresses <- MCAddresses
  Controller <- MCController
  StateTrie <- MCStateTrie
  StorageTrie <- MCStorageTrie
  Ledger <- MCLedger
  HalfWord = 4
  Week = 2
  SafetyMargin = 1
  MaxProofSize = 2
  MaxInputSize = 9
  Jobs <- MCJobs
  FileContents <- MCFileContents
  Chain = 1
  Candidates <- MCCandidates
  TimeOf <- MCTimeOf
  TipLag = 1
  ReorgDepth = 1
  FirstSettled = 1
  MaxSettled = 3
  Oddities = {}
INVARIANTS TypeOK HandedIsWorthProving PickedBlockIsSafe
PROPERTY Decides
CHECK_DEADLOCK FALSE
