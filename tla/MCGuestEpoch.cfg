\* The epoch label of votes and of Yb points is not part of their storage slot.
SPECIFICATION Spec
CONSTANTS
  g1 = g1
  g2 = g2
  a1 = a1
  cCurve = cCurve
  cYb = cYb
  cPendle = cPendle
  fake = fake
  absent = absent
  blk1 = blk1
  blk2 = blk2
  f = f
  Garbage = Garbage
  NoAccount = NoAccount
  Gauges = {g1, g2}
  Accounts = {a1}
  Epochs = {0, 2}
  StateRoots = {blk1, blk2, f}
  ChainRoots = {blk1, blk2}
  Addresses <- MCAddresses
  Controller <- MCController
  StateTrie <- MCStateTrie
  StorageTrie <- MCStorageTrie
  Ledger <- MCLedger
  HalfWord = 4
  ProtocolIds = {0, 4, 5, 6}
  AccountProofs <- MCAccountProofs
  StorageProofs <- MCStorageProofs
  MaxRequests = 1
  MaxBatches = 2
INVARIANT EpochIsInTheSlot
CHECK_DEADLOCK FALSE
