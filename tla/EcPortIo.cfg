SPECIFICATION FairSpec
CONSTANTS
  Threads = {t1, t2}
  Offsets <- MCOffsets
  Values <- MCValues
  NoCall = NoCall
  NoValue = NoValue
  Pending = Pending
  Done = Done
  NoOwner = NoOwner
INVARIANTS TypeOK LatchesAreOwn
PROPERTIES RamImplemented EveryAccessReturns
