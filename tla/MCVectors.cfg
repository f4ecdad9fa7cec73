SPECIFICATION FairSpec
CONSTANTS
  a = a
  b = b
  m1 = m1
  m2 = m2
  Null = Null
  Record = {1, 2}
  Content <- MCContent
  Model = {m1, m2}
  Semantic = {TRUE}
  Batch = 1
  Foreign = {b}
  MaxEdits = 1
INVARIANTS
  OneModelOnDisk
  ServedByMeaning
PROPERTIES
  PaidAgainIfLost
  EventuallyServed
