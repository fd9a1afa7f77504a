SPECIFICATION AllSpec
CONSTANTS
  Threads = {t1, t2, t3}
  Blobs = {b1, b2}
  Empty = Empty
  Writers = {w1}
  States = {s1, s2, s3}
  Inodes = {i1, i2, i3}
  None = None
  Garbage = Garbage
  Byte = 256
  Word = 65536
  KeyLen = 2
  Filled <- SomeSessions
  Accounts <- SomeData
  Received <- SomeStrings
INVARIANTS TypeOK CoherentUnlessRaced
PROPERTIES StorageUnlessRaced StoresKeep
