\* Two connections at one or two addresses, the first answering with up to two
\* replies, the second only reading: an IMServer with descriptors for both, a
\* FileServer with one for either.
CONSTANTS
  c1 = c1
  c2 = c2
  Conns = {c1, c2}
  Addrs = {a1, a2}
  None = none
  Servers <- ImAndFile
  MaxMessages <- TwoAndNone
SPECIFICATION FairSpec
INVARIANTS ChannelsConsistent NoAbort DestroyedCleanly SessionPerConnection RepliesInOrder
PROPERTIES NoWriteAfterClose ConnectionsReclaimed ClientsServed
