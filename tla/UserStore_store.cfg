\* Registrations and uploads, or visits and bookmarks, over two seconds whose ids
\* are out of order.
CONSTANTS
  Names = {n1, n2}
  Passwords = {p1}
  Titles = {t1, t2}
  Kinds = {video}
  SeedUser = n1
  SeedTitle = t1
  Nobody = nobody
  MaxCollect = 3
  MaxTime = 2
  Stamp <- LaterIsSmaller
  Mixes <- TwoMixes
SPECIFICATION FairSpec
INVARIANTS CacheConsistent AckedIsStored AckedIsServed
PROPERTY Recovers
