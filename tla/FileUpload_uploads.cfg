\* Clients that wait, with reads that match sends, two of them on one file; and one
\* that does not wait, with reads cut and merged anywhere.  Both also with files that
\* look like an HTTP request or a JSON number.
CONSTANTS
  s1 = s1
  s2 = s2
  video = video
  page = page
  NoFile = nofile
  Sessions = {s1, s2}
  Names = {video, page}
  Videos = {video}
  Clients <- KindsOfClients
  IntMax = 3
SPECIFICATION FairSpec
INVARIANTS SessionsConsistent StoredCompletely StoredIsKept
PROPERTY UploadsAnswered
CHECK_DEADLOCK FALSE
