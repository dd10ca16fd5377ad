SPECIFICATION FairSpec
CONSTANTS
  Dirs = {d1}
  Pids = {p1, p2, p3}
  Scripts = {s1}
  OldFiles = {p1}
  ByHand = {"foreground"}
  HasLsof = TRUE
  Patient = TRUE
  Free = Free
  Stranger = Stranger
  Lookalikes = {d1}
  None = None
INVARIANTS
  OldCopiesEnd
  PidFileNamesDaemon
PROPERTY ScriptsEnd
