SPECIFICATION Spec
CONSTANTS
  Dirs = {d1, d2}
  Pids = {p1, p2, p3}
  Scripts = {s1}
  OldFiles = {}
  ByHand = {"foreground"}
  HasLsof = TRUE
  Patient = TRUE
  Free = Free
  Stranger = Stranger
  Lookalikes = {d1}
  None = None
SYMMETRY PidSymmetry
INVARIANT CheckoutsKeepApart
