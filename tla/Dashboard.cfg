SPECIFICATION FairSpec
CONSTANTS
  Tabs = {t1}
  Tables = {"space", "sizes"}
  Controls = {"space"}
  Hosts = {"here"}
  Peers = {"there"}
  Answers <- MCAnswers
  Calls = {c1, c2}
  Storage = "works"
  Sent = Sent
  None = None
INVARIANTS
  WishesAreKept
  HealthDecides
PROPERTY PageCatchesUp
