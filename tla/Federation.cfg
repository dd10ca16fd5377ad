SPECIFICATION FairSpec
CONSTANTS
  Nodes = {"A", "B"}
  URLs = {"a", "b", "alias"}
  LeadsTo <- MCLeadsTo
  Configured <- MCConfigured
  Discovered <- MCDiscovered
  Asked = {"A"}
  Slots = {1, 2}
  Monitored = {1}
  Readings <- MCReadings
  States = {"good", "bad"}
  MaxPolls <- MCMaxPolls
  None = None
INVARIANTS
  OneHop
  AggregateAddsUp
  CountsFollowList
PROPERTIES
  NeverGoesBack
  PeersAreFollowed
