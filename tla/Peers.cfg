SPECIFICATION FairSpec
CONSTANTS
  Static <- MCStatic
  Disabled = {"b"}
  Announced = {"b", "c"}
  Probed = {"c"}
  Excluded = {}
  Own = {}
  Payloads = {"p1"}
  Breaks = {"a"}
  Discovers = TRUE
  Interval = 1
  Grace = 3
  PeerInterval = 1
  MaxBusy = 2
  None = None
INVARIANTS
  OrderMatchesRecords
  DisabledIsRespected
  ListMatchesDiscovery
PROPERTIES
  OutageKeepsData
  SingleLossNeverDrops
  SilentPeerGoes
  FetchedStatusSettles
