SPECIFICATION StartSpec
CONSTANTS
  None = None
  Hundred = 1000
  Disks = {1001, 12345}
  Malformed = Malformed
  Absent = Absent
  Junk = Junk
  Infinite = Infinite
  Inputs <- MCInputs
  Uses <- MCUses
  DEFAULT_CONFIG = "diskwatcher.yaml"
  DEFAULT_RUN_DIR = "run/{host}"
  DEFAULT_PID_FILE = "{run_dir}/pid"
  DEFAULT_LOG_FILE = "{run_dir}/log"
  DEFAULT_FILTER = "diskwatcher"
INVARIANTS
  RestSurvives
  OrderCheckAgrees
  SilentEntryIsReported
  HighestLayerWins
  
  PeersComeFromOneLayer
  DerivedFromFinal
