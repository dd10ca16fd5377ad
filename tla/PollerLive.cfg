SPECIFICATION FairSpec
CONSTANTS
  MaxEntries = 2
  MaxWorkers = 1
  Answers <- TwoAnswers
  Faults = {Hung, Raises}
  Hung = Hung
  Raises = Raises
  None = None
  Generations = 1
  PollInterval = 1
INVARIANT FreshReadings
PROPERTIES
  ImplementsBoard
  SettledIsShown
  StallIsReported
  PollingRecovers
