SPECIFICATION ApiSpec
CONSTANTS
  MaxEntries = 3
  MaxWorkers = 2
  Answers <- OneAnswer
  Faults = {Raises}
  Hung = Hung
  Raises = Raises
  None = None
  Generations = 3
  PollInterval = 1
INVARIANTS
  TypeOK
  StoreIsWhole
  AnswerTimesNearItsEntries
