SPECIFICATION Spec
CONSTANTS
  MaxEntries = 2
  MaxWorkers = 1
  Answers <- TwoAnswers
  Faults = {Raises}
  Hung = Hung
  Raises = Raises
  None = None
  Generations = 1
  PollInterval = 1
INVARIANT BadEntryIsContained
