SPECIFICATION Spec
CONSTANTS
  Entries = {"dir", "far"}
  Directories = {"dir"}
  Machines = {"m1", "m2"}
  Machine <- MCMachine
  Host <- OneName
  Mentions = {}
  None = None
PROPERTIES
  ResultIsTrue
  UnmeasuredHasACause
