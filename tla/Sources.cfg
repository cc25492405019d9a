SPECIFICATION SourcesSpec
CONSTANTS
  Repos = {r1}
  Spaces = {w1}
  MaxJobs = 3
  MaxPolls = 2
  Tours <- MCTours
  Keep = 2
INVARIANT SourcesTypeOK
INVARIANT StartedShowsIndexing
INVARIANT NoJobTwice
INVARIANT RegistryKeepsNewest
INVARIANT GhostsAreLate
INVARIANT EachChosenPostedOnce
INVARIANT StartedMeansAnswered
PROPERTY NothingDropped
PROPERTY JobsPageConverges
CHECK_DEADLOCK FALSE
