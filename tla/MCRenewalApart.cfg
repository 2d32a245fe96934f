SPECIFICATION Spec
CONSTANTS
  mail = mail
  maps = maps
  Bundles <- MCTwoApps
  TicksPerDay = 1
  Lifetime = 4
  MinDays = 2
  CountApart = TRUE
INVARIANT MarginOfEachApp
