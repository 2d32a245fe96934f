SPECIFICATION Spec
CONSTANTS
  mail = mail
  maps = maps
  Bundles <- MCTwoApps
  TicksPerDay = 2
  Lifetime = 3
  MinDays = 1
  CountApart = FALSE
SYMMETRY Symmetry
INVARIANTS
  TypeOK
  SuccessMeansRenewed
  SeveralEvenings
PROPERTIES
  NoNeedlessSignIn
  RenewsOnlyDue
