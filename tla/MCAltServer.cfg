SPECIFICATION Spec
CONSTANTS
  c1 = c1
  c2 = c2
  Nobody = Nobody
  Conns <- MCTwoConns
  Bundles <- MCOneBundle
INVARIANTS
  TypeOK
  WaitingHoldsNothing
  CompletionIsReal
PROPERTIES
  InstalledWhenDone
  ImplementsWorkLock
  PhoneIsHandedOn
  AnisetteIsAnswered
