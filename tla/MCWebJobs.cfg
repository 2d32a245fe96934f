SPECIFICATION Spec
CONSTANTS
  r1 = r1
  r2 = r2
  p1 = p1
  Nobody = Nobody
  Slots <- MCSlots
  Posters <- MCPosters
  MaxPrompts = 1
  MaxJobLines = 1
  MaxFaults = 1
INVARIANTS
  TypeOK
  ProgressIsReal
  SuccessIsLogged
PROPERTIES
  ImplementsWorkLock
  VerdictIsKept
  GuardComesBack
