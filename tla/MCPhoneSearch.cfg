SPECIFICATION Spec
CONSTANTS
  s1 = s1
  s2 = s2
  None = None
  UsualPort = 49152
  Searches <- MCTwoSearches
  Addresses <- MCFewAddresses
  Lan <- MCLan
  Strangers <- MCNobodyElse
INVARIANTS
  TypeOK
  TriedOnce
  SteadyPhoneIsFound
  RemembersOurPhone
PROPERTY SearchEnds
