SPECIFICATION SafeSpec
CONSTANTS
  s1 = s1
  s2 = s2
  None = None
  UsualPort = 49152
  Searches <- MCOneSearch
  Addresses <- MCAddresses
  Lan <- MCLan
  Strangers <- MCStrangers
INVARIANT UsualPortIsScanned
