SPECIFICATION FairSpec
CONSTANTS
  Nets <- MCNets
  Spoken <- MCSpoken
  Words <- MCWords
  NoNet = NoNet
  WaitLimit = 1
  Images <- MCImages
  Wired <- MCWired
  DhcpTries = 1
  MaxBoots = 2
INVARIANTS
  RootCanLogIn
  KeepsIdentity
  ClaimIsBacked
PROPERTIES
  EndsOrWaits
  RunsAsMicroInit
CHECK_DEADLOCK FALSE
