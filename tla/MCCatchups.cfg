SPECIFICATION Spec
CONSTANTS
  u1 = u1
  u2 = u2
  ch1 = ch1
  Users <- MCUsers
  Channels <- MCChannels
  Programs = {news, film}
  Subscribed <- MCSubscribed
  Endpoints = {e1}
  Ids = {i1, i2, i3}
  MaxFaults = 2
  NoJob = NoJob
  NoDoc = NoDoc
  NoSetup = NoSetup
SYMMETRY MCSymmetry
INVARIANTS
  TypeOK
  
  ListedIsStored
  AnnouncedIsComplete
  OnlyFaultsStrand
  RecordedAtValidEndpoint
