SPECIFICATION FairSpec
CONSTANTS
  u1 = u1
  u2 = u2
  ch1 = ch1
  Users <- MCUsers
  Channels <- MCChannels
  Programs = {news}
  Subscribed <- MCSubscribed
  Endpoints = {e1}
  Ids = {i1, i2}
  MaxFaults = 1
  NoJob = NoJob
  NoDoc = NoDoc
  NoSetup = NoSetup
PROPERTY
  PanelsHear
  
