SPECIFICATION FairSpec
CONSTANTS
  Slots <- MCSlots
  Inodes <- MCInodes
  NoInode <- MCNoInode
  Workers <- MCWorkers
  Hosts <- MCHosts
PROPERTIES
  StopCommandStops
