SPECIFICATION FairSpec
CONSTANTS
  Slots <- MCSlots
  Inodes <- MCInodes
  NoInode <- MCNoInode
  Workers <- MCWorkers
  Hosts <- MCHosts
INVARIANTS
  TypeOK
  AloneUnlessOrphaned
PROPERTIES
  LicenseEnforced
  LocalStopObeyed
