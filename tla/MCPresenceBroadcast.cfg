SPECIFICATION SystemSpec
CONSTANTS
  u1 = u1
  d1 = d1
  d2 = d2
  Users <- MCUsers
  Devices <- MCDevices
  Owner <- MCOwner
  SubClients = {s1, s2}
  HttpClients = {h1}
  Panels = {p1}
  Streams = {}
  NoDevice = NoDevice
  NoStream = NoStream
  MaxCopies = 2
  MaxTasks = 3
CONSTRAINT OneLoginEach
SYMMETRY MCSymmetry
INVARIANTS
  SystemTypeOK
  PanelsConverge
  SnapshotExact
PROPERTY
  ImplementsSessions
