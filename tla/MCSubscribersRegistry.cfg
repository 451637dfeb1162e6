SPECIFICATION Spec
CONSTANTS
  u1 = u1
  u2 = u2
  d1 = d1
  d2 = d2
  d3 = d3
  Users <- MCUsers
  Devices <- MCDevices
  Owner <- MCOwner
  SubClients = {s1, s2}
  HttpClients = {h1, h2}
  Streams = {ch1}
  NoDevice = NoDevice
  NoStream = NoStream
  MaxCopies = 2
  MaxTasks = 1
SYMMETRY MCSymmetry
INVARIANTS
  TypeOK
  ListedWhileRegistered
  NoStrayEntry
  OneConnectionPerLoop
  OnlineClientsExact
PROPERTIES
  LoginWrittenUnshared
  RefusedWhileRegistered
