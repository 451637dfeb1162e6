SPECIFICATION FairSystemSpec
CONSTANTS
  u1 = u1
  d1 = d1
  d2 = d2
  Users <- MCUsers
  Devices <- MCDevices
  Owner <- MCOwner
  SubClients = {s1}
  HttpClients = {h1}
  Panels = {p1}
  Streams = {}
  NoDevice = NoDevice
  NoStream = NoStream
  MaxCopies = 2
  MaxTasks = 2
CONSTRAINT OneLoginEach
PROPERTY
  PanelsLearn
