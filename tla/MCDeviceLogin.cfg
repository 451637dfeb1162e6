SPECIFICATION Spec
CONSTANTS
  subs = subs
  http = http
  d1 = d1
  p1 = p1
  p2 = p2
  e1 = e1
  e2 = e2
  undated = undated
  NoDate <- undated
  SubscribersLoop <- subs
  Loops <- MCLoops
  Devices <- MCDevices
  Passwords <- MCPasswords
  Emails <- MCEmails
  MaxTime = 1
  MaxWrites = 3
SYMMETRY Symmetry
INVARIANTS
  TypeOK
  AdmittedAtOnce
  BanIsFinal
  HeldIsActive
PROPERTIES
  OfferHonoured
