SPECIFICATION Spec
CONSTANTS
  None = None
  NoUser = NoUser
  u1 = u1
  u2 = u2
  ch = ch
  vod = vod
  cat = cat
  ser = ser
  req = req
  Users <- MCUsers
  Ids <- MCIds
  KindOf <- MCKindOf
  Cids = {0}
  PanelDocs <- MCPanelDocs
  MaxInt32 = 1
  MaxWrites = 1
SYMMETRY Symmetry
INVARIANTS
  TypeOK
  AnswersAreRequested
  
  WholeStaysReadable
