SPECIFICATION Spec
CONSTANTS
  stream = stream
  NoJob = NoJob
  Sids = {stream}
  Classes = {"proxy", "vod_relay", "catchup"}
  Layouts <- MCLayouts
  Values = {0, 1}
  MaxEntries = 2
INVARIANTS
  TypeOK
  LastStoredShown
  CatchupPositionsForgotten
  RecentIsCounted
PROPERTY
  RequestSetsOneField
