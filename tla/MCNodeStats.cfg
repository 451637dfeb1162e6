SPECIFICATION Spec
CONSTANTS
  Word = 24
  Cut = 8
  Powers = {1, 2, 4}
  Starts = {6, 21}
  Frames = {5}
  PerSecond = 2
  MaxTime = 4
  MaxEvents = 3
  MaxChanges = 3
  Bytes = {1, 2}
INVARIANTS
  LoadWithinWhole
  RateIsMean
