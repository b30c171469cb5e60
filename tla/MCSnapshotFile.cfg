CONSTANTS
  s1 = s1
  s2 = s2
  r1 = r1
  Savers = {s1, s2}
  Readers = {r1}
  Attempts = 2
  SeqSpace = 3
  Filesystems = {{}, {0}}
  OwnName = {2}
  MaxFiles = 3
  OrdinaryFiles = 2
  MaxCrashes = 1
SYMMETRY SaverSymmetry
SPECIFICATION MCSpec
INVARIANTS
  PrimaryIsWhole
  ResultsAreTruthful
  NoStrandedTemporary
PROPERTY EverySaveReturns
