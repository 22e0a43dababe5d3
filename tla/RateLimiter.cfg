SPECIFICATION FairSpec
CONSTANTS
  s1 = s1
  s2 = s2
  Readers = {s1}
  Writers = {s2}
  Limit = 1
  MiB = 5
  CHUNK = 4
  BufSize = 8
  Ticks = 2
  Data = 5
INVARIANTS QuotaRespected
PROPERTIES AllDataMoves
