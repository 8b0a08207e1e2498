SPECIFICATION Spec
CONSTANTS
  p1 = p1
  p2 = p2
  Paths = {p1, p2}
  NoPath = NoPath
  TitleOf <- DistinctTitles
  Rank <- RankOf
  w1 = w1
  s1 = s1
  s2 = s2
  c1 = c1
  c2 = c2
  Workers = {w1}
  Scans = {s1, s2}
  Debounces = {c1, c2}
  MaxGames = 2
  MaxDiskOps = 2
  MaxReindex = 1
  MaxRestarts = 0
  PartialScans = TRUE
INVARIANT TypeOK
INVARIANT OneHome
PROPERTY KeepsUntouchedFiles
CONSTRAINT Within
SYMMETRY Alike
