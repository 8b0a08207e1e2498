SPECIFICATION Spec
CONSTANTS
  p1 = p1
  p2 = p2
  Paths = {p1, p2}
  NoPath = NoPath
  TitleOf <- OneTitle
  Rank <- RankOf
  Workers = {w1}
  Scans = {s1}
  Debounces = {c1}
  MaxGames = 2
  MaxDiskOps = 3
  MaxReindex = 0
  MaxRestarts = 0
  PartialScans = FALSE
PROPERTY KeepsUntouchedFiles
