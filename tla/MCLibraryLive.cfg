SPECIFICATION FairSpec
CONSTANTS
  p1 = p1
  p2 = p2
  Paths = {p1, p2}
  NoPath = NoPath
  TitleOf <- OneTitle
  Rank <- RankOf
  Workers = {w1}
  Scans = {s1}
  Debounces = {c1}
  MaxGames = 2
  MaxDiskOps = 1
  MaxReindex = 0
  MaxRestarts = 1
  PartialScans = FALSE
PROPERTY EventuallyExact
