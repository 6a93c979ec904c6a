SPECIFICATION BoardSpec
CONSTANTS
  None = None
  n1 = n1
  n2 = n2
  x1 = x1
  b1 = b1
  Team = {t1, t2}
  Name = {n1, n2}
  Date = {1, 2, 3}
  Brand = {b1}
  Doctor = {x1}
  Importer = {p1, p2}
  Handler = {h1}
  Batch <- Files
  MaxRuns = 2
  MaxVersion = 2
  YearStart = 1
  MonthStart = 2
  Today = 3
  OnePercent = 2
  MaxBrandRank = 2
CHECK_DEADLOCK FALSE
SYMMETRY Symmetry
INVARIANTS
  BoardTypeOK
  AllOrNothing
  OnlyTeamEditsDoubleCount
  StampCoversFigures
  SummaryShowsTheSource
  HeadlineIsAMean
  BrandsClassified
PROPERTY OnlyImportsOrphanDoctors
