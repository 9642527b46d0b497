SPECIFICATION Spec
CONSTANTS
  Pools = {p1, p2, p3}
  Scrapers = {s1}
  NCounters = 2
  MaxCount = 1
  Nobody = Nobody
SYMMETRY Symmetry
INVARIANTS
  MetricsTypeOK
  TotalsSurvive
  NeverBoth
  CalmScrapeComplete
  RegistryExact
