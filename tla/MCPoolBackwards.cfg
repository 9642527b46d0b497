SPECIFICATION Spec
CONSTANTS
  Pools = {p1, p2}
  Scrapers = {s1}
  NCounters = 1
  MaxCount = 1
  Nobody = Nobody
INVARIANT Monotonic
