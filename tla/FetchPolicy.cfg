SPECIFICATION FairSpec
CONSTANTS
  a1 = a1 a2 = a2 b1 = b1 bad = bad None = None
  Urls = {a1, a2, b1, bad} ValidUrls = {a1, a2, b1} SiteOf <- MC_SiteOf
  MaxRedirects = 2 Budget = 2 MaxTime = 4 MaxBytes = 3 Chunk = 2
  Follows = FALSE
INVARIANTS
  TypeOK StaysOnSite ResponsesClosed AtMostOneLateCall
PROPERTY FetchEnds
CHECK_DEADLOCK FALSE
