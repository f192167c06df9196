SPECIFICATION Spec
CONSTANTS
  Hosts = {h1, h2, h3} Answers = {ok, nxdomain} NotCached = NotCached None = None
  MaxEntries = 2 TTL = 1 MaxDelay = 1 MaxTime = 4
INVARIANTS
  TypeOK Bounded AnswerIsFresh OldestExpiresFirst
PROPERTY GoodEntriesKept
CHECK_DEADLOCK FALSE
