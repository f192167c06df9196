SPECIFICATION FairSpec
CONSTANTS
  t1 = t1 t2 = t2 p1 = p1 p2 = p2 old = old new = new
  Paths <- MC_Paths Fold <- MC_Fold Files = {"all", "us"} FileOf <- MC_FileOf
  Dirs = {"root", "by_country"} Root = "root" DirOf <- MC_DirOf
  Contents = {old, new} Absent = Absent Torn = Torn None = None
  Threads = {t1, t2} Procs = {p1} ProcOf <- MC_OneProcess
  Links = {} RefusedPaths = {}
  Jobs <- MC_Bundles MaxCalls = 1 MaxCrashes = 1
INVARIANTS
  TypeOK TargetExclusion BundleComplete IdempotentRun
PROPERTIES
  CallsEnd
CHECK_DEADLOCK FALSE
