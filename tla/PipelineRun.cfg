SPECIFICATION FairSpec
CONSTANTS
  k1 = k1 k2 = k2 k3 = k3 pub1 = pub1 pub2 = pub2 priv = priv six = six
  Labels <- MC_Labels Names <- MC_Names MaxSources = 3
  Numbered <- MC_Numbered
  IPs = {pub1, pub2, priv, six} PublicIPs = {pub1, pub2, six} NoIP = NoIP
  IPv4 = {pub1, pub2, priv} AddressOf <- MC_AddressOf DnsAnswers <- MC_Answers Cap = 2
  Hostname = Hostname Keys = {k1, k2, k3} Blank = Blank Bad = Bad
  NoLimit = NoLimit
  Configs <- MC_Runs
INVARIANTS
  TypeOK Conservation AuditFaithful
  EgressPinned DuplicatesSilent RankIsEarned
PROPERTIES
  TrailSpec RunEnds
CHECK_DEADLOCK FALSE
