SPECIFICATION MCSpec
CONSTANTS
  k1 = k1
  k2 = k2
  k3 = k3
  Keys = {k1, k2, k3}
  MaxKeys = 2
  Threads = {t1}
  Menus <- AllMenus
  MsPerSec = 2
  MaxEXDurationSec = 3
  MaxExpireAt = 1
  IntHalf = 2
  MaxNow = 3
  Workers = {"a", "b"}
  Mixes <- AllMixes
  MaxOps = 4
INVARIANTS
  TablesAgree
  ExpiryInvisible
  CommandsConfined
  FreshReads
  SerialCount
