SPECIFICATION CacheSpec
CONSTANTS
  Request = {r1, r2, r3}
  Tenant = {t1}
  Colo = {x1}
  Method = {"GET", "PUT"}
  MaxVersions = 3
INVARIANTS
  GetSeesCompletedWrites
CHECK_DEADLOCK FALSE
