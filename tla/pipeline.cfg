SPECIFICATION FairSpec
CONSTANTS
  a1 = a1  a2 = a2  k1 = k1
  Newline = Newline  Never = Never
  Alerts = {a1, a2}
  Keys = {k1}
  KeyOf <- TwoKeys
  MaxRecentAlerts = 1
  DedupWindow = 1
  MaxTime = 1
  MaxRestarts = 1
INVARIANTS TypeOK AuditedFirst
PROPERTIES KeepsPromise SuppressedForAReason QueuedArrives
CHECK_DEADLOCK FALSE
