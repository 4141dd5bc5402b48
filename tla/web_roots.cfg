SPECIFICATION Spec
CONSTANTS
  c1 = c1  c2 = c2  root = root  vol = vol  conf = conf
  index = index  deployed = deployed  late = late  data = data  stray = stray
  None = None
  Containers = {c1, c2}
  Dirs = {root, vol, conf}
  Root = root
  WebMounts <- MCWebMounts
  ConfMounts <- MCConfMounts
  Files = {index, deployed, late, data, stray}
  DirOf <- MCDirOf
  Deployed = {deployed}
  Tracked = {index, data}
  QueueCap = 3
  MaxChanges = 2
  MaxFaults = 1
INVARIANTS TypeOK RunningIsWatched StoppedIsForgotten AutomatedIsIndexed
CHECK_DEADLOCK FALSE
