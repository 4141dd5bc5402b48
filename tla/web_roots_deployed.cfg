SPECIFICATION Spec
CONSTANTS
  c1 = c1  c2 = c2  root = root  vol = vol  conf = conf
  index = index  deployed = deployed  late = late  data = data  stray = stray
  None = None
  Containers = {c2}
  Dirs = {root, conf}
  Root = root
  WebMounts <- MCWebMounts
  ConfMounts <- MCConfMounts
  Files = {index, deployed, late}
  DirOf <- MCDirOf
  Deployed = {deployed, late}
  Tracked = {index}
  QueueCap = 3
  MaxChanges = 2
  MaxFaults = 0
INVARIANT DeployedIsAllowed
CHECK_DEADLOCK FALSE
