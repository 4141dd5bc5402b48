SPECIFICATION Spec
CONSTANTS
  app = app  img = img  None = None  Fim = Fim  Loop = Loop
  i1 = i1  i2 = i2  i3 = i3  i4 = i4
  Ops = {}
  Files = {app}
  Uploads = {}
  Scripts = {}
  Committed = {app}
  Inodes = {i1, i2, i3}
  OtherFiles = TRUE
  MaxShadow = 2
  MaxObserved = 1
INVARIANTS PlaceholdersStay
CHECK_DEADLOCK FALSE
