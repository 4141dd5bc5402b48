SPECIFICATION Spec
CONSTANTS
  app = app  img = img  None = None  Fim = Fim  Loop = Loop
  i1 = i1  i2 = i2  i3 = i3  i4 = i4
  Ops = {"open","write","rename","tmp_rename","delete","register","restore"}
  Files = {app}
  Uploads = {}
  Scripts = {}
  Committed = {app}
  Inodes = {i1, i2, i3}
  OtherFiles = TRUE
  MaxShadow = 1
  MaxObserved = 1
SYMMETRY InodeSymmetry
INVARIANTS TypeOK Restorable
CHECK_DEADLOCK FALSE
