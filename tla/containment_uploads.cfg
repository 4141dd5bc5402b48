SPECIFICATION FairSpec
CONSTANTS
  app = app  img = img  None = None  Fim = Fim  Loop = Loop
  i1 = i1  i2 = i2  i3 = i3  i4 = i4
  Ops = {"open","write","rename","delete","allowlist"}
  Files = {img}
  Uploads = {img}
  Scripts = {img}
  Committed = {}
  Inodes = {i1, i2}
  OtherFiles = TRUE
  MaxShadow = 0
  MaxObserved = 1
PROPERTIES UnregisteredGoes ElfUploadGoes
CHECK_DEADLOCK FALSE
