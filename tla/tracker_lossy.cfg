\* Events may be lost; the TTL and the clean-up tasks still do their work.
SPECIFICATION FairSpec
CONSTANTS
  p1 = p1  p2 = p2  p3 = p3  None = None
  php = php  npm = npm  sh = sh  upl = upl
  Pids = {p1, p2}
  Images = {npm}
  WebImages = {}
  InstallImages = {npm}
  ContainedImages = {}
  ShellImages = {}
  UntrustedImages = {}
  ProtectedImages = {}
  Activities = {"Listen"}
  Preexisting = {}
  Switchable = {p1}
  Audit = FALSE
  Lossy = TRUE
  PromptReuse = FALSE
  Ageing = TRUE
  Recycled = {}
  MaxStream = 1
PROPERTIES StaleNodesGo LeftoversTerminated
CHECK_DEADLOCK FALSE
