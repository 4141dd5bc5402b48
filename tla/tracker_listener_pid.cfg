\* The pid of an exited listener is given to another process.
SPECIFICATION Spec
CONSTANTS
  p1 = p1  p2 = p2  p3 = p3  None = None
  php = php  npm = npm  sh = sh  upl = upl
  Pids = {p1, p2}
  Images = {php, npm, sh}
  WebImages = {php}
  InstallImages = {npm}
  ContainedImages = {}
  ShellImages = {sh}
  UntrustedImages = {}
  ProtectedImages = {}
  Activities = {"Listen"}
  Preexisting = {}
  Switchable = {}
  Audit = FALSE
  Lossy = FALSE
  PromptReuse = FALSE
  Ageing = FALSE
  Recycled = {p1}
  MaxStream = 2
INVARIANTS WebVerdictsOnlyUnderWeb
CHECK_DEADLOCK FALSE
