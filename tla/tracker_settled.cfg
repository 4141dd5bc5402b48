\* Every event arrives, and a pid comes back only when the daemon is done with it.
SPECIFICATION Spec
CONSTANTS
  p1 = p1  p2 = p2  p3 = p3  None = None
  php = php  npm = npm  sh = sh  upl = upl
  Pids = {p1, p2, p3}
  Images = {php, npm, sh}
  WebImages = {php}
  InstallImages = {npm}
  ContainedImages = {}
  ShellImages = {sh}
  UntrustedImages = {sh}
  ProtectedImages = {sh}
  Activities = {"MapExec", "DupSocket", "Ptrace", "Secret"}
  Preexisting = {p2, p3}
  Switchable = {}
  Audit = FALSE
  Lossy = FALSE
  PromptReuse = FALSE
  Ageing = FALSE
  Recycled = {p1}
  MaxStream = 1
SYMMETRY PidSymmetry
INVARIANTS TypeOK InstallContextRooted ViewIsTrue NobodyEscapes KillsOnlyJudged CleanupHitsOnlyLeftovers
CHECK_DEADLOCK FALSE
