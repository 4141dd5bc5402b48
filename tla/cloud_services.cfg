SPECIFICATION FairSpec
CONSTANTS
  left = left  scope = scope  a1 = a1  a2 = a2  None = None
  Names = {left, scope}
  Scoped = {scope}
  Versions <- MCVersions
  Advisories <- MCAdvisories
  Upgrades <- MCUpgrades
  Evidence = {a1}
  Hosts <- MCHosts
  StreamLimit = 1
  MaxRestarts = 1
INVARIANTS TypeOK NoPhantoms DevOnlyWarns VulnerableIsReported InventoryWasTrue UploadedIsInCloud
PROPERTY EvidenceArrives
CHECK_DEADLOCK FALSE
