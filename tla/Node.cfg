\* Two requests, one restart under either name and at either address.
CONSTANTS
  r1 = r1
  r2 = r2
  start = start
  i1 = i1
  i2 = i2
  Editors <- MCEditors
  Requests <- MCRequests
  Starter = start
  Inodes <- MCInodes
  NoInode = NoInode
  Hosts = {"node", "renamed"}
  Addresses = {"here", "moved"}
  SiteLines = {site_key}
  Ids = {"admin", "viewer"}
  Admins = {"admin"}
  NoCookie = NoCookie
  MaxRestarts = 1
  MaxRequests = 3

SPECIFICATION Spec
SYMMETRY Symmetric
CONSTRAINT Explored

INVARIANTS
  TypeOK
  SiteLinesKept
  RevocationsHold
  InstalledIsCurrent
  UntornNodeServes
  HostKeysCurrent
  OnlyGenuineRequestsEdit
  LiveSessionsNeverErr

PROPERTY
  ImplementsTrustFile

\* The node may have used up its restarts, with every request answered.
CHECK_DEADLOCK FALSE
