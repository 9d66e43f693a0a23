\* Addresses of three bits, three commits.
CONSTANTS
  Width = 3
  Housekeeping = 2
  DefaultSubnet = 1
  MaxDomain = 1
  MachineNames = {"node", "peer"}
  OtherNames = {"not_a_name"}
  SiteVariables = {"ceph_conf_overrides"}
  Shipped = {"seapath_setup_main", "seapath_setup_network", "cluster_remove_machine"}
  Machines <- MCMachines
  FormChanges <- MCFormChanges
  ClientChanges <- MCClientChanges
  Replacements <- MCReplacements
  HandEdits <- MCHandEdits
  Launches <- MCLaunches
  MaxCommits = 3

SPECIFICATION Spec
CONSTRAINT Explored

INVARIANT
  HandMaintainedSurvives

\* The history may be full and the last launch answered.
CHECK_DEADLOCK FALSE
