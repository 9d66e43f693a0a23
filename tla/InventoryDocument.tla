-------------------------- MODULE InventoryDocument --------------------------
(***************************************************************************)
(* The desired state and its file: app/inventory/model.py, parser.py and   *)
(* renderer.py.  The rules it is validated by are InventoryRules.          *)
(*                                                                         *)
(* Addresses are numbers of Width bits; text that is none is NotAddress,   *)
(* and None and the empty text, which the code treats alike, are Unset.    *)
(* The values of variables the service does not model are left out: their  *)
(* names are what a save could lose.  Lists of servers are sets.  A node's *)
(* extra is one dictionary in the code and two fields here: extra has the  *)
(* names that the service does not model, overrides the values of those    *)
(* that it does, which a client may send and the parser never reads.       *)
(***************************************************************************)
EXTENDS Integers, FiniteSets, Sequences

CONSTANTS
  Width,           \* bits of an address
  Housekeeping,    \* _HOUSEKEEPING_CPUS
  DefaultSubnet,   \* the prefix length of a file that gives none
  MaxDomain,       \* the last PTP domain
  MachineNames,    \* keys of hosts that are host names
  OtherNames,      \* and keys that are not
  SiteVariables    \* variables the service does not model

ASSUME InventoryDocumentAssumption ==
  /\ Width \in Nat \ {0} /\ Housekeeping \in Nat \ {0} /\ MaxDomain \in Nat
  /\ DefaultSubnet \in 1..Width
  /\ MachineNames \cap OtherNames = {}

Unset == -2
NotAddress == -1
NoDomain == -1
NoText == ""

IsAddress(text) == text \in 0..(2^Width - 1)
IsLoopback(text) == text = 2^Width - 1
SameNetwork(a, b, prefix) ==
  a \div 2^(Width - prefix) = b \div 2^(Width - prefix)

FixedHostVars ==
  {"hostname", "ip_addr", "apply_network_config", "ansible_connection",
   "ansible_python_interpreter", "ansible_remote_tmp", "ansible_user"}
DomainAliases == {"timemaster_ptp_domain_number", "ptp_status_vsock_domain_number"}

ASSUME SiteVariablesAssumption ==
  SiteVariables \cap (FixedHostVars \cup DomainAliases) = {}

-----------------------------------------------------------------------------
(* The file: empty, not a mapping with hosts, or the variables of each     *)
(* host, the members of two groups, the isolcpus of a third, and what else *)
(* the site put into groups: other variables of any group, and groups of   *)
(* its own.  The isolcpus of a host, and of the group, are sets of at most *)
(* one CPU list.                                                           *)

Empty  == [text |-> "empty", hosts |-> <<>>, cluster |-> {}, observers |-> {},
           isolcpus |-> {}, groups |-> {}]
Broken == [Empty EXCEPT !.text = "broken"]

\* NodeConfig refuses a prefix length, a domain, or a number that is none: the
\* exception is not InvalidInventory, and nothing catches it.
Subnet(variables) == IF variables.subnet = 0 THEN DefaultSubnet ELSE variables.subnet
\* Mutant: NodeConfig takes whatever it is given.
NodeUnchecked(variables) == FALSE
NodeRaises(variables) ==
  \/ Subnet(variables) \notin 1..Width
  \/ variables.ptp_domain_number \notin {NoDomain} \cup 0..MaxDomain

ParseOutcome(document) ==
  IF document.text = "broken" \/ DOMAIN document.hosts = {} THEN "invalid"
  ELSE IF \E name \in DOMAIN document.hosts : NodeRaises(document.hosts[name])
    THEN "raises" ELSE "parsed"

\* A variable of the host wins over that of its group.
Isolcpus(variables, group) ==
  IF variables.isolcpus # {} THEN CHOOSE text \in variables.isolcpus : TRUE
  ELSE IF group # {} THEN CHOOSE text \in group : TRUE ELSE <<>>

Node(variables, observer, group) ==
  [role |-> IF observer THEN "observer" ELSE "hypervisor",
   ansible_host |-> variables.ansible_host,
   network_interface |-> variables.network_interface,
   subnet |-> Subnet(variables), gateway_addr |-> variables.gateway_addr,
   dns_servers |-> variables.dns_servers, ptp_interface |-> variables.ptp_interface,
   ptp_domain_number |-> variables.ptp_domain_number,
   ntp_servers |-> variables.ntp_servers, admin_user |-> variables.admin_user,
   grub_password |-> variables.grub_password,
   isolcpus |-> Isolcpus(variables, group),
   extra |-> variables.others \ (FixedHostVars \cup DomainAliases),
   overrides |-> <<>>]

\* Groups are read for their members and one variable; the rest is dropped.
Parse(document) ==
  [mode |-> IF document.cluster # {} THEN "cluster" ELSE "standalone",
   hosts |-> [name \in DOMAIN document.hosts |->
                Node(document.hosts[name], name \in document.observers,
                     document.isolcpus)]]

-----------------------------------------------------------------------------
(* The renderer, which knows standalone inventories only, leaves the groups *)
(* of roles empty, and writes one variable of one group.                   *)

\* dict.update.
Update(variables, more) ==
  [v \in DOMAIN variables \cup DOMAIN more |->
     IF v \in DOMAIN more THEN more[v] ELSE variables[v]]

Modelled(node, others) ==
  [ansible_host |-> node.ansible_host, network_interface |-> node.network_interface,
   subnet |-> node.subnet, gateway_addr |-> node.gateway_addr,
   dns_servers |-> node.dns_servers, ptp_interface |-> node.ptp_interface,
   ptp_domain_number |-> node.ptp_domain_number, ntp_servers |-> node.ntp_servers,
   admin_user |-> node.admin_user, grub_password |-> node.grub_password,
   isolcpus |-> {}, others |-> others]

Derived(node) ==
  FixedHostVars \cup IF node.ptp_domain_number = NoDomain THEN {} ELSE DomainAliases

\* Mutant: a variable the service does not model is dropped.
HostVarsWithoutExtra(node) == Update(Modelled(node, Derived(node)), node.overrides)
\* What is in extra wins over the field of the same name, but not over what is
\* written for every host.
HostVars(node) == Update(Modelled(node, node.extra \cup Derived(node)), node.overrides)

\* isolcpus is a variable of the group, written when all who have one agree.
Isolated(inventory) ==
  {inventory.hosts[name].isolcpus : name \in DOMAIN inventory.hosts} \ {<<>>}

Renderable(inventory) == inventory.mode = "standalone"

\* Mutant: the group keeps no variable.
RenderWithoutGroup(inventory) ==
  [text |-> "mapping",
   hosts |-> [name \in DOMAIN inventory.hosts |-> HostVars(inventory.hosts[name])],
   cluster |-> {}, observers |-> {}, isolcpus |-> {}, groups |-> {}]
Render(inventory) ==
  [text |-> "mapping",
   hosts |-> [name \in DOMAIN inventory.hosts |-> HostVars(inventory.hosts[name])],
   cluster |-> {}, observers |-> {}, groups |-> {},
   isolcpus |-> IF Cardinality(Isolated(inventory)) = 1 THEN Isolated(inventory)
                ELSE {}]
=============================================================================
