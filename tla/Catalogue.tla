------------------------------ MODULE Catalogue ------------------------------
(***************************************************************************)
(* app/runs/catalogue.py, the playbooks a node offers, and what            *)
(* app/runs/service.py and adapter.py make of an entry: why it is not      *)
(* offered, which variables it accepts and the command it becomes.         *)
(* Titles, targets, disruptions, notes and reboots are texts for a reader. *)
(***************************************************************************)
EXTENDS InventoryRules

CONSTANT Shipped   \* the entries whose playbook the collection of this image has

MachinePlaybooks ==
  {"seapath_setup_main", "seapath_setup_network", "seapath_setup_timemaster",
   "seapath_setup_libvirt", "seapath_setup_prometheus_exporters",
   "seapath_setup_snmp", "seapath_setup_deploy_seapath_alloc",
   "seapath_setup_hardening"}
ClusterPlaybooks ==
  {"cluster_setup_ha", "cluster_setup_cephadm", "cluster_setup_libvirt",
   "cluster_setup_users", "cluster_remove_machine"}
Playbooks == MachinePlaybooks \cup ClusterPlaybooks

Requires(entry) ==
  {"inventory_valid", "self_trust"}
    \cup IF entry \in ClusterPlaybooks THEN {"cluster"} ELSE {}

Previewable(entry) ==
  entry \notin {"cluster_setup_ha", "cluster_setup_cephadm", "cluster_remove_machine"}

RequiredVariables(entry) ==
  IF entry = "cluster_remove_machine" THEN {"machine_to_remove"} ELSE {}
DeclaredVariables(entry) ==
  RequiredVariables(entry)
    \cup IF entry = "seapath_setup_main" THEN {"skip_reboot_setup"} ELSE {}

-----------------------------------------------------------------------------
\* GET /inventory, and all who ask for the state, raise on a value the model
\* of a machine refuses and on a network no prefix length makes.
StateRaises(document) ==
  \/ ParseOutcome(document) = "raises"
  \/ ParseOutcome(document) = "parsed" /\ ValidateRaises(Parse(document))

\* No inventory has no mode either.
Mode(document) ==
  IF ParseOutcome(document) = "parsed" THEN Parse(document).mode ELSE "none"

UnmetPreconditions(document, trusted) ==
  {condition \in {"inventory_valid", "self_trust", "cluster", "standalone"} :
     CASE condition = "inventory_valid" ->
            ~(ParseOutcome(document) = "parsed" /\ Valid(Parse(document)))
       [] condition = "self_trust" -> ~trusted
       [] OTHER -> Mode(document) # condition}

Blocking(entry, unmet) ==
  (Requires(entry) \cap unmet)
    \cup IF entry \in Shipped THEN {} ELSE {"playbook_present"}

Accepted(entry, variables) ==
  RequiredVariables(entry) \subseteq variables /\ variables \subseteq DeclaredVariables(entry)

\* --check for a preview, the variables, and never --limit.
Command(entry, check, variables) ==
  [playbook |-> entry, check |-> check, extra_vars |-> variables]

=============================================================================
