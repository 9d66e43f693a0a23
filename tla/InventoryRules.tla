--------------------------- MODULE InventoryRules ---------------------------
(***************************************************************************)
(* app/inventory/validation.py: the rules a desired state is checked by    *)
(* before it is committed and before a run is started.  A finding is its   *)
(* level and its rule.                                                     *)
(***************************************************************************)
EXTENDS InventoryDocument, HostReadings

Rule(holds, level, rule) == IF holds THEN {<<level, rule>>} ELSE {}

\* ipaddress.ip_network refuses a prefix length no network has, and what it
\* raises is caught nowhere.
ComparesGateway(node) == IsAddress(node.gateway_addr) /\ IsAddress(node.ansible_host)
ValidateRaises(inventory) ==
  \E name \in DOMAIN inventory.hosts :
    LET node == inventory.hosts[name] IN
    ComparesGateway(node) /\ node.subnet \notin 0..Width

AddressFindings(node) ==
  Rule(~IsAddress(node.ansible_host), "error", "administration_address_is_an_address")
    \cup Rule(IsLoopback(node.ansible_host), "error",
              "administration_address_is_not_loopback")
    \cup Rule(node.network_interface = NoText, "error",
              "administration_interface_is_named")

GatewayFindings(node) ==
  Rule(node.gateway_addr = NotAddress, "error", "gateway_is_an_address")
    \cup Rule(ComparesGateway(node)
                /\ ~SameNetwork(node.gateway_addr, node.ansible_host, node.subnet),
              "error", "gateway_is_reachable")

PtpFindings(node) ==
  Rule(node.role = "observer" /\ node.ptp_interface # NoText, "warning",
       "observer_has_no_ptp")
    \cup Rule(node.role = "hypervisor" /\ node.ptp_interface = NoText, "warning",
              "hypervisor_has_ptp")
    \cup Rule(node.ptp_interface \notin {NoText} /\ node.ptp_interface = node.network_interface,
              "warning", "ptp_is_not_the_administration_interface")

IsolcpusFindings(node) ==
  LET isolated == ParseCpuList(node.isolcpus) IN
  Rule(node.isolcpus = <<>>, "warning", "isolation_is_configured")
    \cup Rule(node.isolcpus # <<>> /\ isolated = {}, "error", "isolcpus_is_a_cpu_list")
    \cup Rule(0 \in isolated, "error", "cpu_zero_stays_housekeeping")

ValidateHost(name, node) ==
  Rule(name \notin MachineNames, "error", "host_key_is_a_hostname")
    \cup AddressFindings(node)
    \cup GatewayFindings(node)
    \cup Rule(NotAddress \in node.dns_servers, "error", "dns_servers_are_addresses")
    \cup PtpFindings(node)
    \cup Rule(node.ntp_servers = {}, "warning", "ntp_fallback_exists")
    \cup Rule(node.grub_password \notin {NoText, "hash"}, "error", "grub_password_is_a_hash")
    \cup IsolcpusFindings(node)

ValidateHosts(inventory) ==
  UNION {ValidateHost(name, inventory.hosts[name]) : name \in DOMAIN inventory.hosts}

ValidateAcrossHosts(inventory) ==
  Rule(\E a, b \in DOMAIN inventory.hosts :
         a # b /\ inventory.hosts[a].ansible_host = inventory.hosts[b].ansible_host,
       "error", "addresses_are_unique")

Validate(inventory) ==
  Rule(inventory.hosts = <<>>, "error", "at_least_one_host")
    \cup Rule(inventory.mode = "standalone" /\ Cardinality(DOMAIN inventory.hosts) > 1,
              "error", "standalone_is_one_machine")
    \cup ValidateHosts(inventory)
    \cup ValidateAcrossHosts(inventory)

Errors(inventory) == {finding[2] : finding \in {f \in Validate(inventory) : f[1] = "error"}}
Valid(inventory) == Errors(inventory) = {}

=============================================================================
