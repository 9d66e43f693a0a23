--------------------------- MODULE MCConfiguration ---------------------------
(***************************************************************************)
(* Instances of Configuration for TLC: addresses of three bits, two        *)
(* housekeeping CPUs, machines, changes and edits that reach every rule    *)
(* and both sides of every boundary.                                       *)
(***************************************************************************)
EXTENDS ConfigurationProperties

Address(family, local, prefix) == [family |-> family, local |-> local, prefix |-> prefix]
Row(link, destination, gateway) ==
  [link |-> link, destination |-> destination, gateway |-> gateway]

\* Eight CPUs, 4 to 6 isolated, a route that is not the default one first.
Plain ==
  [etc_hostname |-> "node", container |-> "c0ffee",
   online |-> <<<<0, 7>>>>, isolated |-> <<<<4, 5>>, <<6, 6>>>>, cmdline |-> <<>>,
   links |-> {"lo", "eno1", "eno2"},
   routes |-> <<Row("eno2", 4, 0), Row("eno1", 0, 1)>>, iproute |-> TRUE,
   addresses |-> [link \in {"lo", "eno1", "eno2"} |->
     IF link = "lo" THEN <<Address("inet", 7, 1)>>
     ELSE IF link = "eno1"
       THEN <<Address("inet6", 6, 1), Address("inet", 3, 2), Address("inet", 5, 1)>>
       ELSE <<Address("inet", 4, 2)>>]]

MCMachines ==
  {Plain,
   \* nothing isolated, as many CPUs as are kept and one more, no prefix length
   [Plain EXCEPT !.isolated = <<>>, !.online = <<<<0, 1>>>>,
      !.addresses["eno1"] = <<Address("inet", 2, 0)>>],
   [Plain EXCEPT !.isolated = <<>>, !.online = <<<<0, 2>>>>],
   \* the command line with its flags, a gateway of its own, a point to point link
   [Plain EXCEPT !.isolated = <<>>, !.cmdline = <<<<>>, <<0, 0>>, <<3, 3>>, <<5, 6>>>>,
      !.routes = <<Row("eno1", 0, 0)>>, !.addresses["eno1"] = <<Address("inet", 3, 3)>>],
   \* a name that is none, a loopback address, and only another has a prefix length
   [Plain EXCEPT !.etc_hostname = "", !.container = "not_a_name",
      !.addresses["eno1"] = <<Address("inet", 7, 0), Address("inet", 2, 2)>>],
   \* no default route, and no iproute2
   [Plain EXCEPT !.routes = <<Row("eno2", 4, 0)>>],
   [Plain EXCEPT !.iproute = FALSE]}

MCFormChanges ==
  {[ansible_host |-> 2], [ansible_host |-> 7, network_interface |-> "eno2"],
   [subnet |-> 0], [subnet |-> 3, ptp_domain_number |-> 0], [gateway_addr |-> Unset],
   [isolcpus |-> <<<<2, 3>>, <<5, 5>>>>], [isolcpus |-> <<>>],
   [isolcpus |-> <<<<>>>>], [dns_servers |-> {NotAddress}], [grub_password |-> "hash"]}

MCClientChanges ==
  {[role |-> "observer", subnet |-> 0], [subnet |-> Width + 1], [grub_password |-> "plain"],
   [extra |-> {}, overrides |-> [ptp_domain_number |-> MaxDomain + 1]]}

MCHostVars ==
  [ansible_host |-> 3, network_interface |-> "eno1", subnet |-> 0, gateway_addr |-> Unset,
   dns_servers |-> {1}, ptp_interface |-> "eno2", ptp_domain_number |-> 1,
   ntp_servers |-> {1}, admin_user |-> "admin", grub_password |-> "hash",
   isolcpus |-> {<<<<3, 3>>>>}, others |-> {"ceph_conf_overrides", "ansible_user"}]
ByHand ==
  [text |-> "mapping", hosts |-> [name \in {"node"} |-> MCHostVars], cluster |-> {},
   observers |-> {"node"}, isolcpus |-> {<<<<4, 5>>>>}, groups |-> {"site_group_vars"}]

\* The inventory of one machine, under a host name and under a name that is none,
\* of two that have one address, with a variable the service models in its extra,
\* and as a cluster, which the renderer refuses.
MCNode == Node(MCHostVars, FALSE, {})
Of(names, node) == [mode |-> "standalone", hosts |-> [name \in names |-> node]]
MCReplacements ==
  {Of({"peer"}, MCNode), Of({"not_a_name"}, MCNode), Of({"node", "peer"}, MCNode),
   Of({"peer"}, [MCNode EXCEPT !.overrides = [ansible_host |-> NotAddress]]),
   [Of({"peer"}, MCNode) EXCEPT !.mode = "cluster"]}

MCHandEdits ==
  {Broken, ByHand, [ByHand EXCEPT !.hosts["node"].isolcpus = {}],
   [ByHand EXCEPT !.hosts["node"].subnet = Width + 1],
   [ByHand EXCEPT !.cluster = {"node"}, !.observers = {}],
   [ByHand EXCEPT !.hosts = [name \in {"node", "peer"} |-> MCHostVars]]}

MCLaunches ==
  {[entry |-> "seapath_setup_main", check |-> FALSE, variables |-> {"skip_reboot_setup"}],
   [entry |-> "seapath_setup_network", check |-> TRUE, variables |-> {}],
   [entry |-> "cluster_remove_machine", check |-> FALSE, variables |-> {"machine_to_remove"}]}

\* What is explored further.  A launch depends on the file, not on the machine,
\* and changes nothing but itself, so that one machine is enough for launches,
\* and the trust, which matters to nobody else, changes over a first commit.
\* Little is claimed of a launch that was bypassed, and an answered one is as one
\* that never was: either is followed over a first file only.  A page of another
\* commit saves nothing, and the last commit is checked but what follows is not.
Explored ==
  /\ commits < MaxCommits
  /\ machine # Plain => commits <= 1 /\ launch.stage = "idle"
  /\ trust # "installed" => Starting /\ commits <= 1
  /\ launch.bypassed \/ launch.stage \in {"answered", "errored"} => commits = 0
  /\ page # NoPage => page.commit = commits

=============================================================================
