----------------------------- MODULE Discovery -----------------------------
(***************************************************************************)
(* app/inventory/discovery.py: what a machine proposes about itself, and   *)
(* the inventory a first boot commits from it.                             *)
(***************************************************************************)
EXTENDS InventoryRules

\* What the kernel and iproute2 may say: CPU numbers, IPv4 addresses of Width
\* bits with a prefix length of as many, 0 for none, and links that have names.
Addresses == 0..(2^Width - 1)
CpuLists == Seq({<<>>} \cup (Nat \X Nat))
IsMachine(machine) ==
  /\ {machine.online, machine.isolated, machine.cmdline} \subseteq CpuLists
  /\ machine.routes \in
       Seq([link : STRING, destination : Addresses, gateway : Addresses])
  /\ \A link \in DOMAIN machine.addresses :
       machine.addresses[link] \in
         Seq([family : {"inet"}, local : Addresses, prefix : 0..Width]
               \cup [family : {"inet6"}, local : Nat, prefix : Nat])
  /\ NoText \notin machine.links

\* Ranges of consecutive CPUs, in order.
\* Mutant: a range stays at the CPU it started with.
ExtendRangesNot(ranges, cpu) ==
  IF ranges # <<>> /\ Last(ranges)[2] + 1 = cpu THEN ranges
    ELSE Append(ranges, <<cpu, cpu>>)
ExtendRanges(ranges, cpu) ==
  IF ranges # <<>> /\ Last(ranges)[2] + 1 = cpu
    THEN [ranges EXCEPT ![Len(ranges)] = <<@[1], cpu>>]
    ELSE Append(ranges, <<cpu, cpu>>)

\* The loop of the code visits its list upwards: the ranges of the CPUs below n.
RangesUpTo(cpus, last) ==
  LET ranges[n \in 0..last + 1] ==
        IF n = 0 THEN <<>>
        ELSE IF n - 1 \in cpus THEN ExtendRanges(ranges[n - 1], n - 1)
        ELSE ranges[n - 1]
  IN  ranges
AsCpuList(cpus) == RangesUpTo(cpus, Max(cpus))[Max(cpus) + 1]

\* Observed when the machine has an isolated set, otherwise from the number of
\* CPUs that are online, which is not the number of the last one.
\* Mutant: a machine with no CPU to spare is proposed a range all the same.
ProposeIsolationAlways(isolated, online) ==
  IF isolated # {} THEN AsCpuList(isolated) ELSE <<<<Housekeeping, online - 1>>>>
ProposeIsolation(isolated, online) ==
  IF isolated # {} THEN AsCpuList(isolated)
  ELSE IF online <= Housekeeping THEN <<>>
  ELSE <<<<Housekeeping, online - 1>>>>

\* The first address of a link that is IPv4, and the first that has a prefix
\* length too; no address is address 0.
FirstInet(machine, link) ==
  SelectInSeq(InterfaceAddresses(machine, link), LAMBDA a : a.family = "inet")
FirstPrefixed(machine, link) ==
  SelectInSeq(InterfaceAddresses(machine, link),
              LAMBDA a : a.family = "inet" /\ a.prefix # 0)
PrefixLength(machine, link) ==
  IF FirstPrefixed(machine, link) = 0 THEN DefaultSubnet
  ELSE InterfaceAddresses(machine, link)[FirstPrefixed(machine, link)].prefix

\* The interface of the default route, when the machine has it and an IPv4
\* address on it.
Proposes(machine) ==
  /\ HasDefaultRoute(machine)
  /\ DefaultRouteInterface(machine) \in machine.links \ {Loopback}
  /\ FirstInet(machine, DefaultRouteInterface(machine)) # 0

Proposed(machine) ==
  LET admin == DefaultRouteInterface(machine) IN
  [role |-> "hypervisor",
   ansible_host |-> InterfaceAddresses(machine, admin)[FirstInet(machine, admin)].local,
   network_interface |-> admin,
   subnet |-> PrefixLength(machine, admin),
   gateway_addr |-> DefaultGateway(machine),
   dns_servers |-> {}, ptp_interface |-> NoText, ptp_domain_number |-> NoDomain,
   ntp_servers |-> {}, admin_user |-> NoText, grub_password |-> NoText,
   isolcpus |-> ProposeIsolation(IsolatedNow(machine), Online(machine)),
   extra |-> {}, overrides |-> <<>>]

SeedInventory(machine) ==
  [mode |-> "standalone", hosts |-> [name \in {Hostname(machine)} |-> Proposed(machine)]]

=============================================================================
