------------------------- MODULE ConfigurationProofs -------------------------
(***************************************************************************)
(* Proofs about Configuration: what the form saved reads back, keeps the   *)
(* rest and never breaks what a launch has checked, for every number of    *)
(* address bits, every set of machines, changes and edits.                 *)
(***************************************************************************)
EXTENDS ConfigurationProperties, DiscoveryProofs

-----------------------------------------------------------------------------
(* The rules of validation, as a condition on the inventory.               *)

HostValid(name, node) ==
  /\ name \in MachineNames
  /\ IsAddress(node.ansible_host) /\ ~IsLoopback(node.ansible_host)
  /\ node.network_interface # NoText
  /\ node.gateway_addr # NotAddress
  /\ ComparesGateway(node) =>
       SameNetwork(node.gateway_addr, node.ansible_host, node.subnet)
  /\ NotAddress \notin node.dns_servers
  /\ node.grub_password \in {NoText, "hash"}
  /\ node.isolcpus # <<>> => ParseCpuList(node.isolcpus) # {}
  /\ 0 \notin ParseCpuList(node.isolcpus)

Harmless(findings) == \A f \in findings : f[1] # "error"

LEMMA HarmlessUnion ==
  ASSUME NEW A, NEW B
  PROVE  Harmless(A \cup B) <=> Harmless(A) /\ Harmless(B)
  BY DEF Harmless

LEMMA HarmlessUnion3 ==
  ASSUME NEW A, NEW B, NEW C
  PROVE  Harmless(A \cup B \cup C) <=> Harmless(A) /\ Harmless(B) /\ Harmless(C)
  BY HarmlessUnion

LEMMA HostValidMeans ==
  ASSUME NEW name, NEW node
  PROVE  Harmless(ValidateHost(name, node)) <=> HostValid(name, node)
<1>1. Harmless(Rule(name \notin MachineNames, "error", "host_key_is_a_hostname"))
        <=> name \in MachineNames
  BY DEF Harmless, Rule
<1>2. Harmless(AddressFindings(node)) <=>
        /\ IsAddress(node.ansible_host) /\ ~IsLoopback(node.ansible_host)
        /\ node.network_interface # NoText
  <2> DEFINE A == Rule(~IsAddress(node.ansible_host), "error",
                       "administration_address_is_an_address")
             B == Rule(IsLoopback(node.ansible_host), "error",
                       "administration_address_is_not_loopback")
             C == Rule(node.network_interface = NoText, "error",
                       "administration_interface_is_named")
  <2>1. Harmless(A) <=> IsAddress(node.ansible_host)
    BY DEF Harmless, Rule
  <2>2. Harmless(B) <=> ~IsLoopback(node.ansible_host)
    BY DEF Harmless, Rule
  <2>3. Harmless(C) <=> node.network_interface # NoText
    BY DEF Harmless, Rule
  <2>4. AddressFindings(node) = A \cup B \cup C
    BY Zenon DEF AddressFindings
  <2> HIDE DEF A, B, C
  <2>. QED  BY <2>1, <2>2, <2>3, <2>4, HarmlessUnion3
<1>3. Harmless(GatewayFindings(node)) <=>
        /\ node.gateway_addr # NotAddress
        /\ ComparesGateway(node) =>
             SameNetwork(node.gateway_addr, node.ansible_host, node.subnet)
  <2> DEFINE Reached == SameNetwork(node.gateway_addr, node.ansible_host, node.subnet)
             A == Rule(node.gateway_addr = NotAddress, "error", "gateway_is_an_address")
             B == Rule(ComparesGateway(node) /\ ~Reached, "error", "gateway_is_reachable")
  <2>1. Harmless(A) <=> node.gateway_addr # NotAddress
    BY DEF Harmless, Rule
  <2>2. Harmless(B) <=> (ComparesGateway(node) => Reached)
    <3> HIDE DEF Reached
    <3>. QED  BY DEF Harmless, Rule
  <2>3. GatewayFindings(node) = A \cup B
    BY Zenon DEF GatewayFindings
  <2> HIDE DEF A, B
  <2>. QED  BY <2>1, <2>2, <2>3, HarmlessUnion
<1>4. Harmless(Rule(NotAddress \in node.dns_servers, "error", "dns_servers_are_addresses"))
        <=> NotAddress \notin node.dns_servers
  BY DEF Harmless, Rule
<1>5. Harmless(PtpFindings(node))
  BY DEF Harmless, Rule, PtpFindings
<1>6. Harmless(Rule(node.ntp_servers = {}, "warning", "ntp_fallback_exists"))
  BY DEF Harmless, Rule
<1>7. Harmless(Rule(node.grub_password \notin {NoText, "hash"}, "error",
                    "grub_password_is_a_hash"))
        <=> node.grub_password \in {NoText, "hash"}
  BY DEF Harmless, Rule
<1>8. Harmless(IsolcpusFindings(node)) <=>
        /\ node.isolcpus # <<>> => ParseCpuList(node.isolcpus) # {}
        /\ 0 \notin ParseCpuList(node.isolcpus)
  <2> DEFINE isolated == ParseCpuList(node.isolcpus)
             A == Rule(node.isolcpus = <<>>, "warning", "isolation_is_configured")
             B == Rule(node.isolcpus # <<>> /\ isolated = {}, "error",
                       "isolcpus_is_a_cpu_list")
             C == Rule(0 \in isolated, "error", "cpu_zero_stays_housekeeping")
  <2>1. Harmless(A)
    BY DEF Harmless, Rule
  <2>2. Harmless(B) <=> (node.isolcpus # <<>> => isolated # {})
    <3> HIDE DEF isolated
    <3>. QED  BY DEF Harmless, Rule
  <2>3. Harmless(C) <=> 0 \notin isolated
    BY DEF Harmless, Rule
  <2>4. IsolcpusFindings(node) = A \cup B \cup C
    BY Zenon DEF IsolcpusFindings
  <2> HIDE DEF A, B, C
  <2>. QED  BY <2>1, <2>2, <2>3, <2>4, HarmlessUnion3
<1>. QED
  <2> DEFINE A == Rule(name \notin MachineNames, "error", "host_key_is_a_hostname")
             B == Rule(NotAddress \in node.dns_servers, "error", "dns_servers_are_addresses")
             C == Rule(node.ntp_servers = {}, "warning", "ntp_fallback_exists")
             D == Rule(node.grub_password \notin {NoText, "hash"}, "error",
                       "grub_password_is_a_hash")
             E == AddressFindings(node)
             F == GatewayFindings(node)
             G == PtpFindings(node)
             H == IsolcpusFindings(node)
  <2>1. ValidateHost(name, node) = A \cup E \cup F \cup B \cup G \cup C \cup D \cup H
    BY Zenon DEF ValidateHost
  <2>2. Harmless(C) /\ Harmless(G)
    BY <1>5, <1>6
  <2>3. Harmless(ValidateHost(name, node)) <=>
          /\ Harmless(A) /\ Harmless(B) /\ Harmless(D)
          /\ Harmless(E) /\ Harmless(F) /\ Harmless(H)
    <3> HIDE DEF A, B, C, D, E, F, G, H
    <3>1. Harmless(A \cup E \cup F) <=> Harmless(A) /\ Harmless(E) /\ Harmless(F)
      BY HarmlessUnion3
    <3>2. Harmless(A \cup E \cup F \cup B \cup G)
            <=> Harmless(A \cup E \cup F) /\ Harmless(B) /\ Harmless(G)
      BY HarmlessUnion3
    <3>3. Harmless(A \cup E \cup F \cup B \cup G \cup C \cup D)
            <=> Harmless(A \cup E \cup F \cup B \cup G) /\ Harmless(C) /\ Harmless(D)
      BY HarmlessUnion3
    <3>4. Harmless(A \cup E \cup F \cup B \cup G \cup C \cup D \cup H)
            <=> Harmless(A \cup E \cup F \cup B \cup G \cup C \cup D) /\ Harmless(H)
      BY HarmlessUnion
    <3>. QED  BY <2>1, <2>2, <3>1, <3>2, <3>3, <3>4
  <2>. QED  BY <1>1, <1>2, <1>3, <1>4, <1>7, <1>8, <2>3 DEF HostValid

LEMMA ValidIsHarmless ==
  ASSUME NEW inventory
  PROVE  Valid(inventory) <=> Harmless(Validate(inventory))
  BY DEF Valid, Errors, Harmless

LEMMA ValidMeans ==
  ASSUME NEW inventory
  PROVE  Valid(inventory) <=>
           /\ inventory.hosts # <<>>
           /\ ~(inventory.mode = "standalone" /\ Cardinality(DOMAIN inventory.hosts) > 1)
           /\ \A name \in DOMAIN inventory.hosts : HostValid(name, inventory.hosts[name])
           /\ \A a, b \in DOMAIN inventory.hosts :
                a # b => inventory.hosts[a].ansible_host # inventory.hosts[b].ansible_host
<1>1. Harmless(Rule(inventory.hosts = <<>>, "error", "at_least_one_host"))
        <=> inventory.hosts # <<>>
  BY DEF Harmless, Rule
<1>2. Harmless(Rule(inventory.mode = "standalone" /\ Cardinality(DOMAIN inventory.hosts) > 1,
                    "error", "standalone_is_one_machine"))
        <=> ~(inventory.mode = "standalone" /\ Cardinality(DOMAIN inventory.hosts) > 1)
  BY DEF Harmless, Rule
<1>3. Harmless(ValidateHosts(inventory))
        <=> \A name \in DOMAIN inventory.hosts : HostValid(name, inventory.hosts[name])
  <2>1. Harmless(ValidateHosts(inventory))
          <=> \A name \in DOMAIN inventory.hosts :
                Harmless(ValidateHost(name, inventory.hosts[name]))
    BY DEF Harmless, ValidateHosts
  <2>. QED  BY <2>1, HostValidMeans
<1>4. Harmless(ValidateAcrossHosts(inventory))
        <=> \A a, b \in DOMAIN inventory.hosts :
              a # b => inventory.hosts[a].ansible_host # inventory.hosts[b].ansible_host
  BY DEF Harmless, Rule, ValidateAcrossHosts
<1>. QED
  <2> DEFINE A == Rule(inventory.hosts = <<>>, "error", "at_least_one_host")
             B == Rule(inventory.mode = "standalone" /\ Cardinality(DOMAIN inventory.hosts) > 1,
                       "error", "standalone_is_one_machine")
             C == ValidateHosts(inventory)
             D == ValidateAcrossHosts(inventory)
  <2>1. Validate(inventory) = A \cup B \cup C \cup D
    BY Zenon DEF Validate
  <2>2. Harmless(Validate(inventory)) <=>
          Harmless(A) /\ Harmless(B) /\ Harmless(C) /\ Harmless(D)
    <3> HIDE DEF A, B, C, D
    <3>. QED  BY <2>1, HarmlessUnion
  <2>. QED  BY <1>1, <1>2, <1>3, <1>4, <2>2, ValidIsHarmless

\* The rules that make an inventory invalid do not look at the role.
SameButRole(a, b) ==
  /\ a.mode = b.mode /\ DOMAIN a.hosts = DOMAIN b.hosts
  /\ \A name \in DOMAIN a.hosts : \A field \in NodeFields \ {"role"} :
       a.hosts[name][field] = b.hosts[name][field]

LEMMA ValidIgnoresRole ==
  ASSUME NEW a, NEW b, SameButRole(a, b), DOMAIN a.hosts # {}, Valid(b)
  PROVE  Valid(a)
<1>1. a.hosts # <<>>
  BY DOMAIN << >> = {}
<1>2. ASSUME NEW name \in DOMAIN a.hosts
      PROVE  /\ HostValid(name, a.hosts[name])
             /\ a.hosts[name].ansible_host = b.hosts[name].ansible_host
  <2>1. HostValid(name, b.hosts[name])
    BY ValidMeans DEF SameButRole
  <2> DEFINE x == a.hosts[name]
             y == b.hosts[name]
  <2>2. /\ x.ansible_host = y.ansible_host /\ x.network_interface = y.network_interface
        /\ x.subnet = y.subnet /\ x.gateway_addr = y.gateway_addr
        /\ x.dns_servers = y.dns_servers /\ x.grub_password = y.grub_password
        /\ x.isolcpus = y.isolcpus
    BY DEF SameButRole, NodeFields
  <2> HIDE DEF x, y
  <2>3. HostValid(name, y) => HostValid(name, x)
    BY <2>2 DEF HostValid, ComparesGateway
  <2>. QED  BY <2>1, <2>2, <2>3 DEF x, y
<1>3. DOMAIN a.hosts = DOMAIN b.hosts /\ a.mode = b.mode
  BY DEF SameButRole
<1>. QED  BY <1>1, <1>2, <1>3, ValidMeans

-----------------------------------------------------------------------------
(* Rendering a valid inventory and parsing the text gives it back.         *)

LEMMA OneMachine ==
  ASSUME NEW inventory, Valid(inventory), inventory.mode = "standalone",
         IsFiniteSet(DOMAIN inventory.hosts), NEW name \in DOMAIN inventory.hosts
  PROVE  DOMAIN inventory.hosts = {name}
<1> DEFINE D == DOMAIN inventory.hosts
<1>1. Cardinality(D) <= 1
  <2>1. ~(Cardinality(D) > 1)
    BY ValidMeans
  <2>. QED  BY <2>1, FS_CardinalityType
<1>2. IsFiniteSet(D \ {name}) /\ Cardinality(D \ {name}) = Cardinality(D) - 1
  BY FS_RemoveElement
<1>3. Cardinality(D \ {name}) = 0
  BY <1>1, <1>2, FS_CardinalityType
<1>4. D \ {name} = {}
  BY <1>2, <1>3, FS_EmptySet
<1>. QED  BY <1>4

\* What is written of a machine whose extra has no variable the service models.
LEMMA HostVarsAre ==
  ASSUME NEW node, node.overrides = <<>>
  PROVE  LET written == HostVars(node) IN
         /\ written.ansible_host = node.ansible_host
         /\ written.network_interface = node.network_interface
         /\ written.subnet = node.subnet /\ written.gateway_addr = node.gateway_addr
         /\ written.dns_servers = node.dns_servers
         /\ written.ptp_interface = node.ptp_interface
         /\ written.ptp_domain_number = node.ptp_domain_number
         /\ written.ntp_servers = node.ntp_servers /\ written.admin_user = node.admin_user
         /\ written.grub_password = node.grub_password /\ written.isolcpus = {}
         /\ written.others = node.extra \cup Derived(node)
<1> DEFINE modelled == Modelled(node, node.extra \cup Derived(node))
<1>1. HostVars(node) = Update(modelled, node.overrides)
  BY DEF HostVars
<1>2. \A variable \in DOMAIN modelled :
        Update(modelled, node.overrides)[variable] = modelled[variable]
  <2> HIDE DEF modelled
  <2>. QED  BY DOMAIN << >> = {} DEF Update
<1>3. DOMAIN modelled =
        {"ansible_host", "network_interface", "subnet", "gateway_addr", "dns_servers",
         "ptp_interface", "ptp_domain_number", "ntp_servers", "admin_user",
         "grub_password", "isolcpus", "others"}
  BY DEF Modelled
<1> DEFINE written == HostVars(node)
<1>4. \A variable \in DOMAIN modelled : written[variable] = modelled[variable]
  BY <1>1, <1>2
<1> HIDE DEF written
<1>5. /\ written.ansible_host = node.ansible_host
      /\ written.network_interface = node.network_interface
      /\ written.subnet = node.subnet /\ written.gateway_addr = node.gateway_addr
      /\ written.dns_servers = node.dns_servers
      /\ written.ptp_interface = node.ptp_interface
      /\ written.ptp_domain_number = node.ptp_domain_number
      /\ written.ntp_servers = node.ntp_servers /\ written.admin_user = node.admin_user
      /\ written.grub_password = node.grub_password /\ written.isolcpus = {}
      /\ written.others = node.extra \cup Derived(node)
  BY <1>3, <1>4 DEF Modelled
<1>. QED  BY <1>5 DEF written

LEMMA IsolcpusReadBack ==
  ASSUME NEW inventory, NEW name, DOMAIN inventory.hosts = {name},
         inventory.hosts[name].overrides = <<>>
  PROVE  Isolcpus(HostVars(inventory.hosts[name]), Render(inventory).isolcpus)
           = inventory.hosts[name].isolcpus
<1> DEFINE given == inventory.hosts[name].isolcpus
<1>0. HostVars(inventory.hosts[name]).isolcpus = {}
  BY HostVarsAre
<1>1. Isolated(inventory) = {given} \ {<<>>}
  BY DEF Isolated
<1>2. CASE given = <<>>
  <2>1. Cardinality(Isolated(inventory)) = 0
    BY <1>1, <1>2, FS_EmptySet
  <2>2. Render(inventory).isolcpus = {}
    BY <2>1 DEF Render
  <2>. QED  BY <1>0, <1>2, <2>2 DEF Isolcpus
<1>3. CASE given # <<>>
  <2>1. Isolated(inventory) = {given}
    BY <1>1, <1>3
  <2>2. Render(inventory).isolcpus = {given}
    BY <2>1, FS_Singleton DEF Render
  <2>3. (CHOOSE text \in {given} : TRUE) = given
    OBVIOUS
  <2>. QED  BY <1>0, <2>2, <2>3 DEF Isolcpus
<1>. QED  BY <1>2, <1>3

LEMMA OneReadsBack ==
  ASSUME NEW inventory, Renderable(inventory), IsInventory(inventory),
         NEW machineName, DOMAIN inventory.hosts = {machineName}
  PROVE  /\ ParseOutcome(Render(inventory)) = "parsed"
         /\ SameButRole(Parse(Render(inventory)), inventory)
<1> DEFINE file == Render(inventory)
<1>1. /\ file.text = "mapping" /\ file.cluster = {} /\ file.observers = {}
      /\ DOMAIN file.hosts = DOMAIN inventory.hosts
      /\ \A name \in DOMAIN inventory.hosts : file.hosts[name] = HostVars(inventory.hosts[name])
  BY DEF Render
<1>2. inventory.mode = "standalone"
  BY DEF Renderable
<1>3. ASSUME NEW name \in DOMAIN inventory.hosts
      PROVE  /\ ~NodeRaises(file.hosts[name])
             /\ \A field \in NodeFields \ {"role"} :
                  Node(file.hosts[name], name \in file.observers, file.isolcpus)[field]
                    = inventory.hosts[name][field]
  <2> DEFINE node == inventory.hosts[name]
             back == Node(HostVars(node), name \in file.observers, file.isolcpus)
  <2>1. node.subnet \in 1..Width /\ node.ptp_domain_number \in {NoDomain} \cup 0..MaxDomain
        /\ node.extra \cap (FixedHostVars \cup DomainAliases) = {}
        /\ DOMAIN node = NodeFields /\ node.overrides = <<>>
    BY DEF IsInventory, IsNode
  <2>2. Subnet(HostVars(node)) = node.subnet
    BY <2>1, HostVarsAre, InventoryDocumentAssumption DEF Subnet
  <2>3. ~NodeRaises(HostVars(node))
    BY <2>1, <2>2, HostVarsAre DEF NodeRaises
  <2>4. HostVars(node).others \ (FixedHostVars \cup DomainAliases) = node.extra
    BY <2>1, HostVarsAre DEF Derived
  <2>5. Isolcpus(HostVars(node), file.isolcpus) = node.isolcpus
    BY <2>1, IsolcpusReadBack
  <2>6. back.extra = node.extra /\ back.isolcpus = node.isolcpus /\ back.subnet = node.subnet
    BY <2>2, <2>4, <2>5 DEF Node
  <2>61. back.overrides = node.overrides
    BY <2>1 DEF Node
  <2>7. /\ back.ansible_host = node.ansible_host
        /\ back.network_interface = node.network_interface
        /\ back.gateway_addr = node.gateway_addr /\ back.dns_servers = node.dns_servers
        /\ back.ptp_interface = node.ptp_interface
        /\ back.ptp_domain_number = node.ptp_domain_number
        /\ back.ntp_servers = node.ntp_servers /\ back.admin_user = node.admin_user
        /\ back.grub_password = node.grub_password
    BY <2>1, HostVarsAre DEF Node
  <2> HIDE DEF back, node
  <2>8. \A field \in NodeFields \ {"role"} : back[field] = node[field]
    BY <2>6, <2>61, <2>7 DEF NodeFields
  <2>. QED  BY <1>1, <2>3, <2>8 DEF back, node
<1>4. ParseOutcome(file) = "parsed"
  BY <1>1, <1>3 DEF ParseOutcome
<1>5. /\ Parse(file).mode = "standalone" /\ DOMAIN Parse(file).hosts = DOMAIN inventory.hosts
      /\ \A name \in DOMAIN inventory.hosts :
           Parse(file).hosts[name]
             = Node(file.hosts[name], name \in file.observers, file.isolcpus)
  BY <1>1 DEF Parse
<1>. QED  BY <1>2, <1>3, <1>4, <1>5 DEF SameButRole

LEMMA ReadBack ==
  ASSUME NEW inventory, Valid(inventory), Renderable(inventory), IsInventory(inventory),
         IsFiniteSet(DOMAIN inventory.hosts), DOMAIN inventory.hosts # {}
  PROVE  /\ ParseOutcome(Render(inventory)) = "parsed"
         /\ SameButRole(Parse(Render(inventory)), inventory)
<1>1. PICK name \in DOMAIN inventory.hosts : DOMAIN inventory.hosts = {name}
  BY OneMachine DEF Renderable
<1>. QED  BY <1>1, OneReadsBack

LEMMA ParsedIsInventory ==
  ASSUME NEW file, ParseOutcome(file) = "parsed"
  PROVE  /\ IsInventory(Parse(file)) /\ ~StateRaises(file)
         /\ DOMAIN Parse(file).hosts = DOMAIN file.hosts /\ DOMAIN file.hosts # {}
         /\ Mode(file) = Parse(file).mode
<1>1. /\ DOMAIN file.hosts # {}
      /\ \A name \in DOMAIN file.hosts : ~NodeRaises(file.hosts[name])
  BY DEF ParseOutcome
<1>2. /\ Parse(file).mode \in {"standalone", "cluster"}
      /\ DOMAIN Parse(file).hosts = DOMAIN file.hosts
      /\ \A name \in DOMAIN file.hosts :
           Parse(file).hosts[name]
             = Node(file.hosts[name], name \in file.observers, file.isolcpus)
  BY DEF Parse
<1>3. ASSUME NEW name \in DOMAIN file.hosts
      PROVE  IsNode(Parse(file).hosts[name])
  <2>1. IsNode(Node(file.hosts[name], name \in file.observers, file.isolcpus))
    BY <1>1 DEF IsNode, Node, NodeFields, NodeRaises
  <2>. QED  BY <1>2, <2>1
<1>4. ~ValidateRaises(Parse(file))
  BY <1>2, <1>3, InventoryDocumentAssumption DEF ValidateRaises, IsNode
<1>. QED  BY <1>1, <1>2, <1>3, <1>4 DEF IsInventory, StateRaises, Mode

-----------------------------------------------------------------------------
(* What a save by the form writes.                                         *)

LEMMA CandidateIsInventory ==
  ASSUME ParseOutcome(document) = "parsed", NEW change \in FormChanges,
         NEW name \in DOMAIN document.hosts
  PROVE  LET candidate == Candidate(name, Filled(change)) IN
         /\ IsInventory(candidate)
         /\ candidate.mode = Parse(document).mode
         /\ DOMAIN candidate.hosts = DOMAIN document.hosts
         /\ \A other \in DOMAIN document.hosts \ {name} :
              candidate.hosts[other] = Parse(document).hosts[other]
         /\ \A field \in NodeFields \ DOMAIN change :
              candidate.hosts[name][field] = Parse(document).hosts[name][field]
<1> DEFINE candidate == Candidate(name, Filled(change))
           node == Parse(document).hosts[name]
<1>1. /\ IsInventory(Parse(document)) /\ DOMAIN Parse(document).hosts = DOMAIN document.hosts
      /\ IsNode(node)
  BY ParsedIsInventory DEF IsInventory
<1>2. /\ candidate.mode = Parse(document).mode
      /\ DOMAIN candidate.hosts = DOMAIN document.hosts
      /\ \A other \in DOMAIN document.hosts \ {name} :
           candidate.hosts[other] = Parse(document).hosts[other]
      /\ candidate.hosts[name] = Patched(node, Filled(change))
  BY <1>1 DEF Candidate, Parse
<1>3. DOMAIN Filled(change) = DOMAIN change
  BY DEF Filled
<1>4. \A field \in NodeFields \ DOMAIN change : Patched(node, Filled(change))[field] = node[field]
  BY <1>3 DEF Patched
<1>5. IsNode(Patched(node, Filled(change)))
  <2>1. DOMAIN change \subseteq NodeFields \ {"role", "extra", "overrides"}
    BY FormAssumption
  <2>2. /\ Patched(node, Filled(change)).extra = node.extra
        /\ Patched(node, Filled(change)).overrides = node.overrides
    BY <1>4, <2>1 DEF NodeFields
  <2>3. Patched(node, Filled(change)).subnet \in 1..Width
    <3>1. CASE "subnet" \in DOMAIN change
      <4>1. Patched(node, Filled(change)).subnet = Filled(change)["subnet"]
        BY <1>3, <3>1 DEF Patched, NodeFields
      <4>2. change["subnet"] \in {0} \cup 1..Width
        BY <3>1, FormAssumption
      <4>. QED  BY <3>1, <4>1, <4>2, InventoryDocumentAssumption DEF Filled
    <3>2. CASE "subnet" \notin DOMAIN change
      BY <1>1, <1>4, <3>2 DEF IsNode, NodeFields
    <3>. QED  BY <3>1, <3>2
  <2>4. Patched(node, Filled(change)).ptp_domain_number \in {NoDomain} \cup 0..MaxDomain
    <3>1. CASE "ptp_domain_number" \in DOMAIN change
      <4>1. Patched(node, Filled(change)).ptp_domain_number = change["ptp_domain_number"]
        BY <1>3, <3>1 DEF Patched, NodeFields, Filled
      <4>. QED  BY <3>1, <4>1, FormAssumption
    <3>2. CASE "ptp_domain_number" \notin DOMAIN change
      BY <1>1, <1>4, <3>2 DEF IsNode, NodeFields
    <3>. QED  BY <3>1, <3>2
  <2>5. DOMAIN Patched(node, Filled(change)) = NodeFields
    BY DEF Patched
  <2>. QED  BY <1>1, <2>2, <2>3, <2>4, <2>5 DEF IsNode
<1>6. \A n \in DOMAIN candidate.hosts : IsNode(candidate.hosts[n])
  BY <1>1, <1>2, <1>5 DEF IsInventory
<1>7. IsInventory(candidate)
  BY <1>1, <1>2, <1>6 DEF IsInventory
<1>. QED  BY <1>2, <1>4, <1>7

\* What the form would write of its candidate, over the file it replaces.
Entering == Render(entered)
FormCandidate ==
  /\ Entering.text = "mapping" /\ DOMAIN Entering.hosts = DOMAIN replaced.hosts
  /\ ParseOutcome(Entering) = "parsed" /\ SameButRole(Parse(Entering), entered)
  /\ Valid(Parse(Entering)) /\ Parse(Entering).mode = "standalone"
  /\ IsFiniteSet(DOMAIN Entering.hosts) /\ IsFiniteSet(DOMAIN entered.hosts)
  /\ \A name \in DOMAIN replaced.hosts :
       /\ replaced.hosts[name].others \cap SiteVariables \subseteq Entering.hosts[name].others
       /\ \E change \in FormChanges : Sent(name) \subseteq DOMAIN change
       /\ \A field \in NodeFields \ (Sent(name) \cup {"role"}) :
            Parse(Entering).hosts[name][field] = Parse(replaced).hosts[name][field]

LEMMA FormSavesWrites ==
  ASSUME IsFiniteSet(DOMAIN document.hosts), NEW name, NEW change \in FormChanges,
         FormSaves(name, change)
  PROVE  /\ ParseOutcome(document) = "parsed" /\ Parse(document).mode = "standalone"
         /\ FormCandidate'
<1> DEFINE before == Parse(document)
           file == Render(entered')
           after == Parse(file)
<1>1. /\ ParseOutcome(document) = "parsed" /\ name \in DOMAIN document.hosts
      /\ entered' = Candidate(name, Filled(change)) /\ replaced' = document
      /\ Valid(entered') /\ Renderable(entered')
  BY DEF FormSaves, MayPatch, Save
<1>2. /\ IsInventory(entered') /\ entered'.mode = before.mode
      /\ DOMAIN entered'.hosts = DOMAIN document.hosts
      /\ \A other \in DOMAIN document.hosts \ {name} :
           entered'.hosts[other] = before.hosts[other]
      /\ \A field \in NodeFields \ DOMAIN change :
           entered'.hosts[name][field] = before.hosts[name][field]
  BY <1>1, CandidateIsInventory
<1>3. ParseOutcome(file) = "parsed" /\ SameButRole(after, entered')
  BY <1>1, <1>2, ReadBack
<1>4. /\ file.text = "mapping" /\ DOMAIN file.hosts = DOMAIN entered'.hosts
      /\ \A host \in DOMAIN entered'.hosts : file.hosts[host] = HostVars(entered'.hosts[host])
  BY DEF Render
<1>5. DOMAIN after.hosts # {}
  BY <1>1, <1>2, <1>3 DEF SameButRole
<1>6. Valid(after)
  BY <1>1, <1>3, <1>5, ValidIgnoresRole
<1>7. before.mode = "standalone" /\ after.mode = "standalone"
  BY <1>1, <1>2, <1>3 DEF Renderable, SameButRole
<1>8. ASSUME NEW host \in DOMAIN document.hosts
      PROVE  /\ document.hosts[host].others \cap SiteVariables \subseteq file.hosts[host].others
             /\ Sent(host)' \subseteq DOMAIN change
             /\ \A field \in NodeFields \ (Sent(host)' \cup {"role"}) :
                  after.hosts[host][field] = before.hosts[host][field]
  <2>1. \A field \in NodeFields \ DOMAIN change :
          entered'.hosts[host][field] = before.hosts[host][field]
    BY <1>2
  <2>2. Sent(host)' = {field \in NodeFields \ {"role"} :
                         entered'.hosts[host][field] # before.hosts[host][field]}
    BY <1>1 DEF Sent
  <2>3. Sent(host)' \subseteq DOMAIN change
    BY <2>1, <2>2
  <2>4. \A field \in NodeFields \ {"role"} :
          after.hosts[host][field] = entered'.hosts[host][field]
    BY <1>2, <1>3 DEF SameButRole
  <2>5. entered'.hosts[host].extra = before.hosts[host].extra
    BY <2>1, FormAssumption DEF NodeFields
  <2>6. before.hosts[host].extra
          = document.hosts[host].others \ (FixedHostVars \cup DomainAliases)
    BY DEF Parse, Node
  <2>7. entered'.hosts[host].extra \subseteq file.hosts[host].others
    <3>1. entered'.hosts[host].overrides = <<>>
      BY <1>2 DEF IsInventory, IsNode
    <3>. QED  BY <1>2, <1>4, <3>1, HostVarsAre
  <2>8. document.hosts[host].others \cap SiteVariables \subseteq file.hosts[host].others
    BY <2>5, <2>6, <2>7, SiteVariablesAssumption
  <2>. QED  BY <2>2, <2>3, <2>4, <2>8
<1> HIDE DEF before, file, after
<1>9. /\ file.text = "mapping" /\ DOMAIN file.hosts = DOMAIN replaced'.hosts
      /\ ParseOutcome(file) = "parsed" /\ SameButRole(after, entered')
      /\ Valid(after) /\ after.mode = "standalone"
      /\ IsFiniteSet(DOMAIN file.hosts) /\ IsFiniteSet(DOMAIN entered'.hosts)
  BY <1>1, <1>2, <1>3, <1>4, <1>6, <1>7
<1>10. \A host \in DOMAIN replaced'.hosts :
         /\ replaced'.hosts[host].others \cap SiteVariables \subseteq file.hosts[host].others
         /\ \E c \in FormChanges : Sent(host)' \subseteq DOMAIN c
         /\ \A field \in NodeFields \ (Sent(host)' \cup {"role"}) :
              after.hosts[host][field] = Parse(replaced').hosts[host][field]
  BY <1>1, <1>8 DEF before
<1>. QED  BY <1>1, <1>7, <1>9, <1>10 DEF FormCandidate, Entering, before, after, file

-----------------------------------------------------------------------------
(* The invariant: beside the types, what a form saved, or has emptied the  *)
(* file to save, reads back and keeps the rest, and what a launch has      *)
(* checked still holds, or will when the save is over, unless somebody     *)
(* bypassed the form.                                                      *)

Meets(file, entry) ==
  /\ ParseOutcome(file) = "parsed" /\ Valid(Parse(file))
  /\ entry \in ClusterPlaybooks => Mode(file) = "cluster"

LaunchHolds ==
  /\ Starting /\ ~launch.bypassed =>
       IF saving = "nobody" THEN Meets(document, launch.request.entry)
       ELSE saving = "form" /\ launch.request.entry \notin ClusterPlaybooks
  /\ Starting /\ ~launch.unread => trust # "unreadable"
  /\ launch.stage = "started" => launch.command.playbook = launch.request.entry
  /\ launch.stage = "started" /\ ~launch.bypassed =>
       \/ launch.halfway /\ launch.snapshot = Empty
       \/ Meets(launch.snapshot, launch.request.entry)

LaunchType ==
  /\ DOMAIN launch = DOMAIN NoLaunch
  /\ launch.bypassed \in BOOLEAN /\ launch.unread \in BOOLEAN
  /\ launch.stage \in {"idle", "checked", "recorded", "started", "answered", "errored"}
  /\ launch.commit \in 0..commits

LaunchInv == LaunchType /\ LaunchHolds /\ ErrorsFollowInterference

\* A file, and one that is not a save's leftover.
IsFile(file) ==
  file.text \in {"empty", "broken", "mapping"} /\ IsFiniteSet(DOMAIN file.hosts)

CommitInv ==
  commits \in 0..MaxCommits /\ IsFile(head) /\ IsFile(previous)

FileInv ==
  /\ origin \in {"nothing", "seed", "form", "client", "site"}
  /\ saving \in {"nobody", "form", "client"}
  /\ IsFile(document) /\ IsFile(replaced)
  /\ saving # "nobody" =>
       document = Empty /\ origin = "nothing" /\ IsFiniteSet(DOMAIN entered.hosts)
  /\ saving = "form" \/ origin = "form" => FormCandidate
  /\ origin = "form" => document = Render(entered)
  /\ origin = "seed" => Proposes(machine) /\ document = Render(SeedInventory(machine))

PageInv == page.commit \in 0..commits /\ IsInventory(page.inventory)

CInv ==
  /\ machine \in Machines /\ trust \in {"installed", "absent", "unreadable"}
  /\ CommitInv /\ FileInv /\ PageInv /\ LaunchInv

LEMMA CInvTypes == CInv => TypeOK
  BY DEF CInv, CommitInv, FileInv, PageInv, LaunchInv, LaunchType, IsFile, TypeOK

LEMMA EmptyIs ==
  /\ IsFile(Empty) /\ Empty.text = "empty" /\ ParseOutcome(Empty) = "invalid"
  /\ ~StateRaises(Empty)
  BY FS_EmptySet DEF Empty, IsFile, ParseOutcome, StateRaises

LEMMA RenderIs ==
  ASSUME NEW inventory
  PROVE  /\ Render(inventory).text = "mapping" /\ Render(inventory) # Empty
         /\ DOMAIN Render(inventory).hosts = DOMAIN inventory.hosts
  BY EmptyIs DEF Render

LEMMA NoPageIs ==
  /\ NoPage.commit = 0 /\ IsInventory(NoPage.inventory)
  /\ IsFiniteSet(DOMAIN NoPage.inventory.hosts)
  BY FS_EmptySet DEF NoPage, IsInventory

LEMMA CInit == Init => CInv
<1> SUFFICES ASSUME Init PROVE CInv
  OBVIOUS
<1>1. CommitInv
  BY EmptyIs, MaxCommitsAssumption DEF Init, CommitInv
<1>2. FileInv
  BY EmptyIs DEF Init, FileInv
<1>3. PageInv
  BY NoPageIs DEF Init, PageInv
<1>4. LaunchInv
  BY DEF Init, LaunchInv, LaunchType, LaunchHolds, ErrorsFollowInterference, NoLaunch, Starting
<1>. QED  BY <1>1, <1>2, <1>3, <1>4 DEF CInv, Init

\* The parts of the invariant, and the variables they are about.
LEMMA FileUnchanged ==
  ASSUME FileInv, UNCHANGED <<machine, fileVars, saveVars>>
  PROVE  FileInv'
  BY DEF FileInv, IsFile, FormCandidate, Entering, Sent, Proposes, fileVars, saveVars

LEMMA CommitsUnchanged ==
  ASSUME CommitInv, UNCHANGED commitVars
  PROVE  CommitInv' /\ commits' = commits
  BY DEF CommitInv, IsFile, commitVars

LEMMA LaunchUnchanged ==
  ASSUME LaunchInv, UNCHANGED <<document, saving, trust, launch>>, commits \in Nat,
         commits' \in {commits, commits + 1}
  PROVE  LaunchInv'
  BY DEF LaunchInv, LaunchHolds, LaunchType, ErrorsFollowInterference, Meets, Starting

\* Nothing is claimed of a launch during which the form was passed by.
LEMMA PastTheFormStep ==
  ASSUME LaunchInv, PastTheForm, UNCHANGED trust, commits \in Nat,
         commits' \in {commits, commits + 1}
  PROVE  LaunchInv'
<1>1. /\ DOMAIN launch' = DOMAIN NoLaunch /\ launch'.stage = launch.stage
      /\ launch'.bypassed = (launch.bypassed \/ Starting) /\ launch'.unread = launch.unread
      /\ launch'.commit = launch.commit /\ launch'.command = launch.command
      /\ launch'.request = launch.request
  BY DEF PastTheForm, LaunchInv, LaunchType, NoLaunch
<1>2. LaunchType'
  BY <1>1 DEF LaunchInv, LaunchType
<1>3. LaunchHolds'
  BY <1>1 DEF LaunchInv, LaunchHolds, Starting
<1>4. ErrorsFollowInterference'
  BY <1>1 DEF LaunchInv, ErrorsFollowInterference
<1>. QED  BY <1>2, <1>3, <1>4 DEF LaunchInv

LEMMA CommitStep ==
  ASSUME CommitInv, NEW content, IsFile(content), Commit(content)
  PROVE  CommitInv' /\ commits \in Nat /\ commits' \in {commits, commits + 1}
<1>1. CASE content = head
  BY <1>1, CommitsUnchanged, MaxCommitsAssumption DEF Commit, CommitInv
<1>2. CASE content # head
  <2>1. /\ commits < MaxCommits /\ commits' = commits + 1
        /\ head' = content /\ previous' = head
    BY <1>2 DEF Commit
  <2>2. commits' \in 0..MaxCommits /\ commits \in Nat
    BY <2>1, MaxCommitsAssumption DEF CommitInv
  <2>. QED  BY <2>1, <2>2 DEF CommitInv, IsFile
<1>. QED  BY <1>1, <1>2

LEMMA PageStays ==
  ASSUME PageInv, CommitInv, UNCHANGED page, commits' \in {commits, commits + 1}
  PROVE  PageInv'
  BY DEF PageInv, CommitInv

LEMMA SeedIsFile ==
  ASSUME NEW m
  PROVE  IsFile(Render(SeedInventory(m)))
<1>1. DOMAIN SeedInventory(m).hosts = {Hostname(m)}
  BY DEF SeedInventory
<1>. QED  BY <1>1, RenderIs, FS_Singleton DEF IsFile

LEMMA StartStep == CInv /\ Start => CInv'
<1> SUFFICES ASSUME CInv, Start PROVE CInv'
  OBVIOUS
<1>1. /\ saving' = "nobody" /\ launch' = NoLaunch /\ UNCHANGED <<machine, page, trust>>
      /\ document = Empty => entered' = NoPage.inventory /\ replaced' = Empty
      /\ document # Empty => UNCHANGED <<entered, replaced>>
  BY DEF Start, Forget
<1>2. CommitInv' /\ FileInv' /\ commits \in Nat /\ commits' \in {commits, commits + 1}
  <2>1. CASE document = Empty /\ Proposes(machine)
    <3>1. /\ document' = Render(SeedInventory(machine)) /\ origin' = "seed"
          /\ Commit(document')
      BY <2>1 DEF Start
    <3>2. IsFile(document')
      BY <3>1, SeedIsFile
    <3>3. FileInv'
      BY <1>1, <2>1, <3>1, <3>2, EmptyIs DEF FileInv, Proposes
    <3>. QED  BY <3>1, <3>2, <3>3, CommitStep DEF CInv
  <2>2. CASE document = Empty /\ ~Proposes(machine)
    <3>1. UNCHANGED <<fileVars, commitVars>>
      BY <2>2 DEF Start
    <3>2. document' = Empty /\ origin' = origin /\ origin \notin {"form", "seed"}
      BY <2>2, <3>1, RenderIs DEF CInv, FileInv, fileVars
    <3>3. FileInv'
      BY <1>1, <2>2, <3>2, EmptyIs DEF CInv, FileInv
    <3>. QED  BY <3>1, <3>3, CommitsUnchanged DEF CInv, CommitInv
  <2>3. CASE document # Empty
    <3>1. UNCHANGED <<fileVars, commitVars>> /\ saving = "nobody"
      BY <2>3 DEF Start, CInv, FileInv
    <3>2. UNCHANGED <<machine, fileVars, saveVars>>
      BY <1>1, <2>3, <3>1 DEF saveVars
    <3>. QED  BY <3>1, <3>2, FileUnchanged, CommitsUnchanged DEF CInv, CommitInv
  <2>. QED  BY <2>1, <2>2, <2>3
<1>3. LaunchInv'
  BY <1>1, <1>2 DEF LaunchInv, LaunchType, LaunchHolds, ErrorsFollowInterference, NoLaunch,
                    Starting, CommitInv
<1>4. PageInv'
  BY <1>1, <1>2, PageStays DEF CInv
<1>. QED  BY <1>1, <1>2, <1>3, <1>4 DEF CInv

LEMMA LoadPageStep == CInv /\ LoadPage => CInv'
<1> SUFFICES ASSUME CInv, LoadPage PROVE CInv'
  OBVIOUS
<1>1. /\ page' = [commit |-> commits, inventory |-> Parse(document)]
      /\ ParseOutcome(document) = "parsed"
      /\ UNCHANGED <<machine, fileVars, commitVars, saveVars, trust, launch>>
  BY DEF LoadPage
<1>2. IsInventory(page'.inventory)
  BY <1>1, ParsedIsInventory
<1>3. CommitInv' /\ FileInv' /\ commits' = commits
  BY <1>1, CommitsUnchanged, FileUnchanged DEF CInv
<1>4. PageInv'
  BY <1>1, <1>2, <1>3 DEF CInv, PageInv, CommitInv
<1>5. LaunchInv'
  BY <1>1, <1>3, LaunchUnchanged DEF CInv, CommitInv, fileVars, saveVars
<1>. QED  BY <1>1, <1>3, <1>4, <1>5 DEF CInv

LEMMA FormSavesStep ==
  ASSUME CInv, NEW name, NEW change \in FormChanges, FormSaves(name, change)
  PROVE  CInv'
<1>1. /\ saving = "nobody" /\ page' = NoPage /\ replaced' = document
      /\ UNCHANGED <<machine, commitVars, trust, launch>>
      /\ IF Render(entered') = document
           THEN origin' = "form" /\ UNCHANGED <<document, saving>>
           ELSE document' = Empty /\ origin' = "nothing" /\ saving' = "form"
  BY DEF FormSaves, Save
<1>2. /\ ParseOutcome(document) = "parsed" /\ Parse(document).mode = "standalone"
      /\ FormCandidate'
  BY FormSavesWrites DEF CInv, FileInv, IsFile
<1>3. IsFiniteSet(DOMAIN entered'.hosts)
  BY <1>2 DEF FormCandidate
<1>4. FileInv'
  BY <1>1, <1>2, <1>3, EmptyIs DEF CInv, FileInv, IsFile
<1>5. CommitInv' /\ commits' = commits
  BY <1>1, CommitsUnchanged DEF CInv
<1>6. PageInv'
  BY <1>1, <1>5, NoPageIs DEF CInv, PageInv, CommitInv
<1>7. LaunchInv'
  <2>1. CASE Render(entered') = document
    BY <1>1, <1>5, <2>1, LaunchUnchanged DEF CInv, CommitInv
  <2>2. CASE Render(entered') # document
    <3>1. Meets(document, launch.request.entry)
            => launch.request.entry \notin ClusterPlaybooks
      BY <1>2 DEF Meets, Mode
    <3>2. LaunchHolds'
      BY <1>1, <2>2, <3>1 DEF CInv, LaunchInv, LaunchHolds, Starting, Meets
    <3>. QED  BY <1>1, <1>5, <3>2 DEF CInv, LaunchInv, LaunchType, ErrorsFollowInterference
  <2>. QED  BY <2>1, <2>2
<1>. QED  BY <1>1, <1>4, <1>5, <1>6, <1>7 DEF CInv

LEMMA ClientSaveStep ==
  ASSUME CInv, NEW candidate, IsFiniteSet(DOMAIN candidate.hosts),
         Save("client", candidate), PastTheForm,
         UNCHANGED <<machine, commitVars, page, trust>>
  PROVE  CInv'
<1>1. /\ saving = "nobody" /\ entered' = candidate /\ replaced' = document
      /\ IF Render(candidate) = document
           THEN origin' = "client" /\ UNCHANGED <<document, saving>>
           ELSE document' = Empty /\ origin' = "nothing" /\ saving' = "client"
  BY DEF Save
<1>2. FileInv'
  BY <1>1, EmptyIs DEF CInv, FileInv, IsFile
<1>3. CommitInv' /\ commits' = commits /\ commits \in Nat
  BY CommitsUnchanged DEF CInv, CommitInv
<1>4. PageInv' /\ LaunchInv'
  BY <1>3, PageStays, PastTheFormStep DEF CInv
<1>. QED  BY <1>2, <1>3, <1>4 DEF CInv

LEMMA ClientPatchesStep ==
  ASSUME CInv, NEW name \in DOMAIN document.hosts, NEW change, ClientPatches(name, change)
  PROVE  CInv'
<1>1. DOMAIN Candidate(name, change).hosts = DOMAIN document.hosts
  BY DEF Candidate, Parse
<1>. QED  BY <1>1, ClientSaveStep DEF ClientPatches, CInv, FileInv, IsFile

LEMMA ClientReplacesStep ==
  ASSUME CInv, NEW candidate \in Replacements, ClientReplaces(candidate)
  PROVE  CInv'
  BY ReplacementsAssumption, ClientSaveStep DEF ClientReplaces

LEMMA WrittenStep == CInv /\ Written => CInv'
<1> SUFFICES ASSUME CInv, Written PROVE CInv'
  OBVIOUS
<1>1. /\ saving # "nobody" /\ document' = Render(entered) /\ origin' = saving
      /\ saving' = "nobody" /\ Commit(document') /\ UNCHANGED <<machine, page, trust>>
  BY DEF Written
<1>2. IsFile(document')
  BY <1>1, RenderIs DEF CInv, FileInv, IsFile
<1>3. CommitInv' /\ commits \in Nat /\ commits' \in {commits, commits + 1}
  BY <1>1, <1>2, CommitStep DEF CInv
<1>4. PageInv'
  BY <1>1, <1>3, PageStays DEF CInv
<1>5. CASE saving = "form"
  <2>1. UNCHANGED <<entered, replaced, launch>>
    BY <1>5 DEF Written
  <2>2. FormCandidate /\ FormCandidate'
    BY <1>5, <2>1 DEF CInv, FileInv, FormCandidate, Entering, Sent
  <2>3. FileInv'
    BY <1>1, <1>2, <1>5, <2>1, <2>2 DEF CInv, FileInv, IsFile
  <2>4. ASSUME launch.request.entry \notin ClusterPlaybooks
        PROVE  Meets(document', launch.request.entry)
    BY <1>1, <2>2, <2>4 DEF Meets, FormCandidate, Entering
  <2>5. LaunchHolds'
    BY <1>1, <2>1, <2>4 DEF CInv, LaunchInv, LaunchHolds, Starting
  <2>6. LaunchInv'
    BY <1>3, <2>1, <2>5 DEF CInv, LaunchInv, LaunchType, ErrorsFollowInterference
  <2>. QED  BY <1>1, <1>3, <1>4, <2>3, <2>6 DEF CInv
<1>6. CASE saving = "client"
  <2>1. Forget /\ PastTheForm
    BY <1>6 DEF Written
  <2>2. FileInv'
    BY <1>1, <1>2, <1>6, <2>1, EmptyIs DEF FileInv, Forget
  <2>. QED  BY <1>1, <1>3, <1>4, <2>1, <2>2, PastTheFormStep DEF CInv
<1>. QED  BY <1>1, <1>5, <1>6 DEF CInv, FileInv

\* The form, its candidate and the seed are forgotten.
LEMMA WrittenPast ==
  ASSUME NEW who \in {"client", "site"}, origin' = who, saving' = "nobody", IsFile(document'),
         Forget
  PROVE  FileInv'
  BY EmptyIs DEF FileInv, Forget

LEMMA RevertStep == CInv /\ Revert => CInv'
<1> SUFFICES ASSUME CInv, Revert PROVE CInv'
  OBVIOUS
<1>1. /\ saving = "nobody" /\ document' = previous /\ origin' = "client"
      /\ Commit(document') /\ Forget /\ PastTheForm
      /\ UNCHANGED <<machine, saving, page, trust>>
  BY DEF Revert
<1>2. IsFile(document')
  BY <1>1 DEF CInv, CommitInv
<1>3. CommitInv' /\ commits \in Nat /\ commits' \in {commits, commits + 1}
  BY <1>1, <1>2, CommitStep DEF CInv
<1>4. FileInv'
  BY <1>1, <1>2, WrittenPast
<1>. QED  BY <1>1, <1>3, <1>4, PageStays, PastTheFormStep DEF CInv

LEMMA HandEditStep ==
  ASSUME CInv, NEW edited \in HandEdits, HandEdit(edited)
  PROVE  CInv'
<1>1. /\ saving = "nobody" /\ document' = edited /\ origin' = "site" /\ Forget /\ PastTheForm
      /\ UNCHANGED <<machine, commitVars, saving, page, trust>>
  BY DEF HandEdit
<1>2. IsFile(document')
  BY <1>1, HandEditsAssumption DEF IsFile
<1>3. CommitInv' /\ commits' = commits /\ commits \in Nat
  BY <1>1, CommitsUnchanged DEF CInv, CommitInv
<1>4. FileInv'
  BY <1>1, <1>2, WrittenPast
<1>. QED  BY <1>1, <1>3, <1>4, PageStays, PastTheFormStep DEF CInv

LEMMA TrustChangesStep ==
  ASSUME CInv, NEW reading \in {"installed", "absent", "unreadable"}, TrustChanges(reading)
  PROVE  CInv'
<1>1. /\ trust' = reading
      /\ launch' = [launch EXCEPT !.unread = @ \/ (Starting /\ reading = "unreadable")]
      /\ UNCHANGED <<machine, fileVars, commitVars, saveVars, page>>
  BY DEF TrustChanges
<1>2. CommitInv' /\ FileInv' /\ commits' = commits /\ commits \in Nat
  BY <1>1, CommitsUnchanged, FileUnchanged DEF CInv, CommitInv
<1>3. LaunchInv'
  BY <1>1, <1>2 DEF CInv, LaunchInv, LaunchHolds, LaunchType, ErrorsFollowInterference, Meets,
                    Starting, NoLaunch, fileVars, saveVars
<1>4. PageInv'
  BY <1>1, <1>2, PageStays DEF CInv
<1>. QED  BY <1>1, <1>2, <1>3, <1>4 DEF CInv

\* A launch changes nothing but its own record.
LEMMA LaunchStep ==
  ASSUME CInv, UNCHANGED <<machine, fileVars, commitVars, saveVars, page, trust>>, LaunchInv'
  PROVE  CInv'
<1>1. CommitInv' /\ FileInv' /\ commits' = commits /\ commits \in Nat
  BY CommitsUnchanged, FileUnchanged DEF CInv, CommitInv
<1>. QED  BY <1>1, PageStays DEF CInv

LEMMA LaunchCheckStep ==
  ASSUME CInv, NEW request \in Launches, LaunchCheck(request)
  PROVE  CInv'
<1>1. /\ launch' = [NoLaunch EXCEPT !.stage = "checked", !.request = request]
      /\ UNCHANGED <<machine, fileVars, commitVars, saveVars, page, trust>>
      /\ trust # "unreadable"
      /\ Blocking(request.entry, UnmetPreconditions(document, trust = "installed")) = {}
  BY DEF LaunchCheck, CatalogueRaises
<1>2. Meets(document, request.entry)
  <2> DEFINE unmet == UnmetPreconditions(document, trust = "installed")
  <2>1. Requires(request.entry) \cap unmet = {}
    BY <1>1 DEF Blocking
  <2>2. "inventory_valid" \notin unmet
    BY <2>1 DEF Requires
  <2>3. ParseOutcome(document) = "parsed" /\ Valid(Parse(document))
    BY <2>2 DEF UnmetPreconditions
  <2>4. ASSUME request.entry \in ClusterPlaybooks PROVE Mode(document) = "cluster"
    <3>1. "cluster" \notin unmet
      BY <2>1, <2>4 DEF Requires
    <3>. QED  BY <3>1 DEF UnmetPreconditions
  <2>. QED  BY <2>3, <2>4 DEF Meets
<1>3. saving = "nobody"
  BY <1>2, EmptyIs DEF CInv, FileInv, Meets
<1>4. /\ launch'.stage = "checked" /\ launch'.request = request /\ launch'.commit = 0
      /\ launch'.bypassed = FALSE /\ launch'.unread = FALSE
      /\ DOMAIN launch' = DOMAIN NoLaunch
  BY <1>1 DEF NoLaunch
<1>5. LaunchHolds'
  BY <1>1, <1>2, <1>3, <1>4 DEF LaunchHolds, Starting, Meets, fileVars, saveVars
<1>6. LaunchType' /\ ErrorsFollowInterference'
  <2>1. launch'.commit \in 0..commits'
    BY <1>1, <1>4, CommitsUnchanged, MaxCommitsAssumption DEF CInv, CommitInv
  <2>. QED  BY <1>4, <2>1 DEF LaunchType, ErrorsFollowInterference
<1>. QED  BY <1>1, <1>5, <1>6, LaunchStep DEF LaunchInv

LEMMA LaunchStateStep == CInv /\ LaunchState => CInv'
<1> SUFFICES ASSUME CInv, LaunchState PROVE CInv'
  OBVIOUS
<1> DEFINE recorded == [launch EXCEPT !.stage = "recorded",
                          !.commit = IF document = Empty THEN 0 ELSE commits]
<1>1. /\ launch.stage = "checked"
      /\ UNCHANGED <<machine, fileVars, commitVars, saveVars, page, trust>>
      /\ launch' = NoLaunch \/ launch' = recorded
  BY DEF LaunchState
<1>2. commits' = commits /\ commits \in Nat
  BY <1>1, CommitsUnchanged DEF CInv, CommitInv
<1>3. CASE launch' = NoLaunch
  <2>1. LaunchInv'
    BY <1>2, <1>3 DEF LaunchInv, LaunchHolds, LaunchType, ErrorsFollowInterference, Starting,
                      NoLaunch
  <2>. QED  BY <1>1, <2>1, LaunchStep
<1>4. CASE launch' = recorded
  <2>1. /\ launch'.stage = "recorded" /\ launch'.commit \in 0..commits
        /\ DOMAIN launch' = DOMAIN launch /\ launch'.request = launch.request
        /\ launch'.bypassed = launch.bypassed /\ launch'.unread = launch.unread
    BY <1>2, <1>4 DEF CInv, LaunchInv, LaunchType, NoLaunch
  <2>2. LaunchInv'
    BY <1>1, <1>2, <2>1 DEF CInv, LaunchInv, LaunchHolds, LaunchType,
         ErrorsFollowInterference, Starting, Meets, fileVars, saveVars
  <2>. QED  BY <1>1, <2>2, LaunchStep
<1>. QED  BY <1>1, <1>3, <1>4

LEMMA LaunchSnapshotStep == CInv /\ LaunchSnapshot => CInv'
<1> SUFFICES ASSUME CInv, LaunchSnapshot PROVE CInv'
  OBVIOUS
<1>1. /\ launch.stage = "recorded"
      /\ launch' = [launch EXCEPT
           !.stage = "started", !.snapshot = document, !.halfway = saving # "nobody",
           !.command = Command(launch.request.entry, launch.request.check,
                               launch.request.variables)]
      /\ UNCHANGED <<machine, fileVars, commitVars, saveVars, page, trust>>
  BY DEF LaunchSnapshot
<1>2. /\ launch'.stage = "started" /\ launch'.snapshot = document
      /\ launch'.halfway = (saving # "nobody")
      /\ launch'.command.playbook = launch.request.entry
      /\ launch'.request = launch.request /\ launch'.commit = launch.commit
      /\ launch'.bypassed = launch.bypassed /\ launch'.unread = launch.unread
      /\ DOMAIN launch' = DOMAIN launch
  BY <1>1 DEF CInv, LaunchInv, LaunchType, NoLaunch, Command
<1>3. saving # "nobody" => document = Empty
  BY DEF CInv, FileInv
<1>4. LaunchHolds'
  BY <1>1, <1>2, <1>3 DEF CInv, LaunchInv, LaunchHolds, Starting, Meets, fileVars, saveVars
<1>5. LaunchType' /\ ErrorsFollowInterference'
  BY <1>1, <1>2 DEF CInv, LaunchInv, LaunchType, ErrorsFollowInterference, commitVars
<1>. QED  BY <1>1, <1>4, <1>5, LaunchStep DEF LaunchInv

LEMMA LaunchAnswerStep == CInv /\ LaunchAnswer => CInv'
<1> SUFFICES ASSUME CInv, LaunchAnswer PROVE CInv'
  OBVIOUS
<1>1. /\ launch.stage = "started"
      /\ launch' = Answered(IF CatalogueRaises THEN "errored" ELSE "answered")
      /\ UNCHANGED <<machine, fileVars, commitVars, saveVars, page, trust>>
  BY DEF LaunchAnswer
<1>2. /\ launch'.stage = (IF CatalogueRaises THEN "errored" ELSE "answered")
      /\ launch'.bypassed = launch.bypassed /\ launch'.unread = launch.unread
      /\ launch'.commit = 0 /\ DOMAIN launch' = DOMAIN NoLaunch
  BY <1>1 DEF Answered, NoLaunch
<1>3. CatalogueRaises => launch.bypassed \/ launch.unread
  <2>1. ~launch.bypassed => document = Empty \/ ParseOutcome(document) = "parsed"
    BY <1>1 DEF CInv, FileInv, LaunchInv, LaunchHolds, Starting, Meets
  <2>2. ~launch.bypassed => ~StateRaises(document)
    BY <2>1, ParsedIsInventory, EmptyIs
  <2>3. ~launch.unread => trust # "unreadable"
    BY <1>1 DEF CInv, LaunchInv, LaunchHolds, Starting
  <2>. QED  BY <2>2, <2>3 DEF CatalogueRaises
<1>4. LaunchHolds' /\ ErrorsFollowInterference'
  BY <1>2, <1>3 DEF LaunchHolds, ErrorsFollowInterference, Starting
<1>5. LaunchType'
  BY <1>1, <1>2 DEF CInv, CommitInv, LaunchInv, LaunchType, commitVars
<1>. QED  BY <1>1, <1>4, <1>5, LaunchStep DEF LaunchInv

LEMMA CStep == CInv /\ [Next]_vars => CInv'
<1> SUFFICES ASSUME CInv, [Next]_vars PROVE CInv'
  OBVIOUS
<1>1. CASE UNCHANGED vars
  <2>1. UNCHANGED <<machine, fileVars, commitVars, saveVars, page, trust, launch>>
    BY <1>1 DEF vars
  <2>2. LaunchInv'
    BY <2>1, CommitsUnchanged, LaunchUnchanged DEF CInv, CommitInv, fileVars, saveVars
  <2>. QED  BY <2>1, <2>2, LaunchStep
<1>2. CASE \E name \in DOMAIN page.inventory.hosts, change \in FormChanges :
             FormSaves(name, change)
  BY <1>2, FormSavesStep
<1>3. CASE \E name \in DOMAIN document.hosts, change \in ClientChanges :
             ClientPatches(name, change)
  BY <1>3, ClientPatchesStep
<1>4. CASE \E edited \in HandEdits : HandEdit(edited)
  BY <1>4, HandEditStep
<1>5. CASE \E reading \in {"installed", "absent", "unreadable"} : TrustChanges(reading)
  BY <1>5, TrustChangesStep
<1>6. CASE \E request \in Launches : LaunchCheck(request)
  BY <1>6, LaunchCheckStep
<1>7. CASE \E candidate \in Replacements : ClientReplaces(candidate)
  BY <1>7, ClientReplacesStep
<1>. QED  BY <1>1, <1>2, <1>3, <1>4, <1>5, <1>6, <1>7, StartStep, LoadPageStep, WrittenStep,
             RevertStep, LaunchStateStep, LaunchSnapshotStep, LaunchAnswerStep DEF Next

-----------------------------------------------------------------------------
(* The theorems.                                                           *)

LEMMA CInvariance == Spec => []CInv
  BY CInit, CStep, PTL DEF Spec

\* The page a form is filled from never holds a value the model of a machine
\* refuses, for every machine, form, client and site.
THEOREM ConfigurationTypeCorrect == Spec => []TypeOK
  BY CInvTypes, CInvariance, PTL

\* Whatever was in the file before, what the form committed is valid and reads
\* back as it was entered, but for the role.
THEOREM SavesReadBack == Spec => []FormSaveReadsBack
<1>1. CInv => FormSaveReadsBack
  BY DEF CInv, FileInv, FormCandidate, Entering, SameButRole, FormSaveReadsBack, SavedReadsBack
<1>. QED  BY <1>1, CInvariance, PTL

\* A save by the form keeps, of every machine in the file, the fields it did not
\* send except the role, and the names of the variables the service does not
\* model.  Of what the groups of the file had it says nothing.
THEOREM SavesKeep == Spec => []SavesKeepTheRest
<1>1. CInv => SavesKeepTheRest
  BY DEF CInv, FileInv, FormCandidate, Entering, SavesKeepTheRest, KeepsTheRest
<1>. QED  BY <1>1, CInvariance, PTL

\* What a run freezes meets the conditions the launch checked, however many
\* saves of the form come in between, or is the empty file that a save leaves
\* until it writes, unless the form was passed by: by hand, a revert, a PATCH or
\* a PUT.
THEOREM FrozenMeets == Spec => []FrozenMeetsConditions
<1>1. CInv => FrozenMeetsConditions
  BY DEF CInv, LaunchInv, LaunchHolds, FrozenMeetsConditions, Meets
<1>. QED  BY <1>1, CInvariance, PTL

\* A run is started and its launch answered with an error only when the trust
\* was unreadable or the file was written past the form.
THEOREM ErrorsAreInterference == Spec => []ErrorsFollowInterference
  BY CInvariance, PTL DEF CInv, LaunchInv

-----------------------------------------------------------------------------
(* The seed: what the machine proposes, through the file and back.         *)

LEMMA SeedReadsBack ==
  ASSUME NEW m \in Machines, Proposes(m)
  PROVE  LET seed == SeedInventory(m)
             read == Parse(Render(seed))
         IN  /\ ParseOutcome(Render(seed)) = "parsed"
             /\ DOMAIN Render(seed).hosts = {Hostname(m)}
             /\ read.mode = "standalone" /\ DOMAIN read.hosts = {Hostname(m)}
             /\ \A field \in NodeFields \ {"role"} :
                  read.hosts[Hostname(m)][field] = Proposed(m)[field]
<1> DEFINE seed == SeedInventory(m)
<1>1. PrefixLength(m, DefaultRouteInterface(m)) \in 1..Width
  BY FirstInetIs, MachinesAssumption DEF Proposes
<1>2. IsNode(Proposed(m))
  BY <1>1 DEF IsNode, Proposed, NodeFields
<1>3. /\ DOMAIN seed.hosts = {Hostname(m)} /\ seed.hosts[Hostname(m)] = Proposed(m)
      /\ seed.mode = "standalone"
  BY DEF SeedInventory
<1>4. IsInventory(seed) /\ Renderable(seed)
  BY <1>2, <1>3 DEF IsInventory, Renderable
<1>5. DOMAIN Render(seed).hosts = DOMAIN seed.hosts
  BY DEF Render
<1> HIDE DEF seed
<1>6. ParseOutcome(Render(seed)) = "parsed" /\ SameButRole(Parse(Render(seed)), seed)
  BY <1>3, <1>4, OneReadsBack
<1>. QED  BY <1>3, <1>5, <1>6 DEF SameButRole, seed

\* Of the findings that are errors, the rules are among these.
Within(findings, rules) == \A f \in findings : f[1] = "error" => f[2] \in rules

LEMMA WithinUnion ==
  ASSUME NEW A, NEW B, NEW rules
  PROVE  Within(A \cup B, rules) <=> Within(A, rules) /\ Within(B, rules)
  BY DEF Within

LEMMA WithinRule ==
  ASSUME NEW holds \in BOOLEAN, NEW level, NEW rule, NEW rules,
         holds => level # "error" \/ rule \in rules
  PROVE  Within(Rule(holds, level, rule), rules)
<1>1. CASE holds
  <2>1. Rule(holds, level, rule) = {<<level, rule>>}
    BY <1>1 DEF Rule
  <2>2. <<level, rule>>[1] = level /\ <<level, rule>>[2] = rule
    OBVIOUS
  <2>. QED  BY <1>1, <2>1, <2>2 DEF Within
<1>2. CASE ~holds
  BY <1>2 DEF Rule, Within
<1>. QED  BY <1>1, <1>2

\* What the seed may break.
SeedRules ==
  {"host_key_is_a_hostname", "gateway_is_reachable"}
    \cup (IF 0 \in IsolatedNow(machine) THEN {"cpu_zero_stays_housekeeping"} ELSE {})
    \cup (IF HasStrayLoopback THEN {"administration_address_is_not_loopback"} ELSE {})

LEMMA SeedNodeBreaks ==
  ASSUME machine \in Machines, Proposes(machine), NEW name, NEW node,
         \A field \in NodeFields \ {"role"} : node[field] = Proposed(machine)[field]
  PROVE  Within(ValidateHost(name, node), SeedRules)
<1> DEFINE link == DefaultRouteInterface(machine)
           rows == InterfaceAddresses(machine, link)
           n == FirstInet(machine, link)
<1>1. /\ IsMachine(machine) /\ n # 0 /\ HasDefaultRoute(machine)
      /\ link \in machine.links \ {Loopback}
  BY MachinesAssumption DEF Proposes
<1>2. n \in DOMAIN rows /\ rows[n].local \in Addresses
  BY <1>1, FirstInetIs
<1>3. DefaultGateway(machine) \in Addresses
  <2> DEFINE Rows == [link : STRING, destination : Addresses, gateway : Addresses]
  <2>1. machine.routes \in Seq(Rows) /\ DefaultRow(machine) \in DOMAIN machine.routes
    BY <1>1, DefaultRowIs DEF IsMachine
  <2>2. machine.routes[DefaultRow(machine)] \in Rows
    <3> HIDE DEF Rows
    <3>. QED  BY <2>1
  <2>. QED  BY <2>2 DEF DefaultGateway
<1>4. /\ node.ansible_host = rows[n].local /\ node.network_interface = link
      /\ node.gateway_addr = DefaultGateway(machine)
      /\ node.dns_servers = {} /\ node.grub_password = NoText
      /\ node.isolcpus = ProposeIsolation(IsolatedNow(machine), Online(machine))
  BY DEF NodeFields, Proposed
<1> HIDE DEF link, rows, n
<1>5. NoText \notin machine.links
  BY <1>1 DEF IsMachine
<1>6. Within(AddressFindings(node), SeedRules)
  <2>1. IsAddress(node.ansible_host)
    BY <1>2, <1>4 DEF IsAddress, Addresses
  <2>2. IsLoopback(node.ansible_host) => HasStrayLoopback
    BY <1>1, <1>2, <1>4 DEF HasStrayLoopback, rows, link
  <2>3. node.network_interface # NoText
    BY <1>1, <1>4, <1>5
  <2> DEFINE A == Rule(~IsAddress(node.ansible_host), "error",
                       "administration_address_is_an_address")
             B == Rule(IsLoopback(node.ansible_host), "error",
                       "administration_address_is_not_loopback")
             C == Rule(node.network_interface = NoText, "error",
                       "administration_interface_is_named")
  <2>4. Within(A, SeedRules) /\ Within(C, SeedRules)
    BY <2>1, <2>3 DEF Within, Rule
  <2>5. Within(B, SeedRules)
    <3>1. IsLoopback(node.ansible_host) => "administration_address_is_not_loopback" \in SeedRules
      BY <2>2 DEF SeedRules
    <3>2. IsLoopback(node.ansible_host) \in BOOLEAN
      BY DEF IsLoopback
    <3>. QED  BY <3>1, <3>2, WithinRule
  <2>6. AddressFindings(node) = A \cup B \cup C
    BY Zenon DEF AddressFindings
  <2> HIDE DEF A, B, C
  <2>. QED  BY <2>4, <2>5, <2>6, WithinUnion
<1>7. Within(GatewayFindings(node), SeedRules)
  <2>1. node.gateway_addr # NotAddress
    BY <1>3, <1>4 DEF Addresses, NotAddress
  <2> DEFINE Unreached == ComparesGateway(node)
               /\ ~SameNetwork(node.gateway_addr, node.ansible_host, node.subnet)
             A == Rule(node.gateway_addr = NotAddress, "error", "gateway_is_an_address")
             B == Rule(Unreached, "error", "gateway_is_reachable")
  <2>2. Within(A, SeedRules)
    BY <2>1 DEF Within, Rule
  <2>3. Within(B, SeedRules)
    <3>1. Unreached \in BOOLEAN /\ "gateway_is_reachable" \in SeedRules
      BY DEF SeedRules
    <3> HIDE DEF Unreached
    <3>. QED  BY <3>1, WithinRule
  <2>4. GatewayFindings(node) = A \cup B
    BY Zenon DEF GatewayFindings
  <2> HIDE DEF A, B
  <2>. QED  BY <2>2, <2>3, <2>4, WithinUnion
<1>8. Within(PtpFindings(node), SeedRules)
  BY DEF Within, Rule, PtpFindings
<1>9. Within(IsolcpusFindings(node), SeedRules)
  <2> DEFINE isolated == ParseCpuList(node.isolcpus)
             A == Rule(node.isolcpus = <<>>, "warning", "isolation_is_configured")
             B == Rule(node.isolcpus # <<>> /\ isolated = {}, "error",
                       "isolcpus_is_a_cpu_list")
             C == Rule(0 \in isolated, "error", "cpu_zero_stays_housekeeping")
  <2>1. /\ node.isolcpus # <<>> => isolated # {}
        /\ IF IsolatedNow(machine) # {} THEN isolated = IsolatedNow(machine)
           ELSE isolated \subseteq Housekeeping..(Online(machine) - 1)
    BY <1>1, <1>4, ProposedIsolation
  <2> HIDE DEF isolated
  <2>2. 0 \in isolated => 0 \in IsolatedNow(machine)
    BY <2>1, InventoryDocumentAssumption
  <2>3. 0 \in isolated => "cpu_zero_stays_housekeeping" \in SeedRules
    BY <2>2 DEF SeedRules
  <2>4. Within(A, SeedRules) /\ Within(B, SeedRules)
    BY <2>1 DEF Within, Rule
  <2>5. Within(C, SeedRules)
    <3>1. (0 \in isolated) \in BOOLEAN
      OBVIOUS
    <3>. QED  BY <2>3, <3>1, WithinRule
  <2>6. IsolcpusFindings(node) = A \cup B \cup C
    BY Zenon DEF IsolcpusFindings, isolated
  <2> HIDE DEF A, B, C
  <2>. QED  BY <2>4, <2>5, <2>6, WithinUnion
<1>. QED
  <2> DEFINE A == Rule(name \notin MachineNames, "error", "host_key_is_a_hostname")
             B == Rule(NotAddress \in node.dns_servers, "error", "dns_servers_are_addresses")
             C == Rule(node.ntp_servers = {}, "warning", "ntp_fallback_exists")
             D == Rule(node.grub_password \notin {NoText, "hash"}, "error",
                       "grub_password_is_a_hash")
             E == AddressFindings(node)
             F == GatewayFindings(node)
             G == PtpFindings(node)
             H == IsolcpusFindings(node)
  <2>1. ValidateHost(name, node) = A \cup E \cup F \cup B \cup G \cup C \cup D \cup H
    BY Zenon DEF ValidateHost
  <2>2. Within(A, SeedRules)
    BY DEF Within, Rule, SeedRules
  <2>3. Within(B, SeedRules) /\ Within(C, SeedRules) /\ Within(D, SeedRules)
    BY <1>4 DEF Within, Rule
  <2>4. Within(E, SeedRules) /\ Within(F, SeedRules) /\ Within(G, SeedRules)
        /\ Within(H, SeedRules)
    BY <1>6, <1>7, <1>8, <1>9
  <2> HIDE DEF A, B, C, D, E, F, G, H
  <2>5. Within(A \cup E \cup F \cup B, SeedRules)
    BY <2>2, <2>3, <2>4, WithinUnion
  <2>6. Within(G \cup C, SeedRules) /\ Within(D \cup H, SeedRules)
    BY <2>3, <2>4, WithinUnion
  <2>7. ValidateHost(name, node) = (A \cup E \cup F \cup B) \cup (G \cup C) \cup (D \cup H)
    BY <2>1
  <2>8. Within((A \cup E \cup F \cup B) \cup (G \cup C), SeedRules)
    BY <2>5, <2>6, WithinUnion
  <2> HIDE DEF SeedRules
  <2>. QED  BY <2>6, <2>7, <2>8, WithinUnion

LEMMA SeedInventoryBreaks ==
  ASSUME CInv, origin = "seed"
  PROVE  ~StateRaises(document) /\ Errors(Parse(document)) \subseteq SeedRules
<1> DEFINE inventory == Parse(document)
<1>1. Proposes(machine) /\ machine \in Machines /\ document = Render(SeedInventory(machine))
  BY DEF CInv, FileInv
<1>2. /\ ParseOutcome(document) = "parsed" /\ DOMAIN inventory.hosts = {Hostname(machine)}
      /\ \A field \in NodeFields \ {"role"} :
           inventory.hosts[Hostname(machine)][field] = Proposed(machine)[field]
  BY <1>1, SeedReadsBack
<1> HIDE DEF inventory
<1>3. Within(ValidateHosts(inventory), SeedRules)
  <2>1. ValidateHosts(inventory)
          = ValidateHost(Hostname(machine), inventory.hosts[Hostname(machine)])
    BY <1>2 DEF ValidateHosts
  <2>. QED  BY <1>1, <1>2, <2>1, SeedNodeBreaks
<1>4. Within(ValidateAcrossHosts(inventory), SeedRules)
  BY <1>2 DEF Within, Rule, ValidateAcrossHosts
<1>5. Within(Rule(inventory.hosts = <<>>, "error", "at_least_one_host"), SeedRules)
  <2>1. inventory.hosts # <<>>
    BY <1>2, DOMAIN << >> = {}
  <2>. QED  BY <2>1 DEF Within, Rule
<1>6. Within(Rule(inventory.mode = "standalone" /\ Cardinality(DOMAIN inventory.hosts) > 1,
                  "error", "standalone_is_one_machine"), SeedRules)
  <2>1. Cardinality(DOMAIN inventory.hosts) = 1
    BY <1>2, FS_Singleton
  <2>. QED  BY <2>1 DEF Within, Rule
<1>7. Within(Validate(inventory), SeedRules)
  <2> DEFINE A == Rule(inventory.hosts = <<>>, "error", "at_least_one_host")
             B == Rule(inventory.mode = "standalone" /\ Cardinality(DOMAIN inventory.hosts) > 1,
                       "error", "standalone_is_one_machine")
  <2>1. Validate(inventory)
          = A \cup B \cup ValidateHosts(inventory) \cup ValidateAcrossHosts(inventory)
    BY Zenon DEF Validate
  <2>2. Within(A, SeedRules) /\ Within(B, SeedRules)
    BY <1>5, <1>6
  <2> HIDE DEF A, B
  <2>. QED  BY <1>3, <1>4, <2>1, <2>2, WithinUnion
<1>. QED  BY <1>2, <1>7, ParsedIsInventory DEF Errors, Within, inventory

\* What the seed says of a machine is what the machine says of itself, for every
\* machine, its addresses, routes and lists of CPUs.
THEOREM SeedObserves == Spec => []SeedIsAsObserved
<1>1. CInv => SeedIsAsObserved
  <2> SUFFICES ASSUME CInv, origin = "seed" PROVE SeedIsAsObserved
    BY DEF SeedIsAsObserved
  <2> DEFINE link == DefaultRouteInterface(machine)
             rows == InterfaceAddresses(machine, link)
             n == FirstInet(machine, link)
             node == Parse(document).hosts[Hostname(machine)]
  <2>1. /\ Proposes(machine) /\ machine \in Machines /\ IsMachine(machine)
        /\ document = Render(SeedInventory(machine))
    BY MachinesAssumption DEF CInv, FileInv
  <2>2. /\ ParseOutcome(document) = "parsed" /\ DOMAIN document.hosts = {Hostname(machine)}
        /\ \A field \in NodeFields \ {"role"} : node[field] = Proposed(machine)[field]
    BY <2>1, SeedReadsBack
  <2>3. /\ node.network_interface = link /\ node.ansible_host = rows[n].local
        /\ node.subnet = PrefixLength(machine, link)
        /\ node.gateway_addr = DefaultGateway(machine)
        /\ node.isolcpus = ProposeIsolation(IsolatedNow(machine), Online(machine))
    BY <2>2 DEF NodeFields, Proposed
  <2>4. /\ n \in DOMAIN rows /\ rows = machine.addresses[link]
        /\ rows[n].family = "inet"
        /\ rows[n].prefix # 0 => PrefixLength(machine, link) = rows[n].prefix
    BY <2>1, FirstInetIs DEF Proposes
  <2>5. /\ DefaultRow(machine) \in DOMAIN machine.routes
        /\ machine.routes[DefaultRow(machine)].link = link
        /\ machine.routes[DefaultRow(machine)].gateway = DefaultGateway(machine)
        /\ machine.routes[DefaultRow(machine)].destination = 0
    BY <2>1, DefaultRowIs DEF Proposes, DefaultRouteInterface, DefaultGateway
  <2>6. IF IsolatedNow(machine) # {} THEN ParseCpuList(node.isolcpus) = IsolatedNow(machine)
        ELSE ParseCpuList(node.isolcpus) \subseteq Housekeeping..(Online(machine) - 1)
    BY <2>1, <2>3, ProposedIsolation
  <2> HIDE DEF link, rows, n, node
  <2>7. \E k \in DOMAIN machine.addresses[node.network_interface] :
          LET a == machine.addresses[node.network_interface][k] IN
          /\ a.family = "inet" /\ a.local = node.ansible_host
          /\ a.prefix # 0 => node.subnet = a.prefix
    BY <2>3, <2>4
  <2>8. \E k \in DOMAIN machine.routes :
          /\ machine.routes[k].destination = 0
          /\ machine.routes[k].link = node.network_interface
          /\ machine.routes[k].gateway = node.gateway_addr
    BY <2>3, <2>5
  <2>. QED  BY <2>2, <2>6, <2>7, <2>8 DEF SeedIsAsObserved, node
<1>. QED  BY <1>1, CInvariance, PTL

\* The seed, which nothing validates, breaks no rule but those about the name of
\* the machine, its network and the CPUs it isolates already, and never makes
\* the state raise, for every machine.
THEOREM SeedBreaksFew == Spec => []SeedBreaksOnly
<1>1. CInv => SeedBreaksOnly
  BY SeedInventoryBreaks DEF SeedBreaksOnly, SeedRules
<1>. QED  BY <1>1, CInvariance, PTL

=============================================================================
