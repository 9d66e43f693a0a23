----------------------- MODULE ConfigurationProperties -----------------------
(***************************************************************************)
(* What the desired state, from the seed to a run, promises.               *)
(***************************************************************************)
EXTENDS Configuration

IsNode(node) ==
  /\ DOMAIN node = NodeFields
  /\ node.subnet \in 1..Width /\ node.ptp_domain_number \in {NoDomain} \cup 0..MaxDomain
  /\ node.extra \cap (FixedHostVars \cup DomainAliases) = {} /\ node.overrides = <<>>

IsInventory(inventory) ==
  /\ inventory.mode \in {"standalone", "cluster"}
  /\ \A name \in DOMAIN inventory.hosts : IsNode(inventory.hosts[name])

\* The state is well formed, and the page a form is filled from holds no value
\* the model of a machine refuses (NodeConfig), whoever wrote the file.
TypeOK ==
  /\ machine \in Machines
  /\ origin \in {"nothing", "seed", "form", "client", "site"}
  /\ commits \in 0..MaxCommits /\ page.commit \in 0..commits /\ launch.commit \in 0..commits
  /\ {document.text, head.text, previous.text, replaced.text}
       \subseteq {"empty", "broken", "mapping"}
  /\ saving \in {"nobody", "form", "client"}
  /\ IsInventory(page.inventory)
  /\ trust \in {"installed", "absent", "unreadable"}
  /\ launch.stage \in {"idle", "checked", "recorded", "started", "answered", "errored"}

\* What an operator saved is what everybody reads (render, then parse): the
\* file is valid and says what was entered, except for the role, which the
\* renderer has no group for, whatever was in the file before the save.
SavedReadsBack(inventory) ==
  /\ ParseOutcome(document) = "parsed"
  /\ Valid(inventory)
  /\ inventory.mode = entered.mode /\ DOMAIN inventory.hosts = DOMAIN entered.hosts
  /\ \A name \in DOMAIN inventory.hosts : \A field \in NodeFields \ {"role"} :
       inventory.hosts[name][field] = entered.hosts[name][field]
FormSaveReadsBack == origin = "form" => SavedReadsBack(Parse(document))

\* A save by the form changes no field it did not send and loses no variable
\* of a machine that the service does not know (model.py, extra), although the
\* page may be older than the file and the file is written as a whole.  What a
\* save does lose is the role of an observer, the groups' own variables other
\* than isolcpus, and the groups the service does not know.
Sent(name) ==
  {field \in NodeFields \ {"role"} :
     entered.hosts[name][field] # Parse(replaced).hosts[name][field]}
KeepsTheRest ==
  /\ DOMAIN document.hosts = DOMAIN replaced.hosts
  /\ \A name \in DOMAIN replaced.hosts :
       /\ replaced.hosts[name].others \cap SiteVariables \subseteq document.hosts[name].others
       /\ \E change \in FormChanges : Sent(name) \subseteq DOMAIN change
       /\ \A field \in NodeFields \ (Sent(name) \cup {"role"}) :
            Parse(document).hosts[name][field] = Parse(replaced).hosts[name][field]
SavesKeepTheRest == origin = "form" => KeepsTheRest

\* "Variables this service does not model survive", and a hand maintained
\* inventory does not lose half of itself to a save by the form
\* (docs/inventory.md): its groups keep the variables and the members they
\* had.  The renderer keeps neither.
HandMaintainedSurvives ==
  origin = "form" =>
    replaced.groups \subseteq document.groups /\ replaced.observers \subseteq document.observers

\* The seed says of the machine what the machine says of itself (discover):
\* the address and the gateway of its default route, with the prefix length of
\* that address when it has one, and the CPUs it isolates, through two
\* conversions of the CPU list; a machine that isolates none is left its
\* housekeeping CPUs, and is proposed none past the number of those online.
SeedIsAsObserved ==
  origin = "seed" =>
    /\ ParseOutcome(document) = "parsed"
    /\ DOMAIN document.hosts = {Hostname(machine)}
    /\ LET node == Parse(document).hosts[Hostname(machine)] IN
       /\ \E n \in DOMAIN machine.addresses[node.network_interface] :
            LET a == machine.addresses[node.network_interface][n] IN
            /\ a.family = "inet" /\ a.local = node.ansible_host
            /\ a.prefix # 0 => node.subnet = a.prefix
       /\ \E n \in DOMAIN machine.routes :
            /\ machine.routes[n].destination = 0
            /\ machine.routes[n].link = node.network_interface
            /\ machine.routes[n].gateway = node.gateway_addr
       /\ IF IsolatedNow(machine) # {}
            THEN ParseCpuList(node.isolcpus) = IsolatedNow(machine)
            ELSE ParseCpuList(node.isolcpus) \subseteq Housekeeping..(Online(machine) - 1)

\* Linux lets any link have an address of the loopback network.
HasStrayLoopback ==
  \E link \in machine.links \ {Loopback} :
    \E n \in DOMAIN InterfaceAddresses(machine, link) :
      IsLoopback(InterfaceAddresses(machine, link)[n].local)

\* Nothing validates the seed before it is committed (ensure_seed).  It never
\* makes the state raise, and the only rules it may break are about the name
\* of the machine, the CPUs it isolates already, a gateway off its network and
\* a loopback address that a link other than lo has.
SeedBreaksOnly ==
  origin = "seed" =>
    /\ ~StateRaises(document)
    /\ Errors(Parse(document)) \subseteq
         {"host_key_is_a_hostname", "gateway_is_reachable"}
           \cup (IF 0 \in IsolatedNow(machine) THEN {"cpu_zero_stays_housekeeping"} ELSE {})
           \cup (IF HasStrayLoopback THEN {"administration_address_is_not_loopback"} ELSE {})

\* A run converges an inventory that meets the conditions it was offered under
\* (RunService.launch), although the file is read again after they were
\* checked: whatever the form commits in between meets them too.  What may break
\* them is what passes the form by, the site's own edits, a revert, a PATCH and a
\* PUT, and the time between the two steps of a save, when what is frozen is an
\* empty file.
FrozenMeetsConditions ==
  launch.stage = "started" /\ ~launch.bypassed =>
    \/ launch.halfway /\ launch.snapshot = Empty
    \/ /\ ParseOutcome(launch.snapshot) = "parsed"
       /\ Valid(Parse(launch.snapshot))
       /\ launch.command.playbook \in ClusterPlaybooks => Mode(launch.snapshot) = "cluster"

\* POST /runs answers with an error for a run that goes only when, since its
\* check, the trust could not be read or the file was written past the form, by
\* hand, a PATCH, a PUT or a revert: no save of the form, half done or done, and
\* no revocation does it (api/v1/runs.py, launch).
ErrorsFollowInterference ==
  launch.stage = "errored" => launch.bypassed \/ launch.unread

=============================================================================
