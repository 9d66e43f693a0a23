---------------------------- MODULE Configuration ----------------------------
(***************************************************************************)
(* From what a machine observes to what a run converges: the seed, the     *)
(* form and its page, the API's PUT, PATCH and revert, edits of the file   *)
(* by hand, and the launch, which reads the desired state three times and  *)
(* the trust twice.                                                        *)
(*                                                                         *)
(* A save empties the file before it writes it, and a launch reads between *)
(* the two.  How writers overlap one another is InventoryRequests's        *)
(* subject, and here one is over before the next begins; the lock of a run *)
(* is RunService's.                                                        *)
(***************************************************************************)
EXTENDS Catalogue, Discovery

CONSTANTS
  Machines,        \* machines the service may find itself on
  FormChanges,     \* what an operator may change in the form at once
  ClientChanges,   \* what a PATCH not made by the form may carry
  Replacements,    \* inventories a PUT may carry
  HandEdits,       \* what the site may make of the file
  Launches,        \* launch requests: an entry, check or not, and variables
  MaxCommits       \* bound: commits of a behaviour

NodeFields ==
  {"role", "ansible_host", "network_interface", "subnet", "gateway_addr",
   "dns_servers", "ptp_interface", "ptp_domain_number", "ntp_servers",
   "admin_user", "grub_password", "isolcpus", "extra", "overrides"}

ASSUME MachinesAssumption == \A m \in Machines : IsMachine(m)

\* The form's own limits: it does not offer the role and the other variables,
\* a prefix length and a domain are numbers between a smallest and a largest,
\* a password is hashed on arrival.
ASSUME FormAssumption ==
  \A change \in FormChanges :
    /\ DOMAIN change \subseteq NodeFields \ {"role", "extra", "overrides"}
    /\ "subnet" \in DOMAIN change => change.subnet \in {0} \cup 1..Width
    /\ "ptp_domain_number" \in DOMAIN change =>
         change.ptp_domain_number \in {NoDomain} \cup 0..MaxDomain

\* pydantic's own checks of an inventory; a file or a body names finitely many
\* machines, and a file is never left empty by hand.
ASSUME ReplacementsAssumption ==
  \A candidate \in Replacements :
    /\ candidate.mode \in {"standalone", "cluster"}
    /\ IsFiniteSet(DOMAIN candidate.hosts)
    /\ \A name \in DOMAIN candidate.hosts :
         /\ DOMAIN candidate.hosts[name] = NodeFields
         /\ candidate.hosts[name].subnet \in 1..Width
         /\ candidate.hosts[name].ptp_domain_number \in {NoDomain} \cup 0..MaxDomain

ASSUME HandEditsAssumption ==
  \A edited \in HandEdits :
    edited.text \in {"broken", "mapping"} /\ IsFiniteSet(DOMAIN edited.hosts)

ASSUME MaxCommitsAssumption == MaxCommits \in Nat

VARIABLES
  machine,    \* what LocalHostReader finds
  document,   \* inventory.yaml, and who wrote it last
  origin,
  head,       \* what the newest commit has of it, Empty for nothing, and the
  previous,   \* commit before it
  commits,    \* how many commits the repository has
  saving,     \* whose save has emptied the file and not written it
  entered,    \* history: the candidate of that save, or of the form's last one,
  replaced,   \* and the file it replaces
  page,       \* the inventory the form was filled from, and its commit
  trust,      \* what TrustService.relations says of the relation with itself
  launch      \* the launch request under way, or the last one: bypassed when the
              \* file was written past the form since its check, halfway when it
              \* was read between the two steps of a save, unread when the trust
              \* was unreadable since the check

fileVars   == <<document, origin>>
commitVars == <<head, previous, commits>>
saveVars   == <<saving, entered, replaced>>
vars == <<machine, fileVars, commitVars, saveVars, page, trust, launch>>

NoPage == [commit |-> 0, inventory |-> [mode |-> "standalone", hosts |-> <<>>]]

NoLaunch ==
  [stage |-> "idle", request |-> <<>>, commit |-> 0, snapshot |-> Empty,
   command |-> <<>>, bypassed |-> FALSE, halfway |-> FALSE, unread |-> FALSE]

Init ==
  /\ machine \in Machines
  /\ document = Empty /\ origin = "nothing"
  /\ head = Empty /\ previous = Empty /\ commits = 0
  /\ saving = "nobody" /\ entered = NoPage.inventory /\ replaced = Empty
  /\ page = NoPage
  /\ trust \in {"installed", "absent"}
  /\ launch = NoLaunch

\* A launch has been checked and not answered.
Starting == launch.stage \in {"checked", "recorded", "started"}

PastTheForm == launch' = [launch EXCEPT !.bypassed = @ \/ Starting]

Forget == entered' = NoPage.inventory /\ replaced' = Empty

-----------------------------------------------------------------------------
(* InventoryService.save: validated, rendered and committed, unless the    *)
(* file has this content already.                                          *)

\* git finds nothing to commit in a file that is as the newest commit has it.
Commit(content) ==
  IF content = head THEN UNCHANGED commitVars
  ELSE /\ commits < MaxCommits
       /\ head' = content /\ previous' = head /\ commits' = commits + 1

\* Mutant: what was typed is rendered and written as it is.
SaveUnvalidated(who, candidate) ==
  /\ saving = "nobody" /\ Renderable(candidate)
  /\ entered' = candidate /\ replaced' = document
  /\ IF Render(candidate) = document
       THEN origin' = who /\ UNCHANGED <<document, saving>>
       ELSE document' = Empty /\ origin' = "nothing" /\ saving' = who
\* write_text empties the file first.
Save(who, candidate) ==
  /\ saving = "nobody"
  /\ ~ValidateRaises(candidate) /\ Valid(candidate)
  /\ Renderable(candidate)
  /\ entered' = candidate /\ replaced' = document
  /\ IF Render(candidate) = document
       THEN origin' = who /\ UNCHANGED <<document, saving>>
       ELSE document' = Empty /\ origin' = "nothing" /\ saving' = who

\* The text, git add and git commit, which leave the file alone.
Written ==
  /\ saving # "nobody"
  /\ document' = Render(entered) /\ origin' = saving /\ saving' = "nobody"
  /\ Commit(document')
  /\ IF saving = "form" THEN UNCHANGED <<entered, replaced, launch>>
     ELSE Forget /\ PastTheForm
  /\ UNCHANGED <<machine, page, trust>>

\* PATCH applies the changes to the inventory as it is now.  model_copy checks
\* no value.
Patched(node, change) ==
  [field \in NodeFields |-> IF field \in DOMAIN change THEN change[field] ELSE node[field]]
Candidate(name, change) ==
  [Parse(document) EXCEPT !.hosts[name] = Patched(@, change)]

MayPatch(name) ==
  /\ ParseOutcome(document) = "parsed" /\ ~StateRaises(document)
  /\ name \in DOMAIN document.hosts

\* The process ends, with the save and the launch that were under way, and the
\* next start seeds an empty file (ensure_seed): nothing checks what the machine
\* proposes, and nobody reads before the service answers.
Start ==
  /\ saving' = "nobody" /\ launch' = NoLaunch
  /\ IF document = Empty /\ Proposes(machine)
       THEN /\ document' = Render(SeedInventory(machine)) /\ origin' = "seed"
            /\ Commit(document')
       ELSE UNCHANGED <<fileVars, commitVars>>
  /\ IF document = Empty THEN Forget ELSE UNCHANGED <<entered, replaced>>
  /\ UNCHANGED <<machine, page, trust>>

\* loadInventory: the form, and the commit a save will name.
LoadPage ==
  /\ ParseOutcome(document) = "parsed" /\ ~StateRaises(document)
  /\ page' = [commit |-> commits, inventory |-> Parse(document)]
  /\ UNCHANGED <<machine, fileVars, commitVars, saveVars, trust, launch>>

\* readForm: a prefix length left blank is the default one.
Filled(change) ==
  [field \in DOMAIN change |->
     IF field = "subnet" /\ change[field] = 0 THEN DefaultSubnet ELSE change[field]]

\* Only the fields that differ from the page are sent.  A page shown no commit
\* sends an empty If-Match, which no commit equals.
FormSaves(name, change) ==
  /\ name \in DOMAIN page.inventory.hosts
  /\ \A field \in DOMAIN change : Filled(change)[field] # page.inventory.hosts[name][field]
  /\ MayPatch(name) /\ page.commit = commits /\ commits > 0
  /\ Save("form", Candidate(name, Filled(change)))
  /\ page' = NoPage
  /\ UNCHANGED <<machine, commitVars, trust, launch>>

\* A PATCH without If-Match.
ClientPatches(name, change) ==
  /\ MayPatch(name)
  /\ Save("client", Candidate(name, change))
  /\ PastTheForm
  /\ UNCHANGED <<machine, commitVars, page, trust>>

\* A PUT replaces every machine; the message of its commit asks for the state
\* that was.
ClientReplaces(candidate) ==
  /\ ~StateRaises(document)
  /\ Save("client", candidate)
  /\ PastTheForm
  /\ UNCHANGED <<machine, commitVars, page, trust>>

\* git revert of the newest commit, which nothing validates, and which git
\* refuses when the file is not as committed.  Reverting an older one merges
\* text, and is InventoryRequests's.
Revert ==
  /\ saving = "nobody" /\ commits \in 1..MaxCommits - 1 /\ document = head
  /\ document' = previous /\ origin' = "client"
  /\ Commit(document')
  /\ Forget /\ PastTheForm
  /\ UNCHANGED <<machine, saving, page, trust>>

\* The site edits the file, which is its own, without a commit.
HandEdit(edited) ==
  /\ saving = "nobody" /\ edited # document
  /\ document' = edited /\ origin' = "site"
  /\ Forget /\ PastTheForm
  /\ UNCHANGED <<machine, commitVars, saving, page, trust>>

\* The relation is revoked or provisioned, or what tells it cannot be read.
TrustChanges(reading) ==
  /\ reading # trust
  /\ trust' = reading
  /\ launch' = [launch EXCEPT !.unread = @ \/ (Starting /\ reading = "unreadable")]
  /\ UNCHANGED <<machine, fileVars, commitVars, saveVars, page>>

-----------------------------------------------------------------------------
(* RunService.launch, and the answer of POST /runs.                        *)

\* playbooks() raises whatever the state or the trust raise.
CatalogueRaises == StateRaises(document) \/ trust = "unreadable"

LaunchCheck(request) ==
  /\ ~Starting /\ ~CatalogueRaises
  /\ Blocking(request.entry, UnmetPreconditions(document, trust = "installed")) = {}
  /\ request.check => Previewable(request.entry)
  /\ Accepted(request.entry, request.variables)
  /\ launch' = [NoLaunch EXCEPT !.stage = "checked", !.request = request]
  /\ UNCHANGED <<machine, fileVars, commitVars, saveVars, page, trust>>

\* The commit a run is recorded with, none when the file is empty; raising here
\* ends the request.
LaunchState ==
  /\ launch.stage = "checked"
  /\ launch' = IF StateRaises(document) THEN NoLaunch
               ELSE [launch EXCEPT !.stage = "recorded",
                       !.commit = IF document = Empty THEN 0 ELSE commits]
  /\ UNCHANGED <<machine, fileVars, commitVars, saveVars, page, trust>>

\* The lock is taken, the file is copied as it is, and the run starts.
LaunchSnapshot ==
  /\ launch.stage = "recorded"
  /\ launch' = [launch EXCEPT
       !.stage = "started", !.snapshot = document, !.halfway = saving # "nobody",
       !.command = Command(launch.request.entry, launch.request.check,
                           launch.request.variables)]
  /\ UNCHANGED <<machine, fileVars, commitVars, saveVars, page, trust>>

\* The handler asks for the whole catalogue again to name the preview.
Answered(stage) ==
  [NoLaunch EXCEPT !.stage = stage, !.bypassed = launch.bypassed, !.unread = launch.unread]

\* Mutant: it looks among the entries that are available.
AnswerFromAvailable ==
  /\ launch.stage = "started"
  /\ launch' = Answered(
       IF CatalogueRaises
            \/ Blocking(launch.request.entry,
                        UnmetPreconditions(document, trust = "installed")) # {}
       THEN "errored" ELSE "answered")
  /\ UNCHANGED <<machine, fileVars, commitVars, saveVars, page, trust>>
LaunchAnswer ==
  /\ launch.stage = "started"
  /\ launch' = Answered(IF CatalogueRaises THEN "errored" ELSE "answered")
  /\ UNCHANGED <<machine, fileVars, commitVars, saveVars, page, trust>>

Next ==
  \/ Start
  \/ LoadPage
  \/ \E name \in DOMAIN page.inventory.hosts, change \in FormChanges : FormSaves(name, change)
  \/ \E name \in DOMAIN document.hosts, change \in ClientChanges : ClientPatches(name, change)
  \/ \E candidate \in Replacements : ClientReplaces(candidate)
  \/ Written
  \/ Revert
  \/ \E edited \in HandEdits : HandEdit(edited)
  \/ \E reading \in {"installed", "absent", "unreadable"} : TrustChanges(reading)
  \/ \E request \in Launches : LaunchCheck(request)
  \/ LaunchState
  \/ LaunchSnapshot
  \/ LaunchAnswer

Spec == Init /\ [][Next]_vars

=============================================================================
