# seapath-webui in TLA+

seapath-webui is the web interface of one SEAPATH machine: it keeps an Ansible
inventory in a git repository, runs the upstream playbooks on it, and shows
what they do. It is one Python process. FastAPI serves every request that is
not a stream on a thread of a pool, each playbook runs on a daemon thread of
its own, event streams are coroutines, and everything that has to survive is a
file. Nothing but one lock file serialises anything, the container is restarted
whenever it dies, and the playbooks it runs reboot the machine it runs on. So
the questions are about order: what two threads do to the same files, and what
a process that dies between two file operations leaves for the next one.

## The system

| Part | State | Operations | Meets | What makes it correct |
|---|---|---|---|---|
| Run store, `app/runs/store.py` | `.lock`; per run `run.json`, `inventory.yaml`, `events.jsonl`, `stdout.log` | `create` `save` `load` `list` `append_event` `events` `acquire` `release` `reconcile` | called by the run service from request threads, run threads and startup | one holder, the lock goes after the verdict, recovery closes everything |
| Run service, `app/runs/service.py` | the set of cancelled runs, one record per run thread | `launch` `cancel` `_execute` `reconcile` | the store, the adapter (callbacks), three reads of the inventory, the trust relations | one convergence at a time, honest and final verdicts, cancellation works |
| Adapter and progress | none that lasts | `execute` `apply_event` `summarise` | ansible-runner | the recap tells an end from a disappearance |
| Event stream, `app/api/v1/runs.py`, `runs.js` | per connection: id and place in the file; per page: the pane | `GET events`, `show`, resumption | the store's files, written meanwhile | every event, once, in order, then the verdict; streams end |
| Inventory, `app/inventory/repository.py`, `service.py`, `app/api/v1/inventory.py`, `setup.js` | working tree, git index, history; per page: a document and a commit | browse, `PUT`, `PATCH`, revert, `ensure_seed` | launch reads it three times | nothing committed is lost unseen, authors are right, what runs is on record |
| Startup, `app/core/bootstrap.py` | none | self trust, host keys, seed, `reconcile`, in this order | everything above | each repairs, none stops the start |
| Trust, `app/trust/` | `authorized_keys` (shared with the site), key pair, `known_hosts` | `install` `remove` `ensure_key_pair` `ensure_local` | startup, `DELETE /trust`, a launch's precondition | the lines of others survive |
| Sessions and secrets, `app/core/sessions.py`, `security.py`, `tls.py` | a table in memory, secret and certificate files | login, resolve, logout, purge, the check of a token | every request | only who may edits, no live session errs, files usable after a crash |
| Inventory document, `app/inventory/model.py`, `parser.py`, `renderer.py`, `validation.py` | none | parse, render, validate | the inventory, launch, the form | what is rendered is what was meant, and nothing else changes |
| Discovery and host readings, `app/inventory/discovery.py`, `app/hosts/local.py` | none that lasts | what the machine proposes about itself | the seed | the seed is what was observed |
| Catalogue, `app/runs/catalogue.py` | none | which playbooks are offered, with which variables | launch | a run meets the conditions it was offered under |
| Accounts, settings, pages | none that lasts | reads and rendering | | stateless |

The behaviours that are hard to test are listed line by line as the hazards of
`PROJECT.json`, each with the properties that would show it going wrong.

## Modules

| Module | What it is |
|---|---|
| `RunStore` | the files of the store, one operator per file operation that is atomic for other threads and for a crash |
| `RunService` | launch, cancel, `_execute`, release and startup recovery over the store, an action per file operation |
| `RunServiceProperties` | what must hold of it; the refinement mapping; two statements of its documentation |
| `RunLifecycle` | the abstract specification: what `GET /runs` promises of the states of runs |
| `RunServiceProofs`, `RunServiceClaims` | invariants and the refinement, proved; claims about verdicts, proved |
| `InventoryRepository` | working tree, index and history, one operator per file operation or git command |
| `InventoryRequests` | the requests, the seed, a launch's three reads and a crash, interleaved over the repository |
| `InventoryHistory` | the abstract specification: a history of versions that each request extends at one instant |
| `InventoryProperties` | what the repository promises, the refinement mapping, and what its documentation says |
| `InventoryProofs`, `InventoryCalmProofs` | its invariants and the refinement, proved |
| `EventStream`, `EventStreamProperties`, `EventStreamProofs` | one run's file and record, its thread, and the generators that read both |
| `AuthorizedKeys` | one edit of `authorized_keys`, an action per system call, over inodes and the two names that lead to them |
| `Sessions` | the session table, and a request's way through the middleware and the dependency of its route |
| `Node` | composes the two with the files of the start: from the start of the service, through its requests, to its next start |
| `TrustFile` | the abstract specification of `authorized_keys`: a set of lines that each edit changes in one step |
| `NodeProperties`, `NodeProofs` | what a node promises of its keys, its files and its sessions, with the refinement mapping to `TrustFile`; the proofs |
| `HostReadings`, `Discovery`, `DiscoveryProofs` | what the machine says of itself, and the inventory it seeds from that; what its loops compute, proved |
| `InventoryDocument`, `InventoryRules` | parse and render; the rules of the validation |
| `Catalogue` | the playbooks, the conditions under which one is offered, what a launch accepts |
| `Configuration` | composes the five: the seed, the form, PATCH, PUT and revert, edits by hand and the reads of a launch over one document |
| `ConfigurationProperties`, `ConfigurationProofs` | what the way from the machine to a run promises; the proofs |
| `MCRunService`, `MCInventory`, `MCNode`, `MCConfiguration` | the values and the symmetry of the instances TLC checks |

### RunService

A run identifier stands for the launch request that drew it and then for the
thread the launch started: `pc[r]` is the place of that one line of control.
`lock`, `disk`, `filled` and `trace` are files and survive a `Crash`; `mem`
(the record in the thread's hands), `cancelled` and the rest do not. `acquire`
is two steps, the exclusive creation and the write of the identifier, and
`release` is two, the comparison with the holder and the unlink, because the
code makes them two system calls. `launch` releases only around `create`;
elsewhere its failures leave what they find. `ExecuteRaises` is the `except` of
`_execute`, whichever of the three calls of `on_event` raised. Only the recap
is followed among Ansible's events: the others change neither the state nor the
flag a verdict is made of. What a launch checks first changes nothing and is
taken as passed; its reads of the inventory are in `InventoryRequests` and
`Configuration`. A start is three kinds of step: `Restart`, which the container
does; `Start`, when the tasks before the recovery pass or what they raise is
caught; and `StartRaises`, when the reading of the addresses
(`bootstrap.py:91`), or something other than a missing account or an `OSError`
out of lines 93 to 107, ends the process before it recovered anything. Which of
the two happens, and how often, is left open here: `Node` shows one way in
which it happens for ever.

### InventoryRequests

A document is the set of operator edits it carries, which is what the
properties tell apart; a commit is a place in the history. `commit` is five
steps after its comparison (compare the content, empty the file, write it, add,
commit), each of which may be the last; `write_text` is two because opening for
writing empties the file. `state` is two reads. git's commands are taken as
atomic, as their own locks make them: a `git add` or `git commit` that meets
another's `index.lock` fails, which is one of the failures `CommitFails`
covers. A revert is git's three way merge on sets of edits, and may conflict
whenever neither side is unchanged. A request is *calm* while no other request
writes during it, and a page is calm if the read behind it was: `calm` is a
history variable that names the schedules a lock around the writes would allow.
Refined to `InventoryHistory`, a save is the instant of its git commit, and
every step before and after it a stutter. A request that is calm, and names the
commit its page was shown, adds one edit to the newest version; one that is not
calm makes some version, signed by its operator, because that is all a schedule
of overlapping writes leaves; a revert takes back what one commit changed, and
no more, in any schedule.

### EventStream

Event *n* is line *n*. An append reaches the file in pieces, so a reader may
see the beginning of a line, and may find the rest in the same pass. A
generator knows two numbers, the lines its pass has read and the id it gives
next; the second is where the next pass, or a reconnecting client, starts.

### Node

`phase` is where the start is; `todo` and `creating` say which file a phase is
writing. A file is absent, empty or full, because the code creates and then
writes it, and takes one that exists for one that is whole. An edit of
`authorized_keys` has the steps of `_write`: open with `O_TRUNC` under a name
all edits share, write, set mode and owner by name, rename by name. A name
leads to an inode, so that an editor that opened the temporary file goes on
writing to what another has renamed over the target. The site appends lines of
its own at any moment, and no lock keeps it from doing so between an edit's
read (`authorized_keys.py:70`, `97`) and its `os.replace` (184): the rename
then takes the new line away, with one edit, no failure and no error. `missed`
holds the lines appended since an edit under way has read the file; when the
last edit is over, or the process dies, those of them that are gone are taken
from `site`, the lines the service answers for, and no other line ever is.
Further history variables name the schedules: `shared` while edits under way
have overlapped, `harmed` once a failure met edits that had, and `torn` once
the making of a file was interrupted; `revoked` holds what a revocation that
overlapped no other edit took away. Refined to `TrustFile`, whose `lines` are
the content of the inode `authorized_keys` leads to and whose `unseen` are the
lines `missed`, the steps of an edit are stutters but for the last one: an edit
that overlaps no other is made at that instant, of the lines it read and not of
those appended since. While edits overlap, or a failure has met some that did,
the file may hold any lines. `Die` keeps what is in files and loses the
sessions, and the machine may come back under another name or address. That is
the only place where it gets another name: a run may rename it and skip the
reboot, and then the service has an old name until it starts again, which is
not modelled. A request looks its session up in the middleware when its method
is unsafe, then in the dependency of its route, then in logout: each lookup is
a step, and the deletion of an expired session another. A cookie is the
identifier itself; the identifier of an administrator's session says so.

### Configuration

A document is what the parser reads: per host its variables, the members of two
groups, the isolated CPUs of a third, and what else the site put into groups.
Addresses are numbers of a few bits, so that networks and prefix lengths are
arithmetic; CPU lists are sequences of ranges, so that the two conversions
between a list and a set are computed. A save parses the whole file, replaces
what was sent, validates and renders the whole file; it is two steps, as
`write_text` empties the file first (`repository.py:169`), and the reads of a
launch fall between them too. The form sends what differs from the page and
cannot send a value that the model of a machine refuses. Everything else passes
it by: a PATCH of another client, whose changes nobody checks one by one and
whose `extra` may override a variable the service models (`renderer.py:145`); a
PUT, which replaces every machine; a revert, which nothing validates; and edits
of the file by hand. So `StateRaises` is reachable: a committed prefix length
out of range makes every later reading raise. Reverting the newest commit puts
back what was committed before it; reverting an older one merges text, and is
in `InventoryRequests`, as is what overlapping writers do to one another: here
one is over before the next begins. A `Start` ends what was under way, and
seeds a file that is empty.

`FrozenMeetsConditions` excepts the launches between whose check and whose
answer the file was written past the form (`bypassed`), and those that read the
file between the two steps of a save (`halfway`), of which it says that they
froze an empty file; `ErrorsFollowInterference` excepts the first kind, and
launches during which the trust could not be read (`unread`), but not the
second: an empty file does not raise. A save keeps of a group its isolated CPUs
only, and of the roles nothing; `SavesKeepTheRest` is about the rest, and
`HandMaintainedSurvives` about what is lost.

## Runs

| Run | Shows |
|---|---|
| `run_service` | Two launch requests, two crashes, two failed operations, starts that end early: mutual exclusion, the lock and recovery invariants, earned and final verdicts, and that the records implement `RunLifecycle`; with fair threads, `CancelStops`, `RestartServes`, `UnfinishedSettles` |
| `stale_lock` | A counterexample: a lock nobody will release, after a crash and a complete recovery |
| `interrupted_recap` | A counterexample: a run with its recap on disk is called interrupted |
| `inventory` | Two operators, two edits, three commits, one crash, failure or conflict: settled means committed; calm requests get what If-Match, the author and the frozen inventory promise; the requests implement `InventoryHistory` |
| `inventory_overwrite` | A counterexample: two saves pass the same comparison of HEAD |
| `inventory_seed` | A counterexample: the seed is committed over a history that has an inventory |
| `event_stream` | Two viewers, three events, one crash, one cut: panes are beginnings of the run, late viewers see all, events arrive, streams end |
| `stream_verdict` | A counterexample: the verdict overtakes the last event |
| `node` | Two requests, an administrator's and a viewer's session, one restart under another name: lines of the site survive but those appended behind an edit, revocations hold, what is installed is current, an edit that overlaps no other implements one that is made at once of what it read, whole files let the node serve, only genuine requests edit, live sessions never err |
| `node_starts` | A counterexample: a start that ends because an earlier one was interrupted, and every later one with it |
| `configuration` | Seven machines, changes by the form and by a PATCH, PUT and revert, edits by hand, three launches, restarts: the form's saves read back and keep what machines had, the seed is what was observed, a run meets the conditions it was offered under |
| `hand_maintained` | A counterexample: the first save by the form drops the variables of the site's groups and the role of an observer |

The seven counterexamples are disagreements between the code and its own
documentation, quoted in `PROJECT.json`:

1. recovery unlinks the lock only when it found an unfinished record, so a
   process that died in the first or last steps of a run blocks every launch,
   across restarts, until somebody deletes the file;
2. recovery does not look at `final_status_seen`;
3. If-Match is compared before a write that other requests are not kept from;
4. emptying the file before writing it lets a crash pass for a first boot;
5. the generator loads the record after it read the file, and closes on it;
6. a public key that a crash left empty is installed as it is, and its
   fingerprint raises what the startup tasks do not catch;
7. the renderer writes the same groups whatever the file had, with one variable
   in one of them, so that what a site set in groups does not survive a save.

The passing runs state what does hold around them: `LockHasOwner` for
behaviours without crash or failure, `NoUnseenOverwrite` for calm requests,
`PaneIsPrefix` for generators that met no line in two pieces. Each condition is
a state the run reaches and leaves, and its complement is reached as well.
Three sentences of the documentation that no counterexample is kept for are
contradicted by states the passing runs reach. "An invalid desired state must
never reach the repository" (`validation.py:6`, `docs/inventory.md:194`): the
seed is committed unvalidated, and `SeedBreaksOnly` says which rules it may
break; a revert is not validated either; and a PATCH or a PUT whose `extra`
overrides a variable is validated without it. "Everything else preserved byte
for byte" (`authorized_keys.py:12`): a line the site appends between an edit's
read and its rename is lost, which `SiteLinesKept` says of no other line. And
`docs/inventory.md:174` says that a variable the service does not know is
written out untouched, which is so for those of a machine (`SavesKeepTheRest`).

### Bounds

`MaxCrashes`, `MaxFaults`, `MaxMishaps`, `MaxCuts`, `MaxEvents` and
`MaxCommits` are guards, named in the modules that use them. Two launch
requests are enough for one to hold the lock and the other to be refused, or to
follow it; two crashes let recovery itself be interrupted; two failures meet
each step of each request, and one after another. Starts may end before the
recovery any number of times. Two operators are what an overlap needs; three
commits let a revert have something before and after it, with the seed
(`MaxCommits` counts one fewer after a mishap, which keeps the instance small
where most promises are already void). Three events let a line be read in two
pieces with one before it and one after.

In `node`, three requests are a login and two edits that overlap; two inodes
are all that are named or open at once when two edits share the temporary name,
and the theorems have any number. One restart meets what any step of the first
life left, and lets the machine be renamed or moved in between; the requests
are the same whichever name it has, the first life may have either since
nothing tells them apart, and the two of them, and the inodes, are
interchangeable, which is what the symmetry says: no property names one. The
constraint `Explored` of `MCNode` stops at behaviours that a failure has
`harmed`, at requests of a node whose host keys or start files are not whole,
which do not look at them, and at requests after a move. In `configuration` an
address has three bits, so every prefix length but the largest has more than
one network; seven machines have as many CPUs as are kept for housekeeping, one
more, and eight, isolate none, three of eight, or CPU 0, lack a default route
or `iproute2`, have an address without a prefix length, and a loopback address
on a link that is not `lo`; the changes reach every rule of the validation, and
both sides of the boundary of a prefix length and a PTP domain. Three commits
are a seed, a save, and a revert or another. Its `Explored` lets only one
machine launch and go past a first commit, because a launch reads the file and
the trust and not the machine; changes the trust over a first commit only;
follows a launch that was bypassed, and what comes after an answer, over a file
that has no commit; checks the states of the last commit and goes no further;
and drops pages of another commit, which save nothing.

None of the theorems has a bound: the constants are arbitrary there. Deadlock
is not checked, because the system rests when every request was served.

### Fairness

`FairSpec` of `RunService` assumes that threads are scheduled (each step of a
launch or a run thread that is enabled is taken, unless it fails), that a
cancel request past its checks completes, that ansible-runner polls the cancel
callback, and that the container is started again after it died
(`Restart=always` in `seapath-webui.container`). It does not assume that a
playbook ends, that anybody asks for anything, that an operation fails, or that
a start succeeds: starts that always end before the recovery are a fair
behaviour. `RestartServes` and `UnfinishedSettles` therefore have a premise,
`StartsPass`, that from some time on no start ends there, and `node_starts` is
a behaviour in which it is false. `CancelStops` has none. Crashes and failures
are finitely many by their bounds. `FairSpec` of `EventStream` assumes that the
event loop runs a generator that is ready and wakes one that sleeps; the run
may take for ever. `Node` and `Configuration` state safety only, and assume no
fairness.

## Proofs

TLAPS checks every theorem, for every value of the constants, from the
assumptions on them: the special values of the lock and of a document are
distinct from runs and edits and from each other, operators are finitely many
and none is the seeder, a machine says what a kernel may say, the lines of the
site are not the service's, the form sends what its fields can hold, and bounds
are natural numbers.

- **RunService.** Mutual exclusion and the lock properties are not inductive:
  that an unfinished record names the holder does not say why no other run can
  take or remove the lock meanwhile. `IInv` of `RunServiceProofs` adds what
  `lock` may hold at each place of `pc`, that two runs are never both between
  taking and removing it, that a run about to unlink still owns it, and what
  recovery has left to do. `TypeCorrect` and `Invariance` are its two halves;
  `MutualExclusion`, `LockCoversRecord` and `RecoveryIsComplete` follow from
  it. The end of the module proves `VerdictsAreFinal` step by step and
  `RecordsFollowLifecycle` from it: every step maps to a step of `RunLifecycle`
  or a stutter. `RunServiceClaims` adds what `mem` and `asked` must say before
  a verdict reaches the disk (`SuccessEarned`, `CancelledAsked`,
  `InventoryBesideRecord`, `LockOwned`).
- **Inventory.** `InventoryTypeCorrect`, then `TreeIsCommitted`: undisturbed,
  whoever writes last adds and commits, or finds that its content was committed
  for it. `InventoryCalmProofs` follows a calm request from its first read to
  its answer: `AnswersAreOwn`, `FrozenMatchesRecord`, `IfMatchProtects`. The
  invariant says of a calm save past its comparison that the commit it names is
  still HEAD, and that it will write HEAD and one edit; with it
  `HistoryImplemented` maps every step to a step of `InventoryHistory` or a
  stutter.
- **EventStream.** `PanesArePrefixes` and `LateViewersSeeAll`: within a pass
  that met no line in two pieces the place in the file is the id, and the file
  is final before the record has a verdict. `StreamTypeCorrect` is the part of
  the same invariant that gives the types.
- **Node.** `NInv` of `NodeProofs` has a part for each question. `FilesInv`
  says what an interrupted phase leaves, and that without `torn` the file a
  phase reads is full (`UntornServes`). `EditorsInv` says that only the start,
  while it provisions, and requests whose handler was reached by `revoke` are
  in an edit, and `SessionInv` what a request past its lookups has been told:
  that its cookie is an administrator's and its token right, and that what it
  is about to delete has expired (`OnlyGenuineEdits`, `LiveSessionsUnhurt`).
  `KeptInv` follows the lines of the site from the file to the plan of an edit,
  to the inode it writes and back, with at most one edit while none is
  `shared`, and accounts in `missed` for the lines an edit under way has not
  read (`SiteKept`); `RevokedInv` does the same for the absence of a revoked
  line, which the partial writes of failed and overlapping edits must not bring
  back (`Revoked`, which holds whatever has been harmed). `CurrentInv` follows
  the line a start installs: no edit under way plans to drop it or writes after
  another line with its key, and what is renamed over the file was written, or
  is about to be, by such an edit (`Installs`). `EditInv` says that what an
  edit alone planned is still an outcome of the file as it is but for the lines
  it `missed`, and that the inode it renames holds the plan and nothing else;
  with it `TrustFileImplemented` maps every step to a step of `TrustFile` or a
  stutter.
- **Discovery.** The conversion between a set of CPUs and the list it is
  written as is a loop, `RangesUpTo`, one CPU at a time. What is true after
  each step of it is an induction over natural numbers, which `InductiveSet`
  states for a set of numbers instead of a predicate. `RangesUpToAre` is that
  invariant of the loop: the ranges so far hold the CPUs of the set that were
  visited so far, and no other. `CpuListReadsBack` follows for every finite set
  of CPUs, and `ProposedIsolation` from it: the list a machine proposes reads
  as what it isolates, or leaves every housekeeping CPU.
- **Configuration.** `SavesReadBack` and `SavesKeep` rest on lemmas about
  parsing what was rendered, variable by variable, for documents with any
  hosts: the hosts a save writes are those it parsed, a group's isolated CPUs
  are the one value that all who have one agree on, and a valid standalone
  inventory has one machine. `CInv` has a part for each thing a save needs
  later than it is known: `FileInv` says of a save of the form that has emptied
  the file that what it is about to write is valid, renderable and made of the
  file it replaces by one change of the form (`FormCandidate`), and that what
  the form or the seed wrote last is the rendering of that candidate or of the
  proposal of the machine; `CommitInv` and `PageInv` say that commits hold
  files and pages what the model of a machine takes. `LaunchInv` carries the
  conditions from the check of a launch to its end across every other action
  (`FrozenMeets`, `ErrorsAreInterference`): while it is not bypassed the file
  is as it was checked, or is what the form saved since, or is empty under a
  save. With the reading back of one host and the theorems of
  `DiscoveryProofs`, what `FileInv` says of the seed gives `SeedObserves`,
  field by field, and `SeedBreaksFew`, rule by rule of the validation. Both are
  about every machine that `IsMachine` allows: what the kernel and iproute2 may
  say, with any number of CPUs, links and addresses.

Model-checked only: liveness (`CancelStops`, `RestartServes`,
`UnfinishedSettles`, `EventsArrive`, `StreamsEnd`), which the prover does not
do under fairness. Every invariant and every action property of the passing
runs is a theorem.

## Not modelled

Power loss, after which writes the code did not sync may be missing (only
`append_event` and an edit of `authorized_keys` sync); partial writes of
`run.json`'s temporary file, which nobody reads; the text of messages, the log
and the pages; identifiers drawn in one microsecond; mode and owner of files;
cryptography, PAM and Unix groups. The readings of the host that are only shown
(disks, memory, services, clocks, topology, the busy ratio of a CPU) keep no
state, but for the previous sample of the busy ratio, which two polls share
without a lock and which makes a ratio cover a shorter time than shown. A
preview writes its candidate to one temporary name beside the inventory, so two
previews at once may show each other's. The run page's `show` awaits two
requests before it opens its stream, so a second click in between leaves two
streams writing to one pane. SPEC.md asks for one run per cluster; the lock is
a file of one node, and the cluster is outside this code.

What the code does that the properties leave out, because no promise speaks of
it or because a property already excepts it by name: `PATCH` copies its changes
into the model without the checks of the model, so that a client other than the
form can commit a prefix length after which `GET /inventory` and every launch
raise, where `InventoryService.save` says that an invalid inventory never
reaches git; a launch may freeze the empty file of a save half done, or be
recorded with no commit because of it; the proposal of isolated CPUs counts the
CPUs online, and is right when they are numbered without gaps; the prefix
length proposed is that of the first address that has one, which need not be
the address proposed; a loopback address that a link other than `lo` has may be
proposed as the machine's, and is then refused by the validation; a launch
records HEAD while the file it freezes may have uncommitted edits by hand; of
two revocations that overlap, one may be answered with an error although its
line is gone.

## Plan

1. `RunPage`: the run page's asynchronous `show` over several runs, over
   `EventStream`, and the preview's candidate file.
2. Proofs: `OneRunExecutes` carried over to a composition of `RunService` and
   `Configuration`.
