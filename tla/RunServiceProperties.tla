------------------------ MODULE RunServiceProperties ------------------------
(***************************************************************************)
(* What must be true of RunService, and what its documentation says of it. *)
(***************************************************************************)
EXTENDS RunService

\* Two playbooks never converge the same machines at once, whatever the order
\* in which launches, failures, releases and restarts interleave.
OneRunExecutes ==
  \A r, s \in Runs :
    /\ pc[r] \in {"executing", "appended"}
    /\ pc[s] \in {"executing", "appended"}
    => r = s

\* A record that says pending or running names the holder of the lock, at
\* every instant, during a crash and its recovery too: the lock goes only
\* after the verdict is on disk.
UnfinishedHoldsLock ==
  \A r \in Runs : Unfinished(disk[r]) => lock = r

\* While the service answers, a record that says pending or running is not the
\* leftover of a process that died: startup closed those before serving.
OrphansAreClosed ==
  svc = "up" => \A r \in Runs : Unfinished(disk[r]) => pc[r] # "killed"

\* A verdict that reached the disk is never rewritten, by the run's thread or
\* by a later recovery.
VerdictIsFinal ==
  [][\A r \in Runs : Finished(disk[r]) => disk'[r] = disk[r]]_disk

\* success is said only of a run whose recap is in its record and in the event
\* stream an operator reads back.
SuccessIsEarned ==
  \A r \in Runs : disk[r].state = "success" => disk[r].seen /\ r \in trace

\* cancelled is said only of a run an operator asked to cancel, although
\* requests outlive the run they aim at.
CancelledWasAsked ==
  \A r \in Runs : disk[r].state = "cancelled" => r \in asked

\* Every record that list shows has its frozen inventory beside it, even if
\* the process died while the directory was being made.
RecordHasItsInventory ==
  \A r \in Runs : disk[r] # NoRecord => r \in filled

\* Somebody is there to give the lock back.
HasOwner == \E r \in Runs : pc[r] \in Owning /\ lock \in {r, EmptyLock}

\* While no operation fails and no process dies, a lock always has an owner.
LockHasOwner ==
  crashes = 0 /\ faults = 0 => (lock # NoLock => HasOwner)

\* The observable records behave as RunLifecycle says.
Lifecycle ==
  INSTANCE RunLifecycle WITH status <- [r \in Runs |-> disk[r].state]
ImplementsLifecycle == Lifecycle!Spec

-----------------------------------------------------------------------------
\* A cancel that got in while Ansible runs stops it, or the process dies first.
CancelStops ==
  \A r \in Runs :
    (pc[r] = "executing" /\ r \in cancelled)
      ~> pc[r] \notin {"executing", "appended"}

\* From some time on, no start ends in the tasks that come before the recovery:
\* nothing in the code says so, and a torn key makes every start end there
\* (TasksNeverStopTheStart in NodeProperties).
StartsPass == <>[][~StartRaises]_vars

\* The service comes back after each of finitely many deaths, unless its
\* starts go on ending before the recovery.
RestartServes == StartsPass => (svc # "up" ~> svc = "up")

\* A record stays unfinished for ever only while Ansible still runs, when a
\* failed operation stopped its line of control before the verdict was saved,
\* or when the starts go on ending before the recovery.
UnfinishedSettles ==
  StartsPass =>
    \A r \in Runs :
      []<>(\/ ~Unfinished(disk[r])
           \/ pc[r] \in {"executing", "stranded", "errored"})

-----------------------------------------------------------------------------
\* app/core/bootstrap.py says of startup recovery that without it the lock
\* would be held forever and block every future convergence: once the service
\* answers, a lock has an owner.
NoStaleLock == svc = "up" /\ lock # NoLock => HasOwner

\* app/runs/models.py says of interrupted: ended with no final status.
InterruptedHasNoRecap ==
  \A r \in Runs : disk[r].state = "interrupted" => ~disk[r].seen
=============================================================================
