---------------------------- MODULE EventStream ----------------------------
(***************************************************************************)
(* One run as its viewers see it: events.jsonl, which the run's thread     *)
(* appends to, the record its verdict goes to, and the generators behind   *)
(* GET /runs/{id}/events, one per connection, which read both.             *)
(*                                                                         *)
(* Events are numbered in the order the run appends them, so event n is    *)
(* line n of the file.  A line reaches the file in pieces: RunStore only   *)
(* flushes, and a long line is more than one write; one that lacks only    *)
(* its newline parses, and counts as complete here.  Nothing is appended   *)
(* after an incomplete line that was given up, because the run ends there. *)
(***************************************************************************)
EXTENDS Naturals, Sequences

CONSTANTS
  Viewers,      \* browsers and other clients, one connection each
  MaxEvents,    \* bound: events of the run
  MaxCrashes,   \* bound: how often the process dies
  MaxCuts       \* bound: connections that break, or are left, on their own

ASSUME EventStreamAssumption ==
  MaxEvents \in Nat /\ MaxCrashes \in Nat /\ MaxCuts \in Nat

VARIABLES
  up,        \* whether the service answers
  writer,    \* the run's thread: running, appending, ending, or gone
  lines,     \* complete lines in the file
  partial,   \* an incomplete line follows them
  finished,  \* run.json holds a verdict
  stream,    \* where the generator of each connection is
  pos,       \* lines its pass over the file has read
  index,     \* the id it gives next, which is also what a client asks for
  shown,     \* the events a viewer received since it opened the run
  told,      \* viewers that received the verdict
  settled,   \* history: viewers that opened the run after its verdict
  torn,      \* history: viewers whose generator read a line in two pieces
  crashes, cuts

runVars    == <<writer, lines, partial, finished>>
viewerVars == <<stream, pos, index, shown, told, settled, torn>>
vars == <<up, runVars, viewerVars, crashes, cuts>>

Stops == {"closed", "reading", "fragment", "loading", "sleeping"}

Init ==
  /\ up = TRUE
  /\ writer = "running" /\ lines = 0 /\ partial = FALSE /\ finished = FALSE
  /\ stream = [v \in Viewers |-> "closed"]
  /\ pos = [v \in Viewers |-> 0]
  /\ index = [v \in Viewers |-> 0]
  /\ shown = [v \in Viewers |-> <<>>]
  /\ told = {} /\ settled = {} /\ torn = {}
  /\ crashes = 0 /\ cuts = 0

\* A generator is never ahead of the file, nor its ids ahead of its reading.
TypeOK ==
  /\ up \in BOOLEAN
  /\ writer \in {"running", "appending", "ending", "gone"}
  /\ lines \in 0..MaxEvents
  /\ partial \in BOOLEAN /\ finished \in BOOLEAN
  /\ stream \in [Viewers -> Stops]
  /\ pos \in [Viewers -> 0..lines]
  /\ index \in [Viewers -> 0..lines]
  /\ \A v \in Viewers : index[v] <= pos[v]
  /\ shown \in [Viewers -> Seq(Nat)]
  /\ told \subseteq Viewers /\ settled \subseteq Viewers /\ torn \subseteq Viewers
  /\ crashes \in 0..MaxCrashes /\ cuts \in 0..MaxCuts

-----------------------------------------------------------------------------
(* The run's thread, and what a restart does to its record.                *)

AppendBegin ==
  /\ writer = "running" /\ lines < MaxEvents
  /\ writer' = "appending"
  /\ partial' = TRUE
  /\ UNCHANGED <<up, lines, finished, viewerVars, crashes, cuts>>

AppendEnd ==
  /\ writer = "appending"
  /\ writer' = "running"
  /\ partial' = FALSE
  /\ lines' = lines + 1
  /\ UNCHANGED <<up, finished, viewerVars, crashes, cuts>>

\* append_event raises, which ends the run; what was written stays.
AppendFails ==
  /\ writer = "appending"
  /\ writer' = "ending"
  /\ UNCHANGED <<up, lines, partial, finished, viewerVars, crashes, cuts>>

ExecuteEnds ==
  /\ writer = "running"
  /\ writer' = "ending"
  /\ UNCHANGED <<up, lines, partial, finished, viewerVars, crashes, cuts>>

FinishSave ==
  /\ writer = "ending"
  /\ writer' = "gone"
  /\ finished' = TRUE
  /\ UNCHANGED <<up, lines, partial, viewerVars, crashes, cuts>>

\* The process dies and every connection with it.
Crash ==
  /\ up
  /\ crashes < MaxCrashes /\ crashes' = crashes + 1
  /\ up' = FALSE
  /\ writer' = "gone"
  /\ stream' = [v \in Viewers |-> "closed"]
  /\ UNCHANGED <<lines, partial, finished, pos, index, shown, told, settled, torn, cuts>>

\* reconcile closes the record before anything is served.
Restart ==
  /\ ~up
  /\ up' = TRUE
  /\ finished' = TRUE
  /\ UNCHANGED <<writer, lines, partial, viewerVars, crashes, cuts>>

-----------------------------------------------------------------------------
(* GET /runs/{id}/events.                                                  *)

\* Mutant: a pass starts where the file ended, or one line too far.
PassAtEnd(v, offset) == pos' = [pos EXCEPT ![v] = lines]
PassAfter(v, offset) == pos' = [pos EXCEPT ![v] = offset + 1]
\* RunStore.events counts the lines from the first and skips those below the
\* offset; nothing below it changes any more.
PassFrom(v, offset) == pos' = [pos EXCEPT ![v] = offset]

\* The page opens a run: it empties the pane and asks for everything.
Show(v) ==
  /\ up /\ stream[v] = "closed"
  /\ stream' = [stream EXCEPT ![v] = "reading"]
  /\ index' = [index EXCEPT ![v] = 0]
  /\ PassFrom(v, 0)
  /\ shown' = [shown EXCEPT ![v] = <<>>]
  /\ told' = told \ {v}
  /\ torn' = torn \ {v}
  /\ settled' = IF finished THEN settled \union {v} ELSE settled \ {v}
  /\ UNCHANGED <<up, runVars, crashes, cuts>>

\* A client that lost its connection asks for what follows the last id it saw.
Resume(v) ==
  /\ up /\ stream[v] = "closed" /\ v \notin told
  /\ stream' = [stream EXCEPT ![v] = "reading"]
  /\ PassFrom(v, index[v])
  /\ settled' = IF finished THEN settled \union {v} ELSE settled \ {v}
  /\ UNCHANGED <<up, runVars, index, shown, told, torn, crashes, cuts>>

\* Mutant: the id is not moved on.
DeliverSameId(v) ==
  /\ stream[v] = "reading" /\ pos[v] < lines
  /\ shown' = [shown EXCEPT ![v] = Append(@, pos[v] + 1)]
  /\ pos' = [pos EXCEPT ![v] = @ + 1]
  /\ UNCHANGED <<up, runVars, stream, index, told, settled, torn, crashes, cuts>>

\* A complete line is sent under the next id.
Deliver(v) ==
  /\ stream[v] = "reading" /\ pos[v] < lines
  /\ shown' = [shown EXCEPT ![v] = Append(@, pos[v] + 1)]
  /\ pos' = [pos EXCEPT ![v] = @ + 1]
  /\ index' = [index EXCEPT ![v] = @ + 1]
  /\ UNCHANGED <<up, runVars, stream, told, settled, torn, crashes, cuts>>

\* The beginning of a line is read as a line, does not parse, and is skipped
\* without an id.
ReadFragment(v) ==
  /\ stream[v] = "reading" /\ pos[v] = lines /\ partial
  /\ stream' = [stream EXCEPT ![v] = "fragment"]
  /\ UNCHANGED <<up, runVars, pos, index, shown, told, settled, torn, crashes, cuts>>

\* The same pass finds the rest once it is written, and skips that as well.
ReadRest(v) ==
  /\ stream[v] = "fragment" /\ pos[v] < lines
  /\ stream' = [stream EXCEPT ![v] = "reading"]
  /\ pos' = [pos EXCEPT ![v] = @ + 1]
  /\ torn' = torn \union {v}
  /\ UNCHANGED <<up, runVars, index, shown, told, settled, crashes, cuts>>

\* Mutant: a pass ends after any line.
ReadSome(v) ==
  /\ stream[v] \in {"reading", "fragment"}
  /\ stream' = [stream EXCEPT ![v] = "loading"]
  /\ UNCHANGED <<up, runVars, pos, index, shown, told, settled, torn, crashes, cuts>>

ReadEnd(v) ==
  /\ stream[v] = "fragment" \/ (stream[v] = "reading" /\ ~partial)
  /\ pos[v] = lines
  /\ stream' = [stream EXCEPT ![v] = "loading"]
  /\ UNCHANGED <<up, runVars, pos, index, shown, told, settled, torn, crashes, cuts>>

\* The record is read after the file.  Mutant: the record is not read again.
LoadStale(v) ==
  /\ stream[v] = "loading"
  /\ stream' = [stream EXCEPT ![v] = IF v \in settled THEN "closed" ELSE "sleeping"]
  /\ told' = IF v \in settled THEN told \union {v} ELSE told
  /\ UNCHANGED <<up, runVars, pos, index, shown, settled, torn, crashes, cuts>>

LoadRecord(v) ==
  /\ stream[v] = "loading"
  /\ stream' = [stream EXCEPT ![v] = IF finished THEN "closed" ELSE "sleeping"]
  /\ told' = IF finished THEN told \union {v} ELSE told
  /\ UNCHANGED <<up, runVars, pos, index, shown, settled, torn, crashes, cuts>>

Wake(v) ==
  /\ stream[v] = "sleeping"
  /\ stream' = [stream EXCEPT ![v] = "reading"]
  /\ PassFrom(v, index[v])
  /\ UNCHANGED <<up, runVars, index, shown, told, settled, torn, crashes, cuts>>

\* The connection breaks, or the viewer leaves.
Cut(v) ==
  /\ stream[v] # "closed"
  /\ cuts < MaxCuts /\ cuts' = cuts + 1
  /\ stream' = [stream EXCEPT ![v] = "closed"]
  /\ UNCHANGED <<up, runVars, pos, index, shown, told, settled, torn, crashes>>

-----------------------------------------------------------------------------
Run == AppendBegin \/ AppendEnd \/ AppendFails \/ ExecuteEnds \/ FinishSave

Poll(v) ==
  \/ Deliver(v) \/ ReadFragment(v) \/ ReadRest(v) \/ ReadEnd(v)
  \/ LoadRecord(v) \/ Wake(v)

Next ==
  \/ Run \/ Crash \/ Restart
  \/ \E v \in Viewers : Show(v) \/ Resume(v) \/ Poll(v) \/ Cut(v)

Spec == Init /\ [][Next]_vars

\* The event loop runs every generator that is not asleep and wakes the ones
\* that are.  The run may take as long as it likes, and viewers come and go.
Fairness == \A v \in Viewers : WF_vars(Poll(v))
FairSpec == Spec /\ Fairness
=============================================================================
