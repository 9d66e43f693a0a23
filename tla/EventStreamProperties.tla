----------------------- MODULE EventStreamProperties -----------------------
(***************************************************************************)
(* What a viewer of a run may rely on, and what the documentation of the   *)
(* stream says.                                                            *)
(***************************************************************************)
EXTENDS EventStream

\* A viewer's pane shows a beginning of the run in order, with no gap and no
\* repetition, across broken connections, restarts of the service and a line
\* half written when the machine went down, as long as no single pass reads a
\* line in two pieces.
PaneIsPrefix ==
  \A v \in Viewers \ torn :
    /\ Len(shown[v]) = index[v]
    /\ \A n \in DOMAIN shown[v] : shown[v][n] = n

\* A viewer that opened or resumed the run after its verdict has every event
\* of the file when it is told the verdict.
LateViewerSeesAll ==
  \A v \in (told \intersect settled) \ torn : Len(shown[v]) = lines

\* Every event that is in the file reaches a viewer that stays connected.
EventsArrive ==
  \A v \in Viewers : \A n \in 1..MaxEvents :
    (stream[v] # "closed" /\ lines >= n)
      ~> (stream[v] = "closed" \/ index[v] >= n \/ v \in torn)

\* Once the run has its verdict, no connection is held open for ever.
StreamsEnd ==
  \A v \in Viewers :
    (stream[v] # "closed" /\ finished) ~> stream[v] = "closed"

-----------------------------------------------------------------------------
\* docs/api.md and the handler say that the stream is one event per Ansible
\* task event: when it closed with the verdict, it carried all of them.
OnePerTaskEvent == \A v \in told : Len(shown[v]) = lines
=============================================================================
