------------------------------ MODULE TrustFile ------------------------------
(***************************************************************************)
(* What the service promises of an authorized_keys that belongs to         *)
(* somebody else: whole lines, added and removed by their comment, each    *)
(* edit at once, everything else preserved that was there when the edit    *)
(* read the file.                                                          *)
(***************************************************************************)
CONSTANTS
  Lines,  \* what a line of the file may be
  Ours    \* the lines of the service, which have a comment and a key

VARIABLES
  lines,       \* the lines of the file
  unseen,      \* those that an edit under way has not read
  overlapping  \* edits overlap, or one of those that did has failed

vars == <<lines, unseen, overlapping>>

Init == lines \subseteq Lines /\ unseen = {}

\* What the edit is made of: a line that was appended after it read the file is
\* lost.
Read == lines \ unseen

\* The line of a relation is there, once; only lines of the service that it
\* supersedes, of the same relation or with the same key, may go.
Provision(line) ==
  /\ line \in lines' /\ lines' \subseteq Read \cup {line}
  /\ \A l \in lines' \cap Ours : l.comment = line.comment => l = line
  /\ \A l \in Read \ lines' :
       l \in Ours /\ (l.comment = line.comment \/ l.key = line.key)
  /\ unseen' = {}

\* The lines of a relation are gone, and no other that the edit read.
Revoke(comment) ==
  /\ lines' = {l \in Read : l \in Ours => l.comment # comment}
  /\ unseen' = {}

\* An edit that fails, or dies, changes nothing.
GiveUp == UNCHANGED lines /\ unseen' = {}

\* Whether an edit has read the file already is the service's affair.
SiteAppends(line) ==
  /\ lines' = lines \cup {line}
  /\ unseen' \in {unseen, unseen \cup {line}}

\* Edits that overlap lose one another's changes: nothing is promised of them
\* but that the file holds lines.
Overlap == overlapping /\ lines' \subseteq Lines /\ unseen' \subseteq Lines

Next ==
  \/ UNCHANGED <<lines, unseen>>
  \/ GiveUp
  \/ \E line \in Ours : Provision(line) \/ Revoke(line.comment)
  \/ \E line \in Lines \ Ours : SiteAppends(line)
  \/ Overlap

Spec == Init /\ [][Next]_vars

=============================================================================
