------------------------------- MODULE MCNode -------------------------------
(***************************************************************************)
(* Instances of Node for TLC: two requests, an administrator's and a       *)
(* viewer's session, a machine with two names and two addresses, a file of *)
(* one line of the site and at most one line of an earlier life.           *)
(***************************************************************************)
EXTENDS NodeProperties, TLC

CONSTANTS r1, r2, start, i1, i2

MCRequests == {r1, r2}
MCEditors == {r1, r2, start}
MCInodes == {i1, i2}

Symmetric == {p @@ q : p \in Permutations(MCRequests), q \in Permutations(MCInodes)}

\* What is explored further.  A failure in the middle of overlapping edits may
\* leave anything in the file; what a request does depends neither on the host
\* keys, nor on where the machine is, nor on whether the files of the start are
\* whole; a machine that moves keeps its name, and one without the account has
\* no line to rewrite.  Nothing tells the two names apart, so the first life may
\* have either.
Explored ==
  /\ ~harmed
  /\ address = "moved" => host = "node" /\ account
  /\ host = "renamed" => restarts > 0
  /\ asked > 0 => /\ ~unrecorded /\ address = "here"
                  /\ \A f \in Files : file[f] = "full"

=============================================================================
