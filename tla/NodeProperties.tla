--------------------------- MODULE NodeProperties ---------------------------
(***************************************************************************)
(* What the start of a node and the edits of its authorized_keys promise.  *)
(***************************************************************************)
EXTENDS Node

\* The lines of the site survive every edit that read them
\* (authorized_keys._write): at any moment, through a crash and a failure of any
\* step, when no two edits under way have overlapped, and again once all are
\* over when some have.  Two cases are excepted.  A line the site appends after
\* an edit read the file and before it renames is lost by that one edit, alone
\* as it may be (missed, and Forgive): the rename takes the whole file.  And
\* nothing is said after a failure that met edits that overlapped (harmed).
SiteLinesKept == ~harmed /\ (~shared \/ Quiet) => site \subseteq Content

\* A revocation that overlapped no other edit (authorized_keys.remove) stays
\* done, whatever later edits and crashes do, until a start installs the
\* relation again.
RevocationsHold == \A l \in Content \cap OwnLines : l.comment \notin revoked

\* What a start installed is what sshd reads (authorized_keys.install): the
\* relation under the machine's present name and address, and no other line
\* of the service that carries the same key, in spite of a rename, of a file
\* an earlier life left, of lines the site appends meanwhile, and of edits that
\* failed, unless a failure met edits that overlapped (harmed).
InstalledIsCurrent ==
  provisioned /\ ~harmed /\ (~shared \/ Quiet)
    => {l \in Content \cap OwnLines : l.key = "pair"} = {OwnLine(host)}

\* Steps that read, write and rename two files implement a file that changes in
\* one step (authorized_keys, which replaces it atomically): an edit that
\* overlaps no other is made whole or not at all, whatever failure or crash
\* meets it, and of the file as the edit read it: what the site appended since
\* is lost, and nothing else is.  Nothing is promised of edits that overlap, nor
\* after a failure that met some.
File == INSTANCE TrustFile
          WITH lines <- Content, unseen <- missed,
               overlapping <- shared \/ harmed,
               Lines <- Lines, Ours <- OwnLines
ImplementsTrustFile == File!Spec

\* A node whose files were all made without interruption starts, and can
\* report its trust for ever after (ensure_key_pair, ensure_tls_material,
\* TrustService.relations).
UntornNodeServes ==
  ~torn => /\ phase \notin {"exited", "stopped"}
           /\ phase = "up" => file["secret"] = "full" /\ (account => ~RelationsRaise)

\* A service that answers knows its own host key under the names it has now
\* and no other, whatever the machine was called before and wherever an earlier
\* start was interrupted (known_hosts.ensure_local), unless this start found no
\* key or could not write it.
HostKeysCurrent == phase = "up" => known = {<<host, address>>} \/ unrecorded

\* No request that rides on a cookie edits the keys without the token of a
\* session of an administrator, although the middleware lets it pass when it
\* finds no session and the route looks a second time (CsrfMiddleware).
OnlyGenuineRequestsEdit ==
  \A r \in Requests : at[r] # "idle" =>
    call[r].cookie \in Admins /\ call[r].token

\* The race of two deletions (SessionStore.get, _purge) hits a login, or a
\* session that had expired, never a request whose session lives.
LiveSessionsNeverErr ==
  \A r \in Requests : stage[r] = "key_error" =>
    call[r].op = "login" \/ call[r].cookie \in expired

\* bootstrap.py:12 says that nothing in the startup tasks is allowed to stop
\* the service from starting.
TasksNeverStopTheStart == phase # "stopped"

=============================================================================
