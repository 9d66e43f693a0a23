-------------------------------- MODULE Node --------------------------------
(***************************************************************************)
(* The service of one node from its start to its next one: the files it    *)
(* makes at its first start and expects at every later one, the relation   *)
(* of trust it installs, the host keys it records, and, once it answers,   *)
(* the requests that read and revoke that relation under a session.  The   *)
(* process may die at any step, and the machine may be renamed or          *)
(* readdressed before it starts again.                                     *)
(*                                                                         *)
(* The start is one thread and precedes every request.  The tasks of the   *)
(* start that write the inventory and recover runs are in                  *)
(* InventoryRequests and in RunService.                                    *)
(***************************************************************************)
EXTENDS AuthorizedKeys, Sessions, Sequences

CONSTANTS
  Starter,      \* the editor that is the start of the service
  MaxRestarts,  \* bound: how often the process starts again
  MaxRequests   \* bound: how many requests are sent

ASSUME NodeAssumption ==
  /\ Starter \notin Requests /\ Editors = Requests \cup {Starter}
  /\ "none" \notin Hosts
  /\ MaxRestarts \in Nat /\ MaxRequests \in Nat

VARIABLES
  phase,        \* what the start is doing, whether the service answers
  file,         \* each file of the start: absent, empty or full
  todo,         \* the files this phase is still to write
  creating,     \* the first of them is created and not written
  known,        \* the names known_hosts records
  host, address,\* what the machine is called, and where it is
  account,      \* the .ssh directory of the account is there
  target,       \* the relation each request is revoking, if any
  provisioned,  \* history: the relation was installed, and no request has begun
                \* to revoke it
  revoked,      \* history: relations revoked by an edit that overlapped none
  torn,         \* history: the making of a file was interrupted
  unrecorded,   \* history: this start could not write known_hosts
  restarts,
  asked         \* how many were

startVars == <<phase, file, todo, creating, known>>
machineVars == <<host, address, account>>
historyVars == <<provisioned, revoked, torn, unrecorded>>
vars == <<keyVars, sessionVars, startVars, machineVars, target, historyVars,
          restarts, asked>>

Files  == {"tls_key", "tls_cert", "secret", "private", "public"}
\* A start that does not get to "up" ends before the application, or in the
\* startup tasks.
Phases == {"down", "certificate", "secret", "exited", "pair", "trust", "stopped",
           "known_hosts", "up"}
Names  == Hosts \X Addresses

Init ==
  /\ KeysInit /\ SessionsInit
  /\ phase = "down" /\ todo = <<>> /\ creating = FALSE
  /\ file = [f \in Files |-> "absent"]
  /\ known = {}
  /\ host \in Hosts /\ address \in Addresses
  /\ account \in BOOLEAN /\ (authorized # NoInode => account)
  /\ target = [r \in Requests |-> "none"]
  /\ provisioned = FALSE /\ revoked = {} /\ torn = FALSE
  /\ unrecorded = FALSE
  /\ restarts = 0 /\ asked = 0

TypeOK ==
  /\ KeysTypeOK /\ SessionsTypeOK
  /\ phase \in Phases
  /\ file \in [Files -> {"absent", "empty", "full"}]
  /\ todo \in Seq(Files) /\ creating \in BOOLEAN
  /\ known \subseteq Names
  /\ host \in Hosts /\ address \in Addresses /\ account \in BOOLEAN
  /\ target \in [Requests -> Hosts \cup {"none"}]
  /\ provisioned \in BOOLEAN /\ revoked \subseteq Hosts
  /\ torn \in BOOLEAN /\ unrecorded \in BOOLEAN
  /\ restarts \in 0..MaxRestarts /\ asked \in 0..MaxRequests

-----------------------------------------------------------------------------
(* The start.                                                              *)

Present(f) == file[f] # "absent"

\* Mutant: the certificate is made only when its key is missing too.
DueWithoutKey(p) ==
  CASE p = "certificate" /\ ~(Present("tls_cert") \/ Present("tls_key"))
                                        -> <<"tls_key", "tls_cert">>
    [] p = "secret" /\ ~Present("secret") -> <<"secret">>
    [] p = "pair" /\ ~Present("private")  -> <<"private", "public">>
    [] OTHER                              -> <<>>

\* What a phase makes: a file that exists is never made again, whatever it
\* holds, and the public half goes with the private one.
Due(p) ==
  CASE p = "certificate" /\ ~(Present("tls_cert") /\ Present("tls_key"))
                                        -> <<"tls_key", "tls_cert">>
    [] p = "secret" /\ ~Present("secret") -> <<"secret">>
    [] p = "pair" /\ ~Present("private")  -> <<"private", "public">>
    [] OTHER                              -> <<>>

Enter(p) == phase' = p /\ todo' = Due(p)

Boot ==
  /\ phase = "down"
  /\ Enter("certificate")
  /\ unrecorded' = FALSE
  /\ UNCHANGED <<file, creating, known, machineVars, keyVars, sessionVars, target,
                 provisioned, revoked, torn, restarts, asked>>

\* Where a crash leaves something that is not made again: any file but the
\* first of the certificate's two, and a private half without the public one.
Interrupted ==
  todo # <<>> /\ (todo = <<"public">> \/ (creating /\ Head(todo) # "tls_key"))

\* A file is there, and empty, before its text is.
CreateFile ==
  /\ todo # <<>> /\ ~creating
  /\ file' = [file EXCEPT ![Head(todo)] = "empty"]
  /\ creating' = TRUE
  /\ UNCHANGED <<phase, todo, known, machineVars, keyVars, sessionVars, target,
                 historyVars, restarts, asked>>

WriteFile ==
  /\ todo # <<>> /\ creating
  /\ file' = [file EXCEPT ![Head(todo)] = "full"]
  /\ todo' = Tail(todo)
  /\ creating' = FALSE
  /\ UNCHANGED <<phase, known, machineVars, keyVars, sessionVars, target,
                 historyVars, restarts, asked>>

\* A full disk ends the process, unless it met the pair, whose OSError the
\* startup tasks catch.
FileFails ==
  /\ todo # <<>>
  /\ Enter(IF phase = "pair" THEN "known_hosts" ELSE "exited")
  /\ creating' = FALSE
  /\ torn' = TRUE
  /\ UNCHANGED <<file, known, machineVars, keyVars, sessionVars, target,
                 provisioned, revoked, unrecorded, restarts, asked>>

Ready(p) ==
  /\ phase = p /\ todo = <<>> /\ ~creating
  /\ UNCHANGED <<file, creating, known, machineVars, sessionVars, target,
                 restarts, asked>>

\* load_pem_x509_certificate raises for an empty file, and nothing catches it.
CertificateRead ==
  /\ Ready("certificate")
  /\ Enter(IF file["tls_cert"] = "full" THEN "secret" ELSE "exited")
  /\ UNCHANGED <<keyVars, historyVars>>

SecretRead ==
  /\ Ready("secret")
  /\ Enter("pair")
  /\ UNCHANGED <<keyVars, historyVars>>

\* The public half of a pair that lacks it is not found, and of an account
\* that is missing the directory: both are logged, and the start goes on.
PairRead ==
  /\ Ready("pair")
  /\ Enter(IF Present("public") /\ account THEN "trust" ELSE "known_hosts")
  /\ UNCHANGED <<keyVars, historyVars>>

OwnLine(h) ==
  [comment |-> h, key |-> IF file["public"] = "full" THEN "pair" ELSE "blank",
   from |-> address]

InstallTrust ==
  /\ Ready("trust")
  /\ Install(Starter, OwnLine(host))
  /\ UNCHANGED <<phase, todo, historyVars>>

EditTrust ==
  /\ Ready("trust")
  /\ EditStep(Starter)
  /\ revoked' = IF at'[Starter] = "changed" THEN revoked \ {host} ELSE revoked
  /\ UNCHANGED <<phase, todo, provisioned, torn, unrecorded>>

\* The fingerprint of an empty public half is an IndexError, which the
\* startup tasks do not catch.
TrustInstalled ==
  /\ Ready("trust")
  /\ Collect(Starter)
  /\ LET installed == at[Starter] # "raised"
     IN /\ Enter(IF installed /\ file["public"] # "full" THEN "stopped"
                 ELSE "known_hosts")
        /\ provisioned' = (installed /\ file["public"] = "full")
  /\ UNCHANGED <<revoked, torn, unrecorded>>

\* Mutant: a file that records names is left alone.
RecordOnce ==
  /\ phase = "known_hosts" /\ ~creating
  /\ \/ /\ known # {}
        /\ Enter("up")
        /\ UNCHANGED <<known, creating, unrecorded>>
     \/ /\ known = {}
        /\ creating' = TRUE
        /\ UNCHANGED <<phase, todo, known, unrecorded>>
  /\ UNCHANGED <<file, machineVars, keyVars, sessionVars, target, provisioned,
                 revoked, torn, restarts, asked>>

\* ensure_local rewrites the file in place when its text is not what it should
\* be, and does without when the host has no key or the file cannot be opened.
RecordHostKeys ==
  /\ phase = "known_hosts" /\ ~creating
  /\ \/ /\ known = {<<host, address>>}
        /\ Enter("up")
        /\ UNCHANGED <<known, creating, unrecorded>>
     \/ /\ known # {<<host, address>>}
        /\ known' = {}
        /\ creating' = TRUE
        /\ UNCHANGED <<phase, todo, unrecorded>>
     \/ /\ Enter("up")
        /\ unrecorded' = TRUE
        /\ UNCHANGED <<known, creating>>
  /\ UNCHANGED <<file, machineVars, keyVars, sessionVars, target, provisioned,
                 revoked, torn, restarts, asked>>

HostKeysWritten ==
  /\ phase = "known_hosts" /\ creating
  /\ known' \in {{<<host, address>>}, {}}
  /\ unrecorded' = (known' = {})
  /\ creating' = FALSE
  /\ Enter("up")
  /\ UNCHANGED <<file, machineVars, keyVars, sessionVars, target, provisioned,
                 revoked, torn, restarts, asked>>

Start ==
  \/ Boot \/ CreateFile \/ WriteFile \/ FileFails \/ CertificateRead \/ SecretRead
  \/ PairRead \/ InstallTrust \/ EditTrust \/ TrustInstalled \/ RecordHostKeys
  \/ HostKeysWritten

-----------------------------------------------------------------------------
(* The requests.                                                           *)

Serving ==
  /\ phase = "up"
  /\ UNCHANGED <<startVars, machineVars, torn, unrecorded, restarts>>

Ask(r, op, cookie, token) ==
  /\ Serving /\ asked < MaxRequests
  /\ Send(r, op, cookie, token)
  /\ asked' = asked + 1
  /\ UNCHANGED <<keyVars, target, provisioned, revoked>>

Authenticate(r) ==
  /\ Serving
  /\ RequestStep(r)
  /\ UNCHANGED <<keyVars, target, provisioned, revoked, asked>>

Reply(r) ==
  /\ Answer(r)
  /\ target' = [target EXCEPT ![r] = "none"]
  /\ UNCHANGED <<table, expired, drawn>>

\* The file first, then the pair: an account that is missing, a public half
\* that is, and one that is empty, are three exceptions nothing catches, here
\* and in the preconditions of a launch.
RelationsRaise == ~account \/ (Present("private") /\ file["public"] # "full")

Relations(r) ==
  /\ Serving
  /\ stage[r] = "handler" /\ call[r].op = "relations"
  /\ Reply(r)
  /\ UNCHANGED <<keyVars, provisioned, revoked, asked>>

Revoke(r, h) ==
  /\ Serving
  /\ stage[r] = "handler" /\ call[r].op = "revoke"
  /\ account
  /\ Remove(r, h)
  /\ target' = [target EXCEPT ![r] = h]
  /\ provisioned' = (provisioned /\ h # host)
  /\ UNCHANGED <<sessionVars, revoked, asked>>

RevokeMissing(r) ==
  /\ Serving
  /\ stage[r] = "handler" /\ call[r].op = "revoke"
  /\ ~account
  /\ Reply(r)
  /\ UNCHANGED <<keyVars, provisioned, revoked, asked>>

EditRevoke(r) ==
  /\ Serving
  /\ EditStep(r)
  /\ revoked' = IF at'[r] = "changed" /\ ~shared THEN revoked \cup {target[r]}
                ELSE revoked
  /\ UNCHANGED <<sessionVars, target, provisioned, asked>>

\* 204 when the line was there, 404 when it was not.
RevokeAnswers(r) ==
  /\ Serving
  /\ Collect(r)
  /\ Reply(r)
  /\ UNCHANGED <<provisioned, revoked, asked>>

Tick(id) ==
  /\ Serving
  /\ Expire(id)
  /\ UNCHANGED <<keyVars, target, provisioned, revoked, asked>>

SiteEdits(l) ==
  /\ SiteAppends(l)
  /\ UNCHANGED <<sessionVars, startVars, machineVars, target, historyVars,
                 restarts, asked>>

Serve(r) ==
  \/ \E op \in Operations, cookie \in drawn \cup {NoCookie}, token \in BOOLEAN :
       Ask(r, op, cookie, token)
  \/ \E h \in Hosts : Revoke(r, h)
  \/ Authenticate(r) \/ Relations(r) \/ RevokeMissing(r) \/ EditRevoke(r)
  \/ RevokeAnswers(r)

\* The process dies, or has ended on its own, and systemd starts it again, on
\* a machine that a run may have renamed or moved.
Die ==
  /\ phase # "down" /\ restarts < MaxRestarts
  /\ phase' = "down" /\ todo' = <<>> /\ creating' = FALSE
  /\ torn' = (torn \/ Interrupted)
  /\ KeysCrash /\ SessionsCrash
  /\ target' = [r \in Requests |-> "none"]
  /\ provisioned' = FALSE
  /\ host' \in Hosts /\ address' \in Addresses
  /\ restarts' = restarts + 1
  /\ UNCHANGED <<file, known, account, revoked, unrecorded, asked>>

Next ==
  \/ Start
  \/ \E r \in Requests : Serve(r)
  \/ \E id \in Ids : Tick(id)
  \/ \E l \in SiteLines : SiteEdits(l)
  \/ Die

Spec == Init /\ [][Next]_vars

=============================================================================
