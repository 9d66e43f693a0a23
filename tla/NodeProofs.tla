----------------------------- MODULE NodeProofs -----------------------------
(***************************************************************************)
(* Proofs about Node, for every set of requests, identifiers, inodes and   *)
(* lines, and any number of restarts: the lines of the site survive, a     *)
(* revocation that was answered holds, what a start installed stays, the   *)
(* edits implement those of TrustFile, a node whose files were made        *)
(* without interruption serves, the host keys are those of the machine as  *)
(* it is, only an administrator's own request edits the keys, and a        *)
(* session that is still valid is never answered with an error.            *)
(***************************************************************************)
EXTENDS NodeProperties, TLAPS

-----------------------------------------------------------------------------
(* Types.                                                                  *)

LEMMA LeaveTypes ==
  ASSUME KeysTypeOK, NEW e \in Editors, NEW outcome \in Over, Leave(e, outcome)
  PROVE  /\ at' \in [Editors -> {"idle"} \cup Busy \cup Over]
         /\ plan' \in [Editors -> SUBSET Lines]
         /\ handle' \in [Editors -> Inodes \cup {NoInode}]
         /\ shared' \in BOOLEAN
  BY DEF Leave, KeysTypeOK, Over

LEMMA ReclaimTypes ==
  ASSUME KeysTypeOK, Reclaim
  PROVE  data' \in [Inodes -> SUBSET Lines]
  BY DEF Reclaim, KeysTypeOK

LEMMA SettleTypes ==
  ASSUME KeysTypeOK, NEW e \in Editors, Settle(e) \/ Forgive
  PROVE  site' \subseteq SiteLines /\ missed' \subseteq SiteLines
  BY DEF Settle, Forgive, siteVars, KeysTypeOK

LEMMA BeginTypes ==
  ASSUME KeysTypeOK, NEW e \in Editors, NEW lines \in SUBSET Lines, NEW needed \in BOOLEAN,
         Begin(e, lines, needed)
  PROVE  KeysTypeOK'
<1>1. UNCHANGED <<data, authorized, temporary, site, missed, harmed>>
  BY DEF Begin, fileVars, siteVars
<1>2. CASE needed
  <2>1. /\ at' = [at EXCEPT ![e] = "planned"] /\ plan' = [plan EXCEPT ![e] = lines]
        /\ handle' = handle /\ shared' = (shared \/ Others(e))
    BY <1>2 DEF Begin
  <2>2. shared' \in BOOLEAN
    BY <2>1 DEF KeysTypeOK
  <2>. QED  BY <1>1, <2>1, <2>2 DEF KeysTypeOK, Busy
<1>3. CASE ~needed
  <2>1. Leave(e, "unchanged") /\ "unchanged" \in Over
    BY <1>3 DEF Begin, Over
  <2>. QED  BY <1>1, <2>1, LeaveTypes DEF KeysTypeOK
<1>. QED  BY <1>2, <1>3

LEMMA ContentType == KeysTypeOK => Content \in SUBSET Lines
  BY DEF KeysTypeOK, Content

LEMMA InstallTypes ==
  ASSUME KeysTypeOK, NEW e \in Editors, NEW line \in OwnLines, Install(e, line)
  PROVE  KeysTypeOK'
<1>1. Installed(Content, line) \in SUBSET Lines
  BY ContentType DEF Installed, Lines
<1>. QED  BY <1>1, BeginTypes DEF Install

LEMMA RemoveTypes ==
  ASSUME KeysTypeOK, NEW e \in Editors, NEW comment, Remove(e, comment)
  PROVE  KeysTypeOK'
<1>1. Removed(Content, comment) \in SUBSET Lines
  BY ContentType DEF Removed
<1>. QED  BY <1>1, BeginTypes DEF Remove

LEMMA EditStepTypes ==
  ASSUME KeysTypeOK, NEW e \in Editors, EditStep(e)
  PROVE  KeysTypeOK'
<1>1. CASE Open(e)
  BY <1>1 DEF Open, KeysTypeOK, Busy, Writing, siteVars
<1>2. CASE OpenFails(e)
  <2>1. "raised" \in Over
    BY DEF Over
  <2>. QED  BY <1>2, <2>1, LeaveTypes, SettleTypes DEF OpenFails, KeysTypeOK, fileVars
<1>3. CASE Write(e)
  BY <1>3 DEF Write, KeysTypeOK, Busy, Writing, siteVars
<1>4. CASE WriteFails(e)
  BY <1>4 DEF WriteFails, KeysTypeOK, Busy, Writing, siteVars
<1>5. CASE Own(e)
  BY <1>5 DEF Own, KeysTypeOK, Busy, Writing, fileVars, siteVars
<1>6. CASE Replace(e)
  <2>1. CASE temporary = NoInode
    BY <1>6, <2>1 DEF Replace, KeysTypeOK, Busy, Writing, fileVars, siteVars
  <2>2. CASE temporary # NoInode
    <3>1. /\ authorized' = temporary /\ temporary' = NoInode /\ Leave(e, "changed")
          /\ Reclaim /\ Settle(e) /\ UNCHANGED harmed /\ "changed" \in Over
      BY <1>6, <2>2 DEF Replace, Over
    <3>. QED  BY <3>1, LeaveTypes, ReclaimTypes, SettleTypes DEF KeysTypeOK
  <2>. QED  BY <2>1, <2>2
<1>7. CASE Unlink(e)
  <2>1. "raised" \in Over
    BY DEF Over
  <2>. QED  BY <1>7, <2>1, LeaveTypes, ReclaimTypes, SettleTypes DEF Unlink, KeysTypeOK
<1>. QED  BY <1>1, <1>2, <1>3, <1>4, <1>5, <1>6, <1>7 DEF EditStep

LEMMA OtherKeyTypes ==
  ASSUME KeysTypeOK,
         \/ \E e \in Editors : Collect(e)
         \/ \E l \in SiteLines : SiteAppends(l)
         \/ KeysCrash
         \/ UNCHANGED keyVars
  PROVE  KeysTypeOK'
<1>1. ASSUME NEW e \in Editors, Collect(e) PROVE KeysTypeOK'
  BY <1>1 DEF Collect, KeysTypeOK, fileVars, siteVars
<1>2. ASSUME NEW l \in SiteLines, SiteAppends(l) PROVE KeysTypeOK'
  BY <1>2 DEF SiteAppends, KeysTypeOK, editVars, Lines
<1>3. CASE KeysCrash
  <2>1. data' \in [Inodes -> SUBSET Lines]
    BY <1>3, ReclaimTypes DEF KeysCrash
  <2>2. site' \subseteq SiteLines /\ missed' \subseteq SiteLines
    BY <1>3 DEF KeysCrash, Forgive, KeysTypeOK
  <2>. QED  BY <1>3, <2>1, <2>2 DEF KeysCrash, KeysTypeOK
<1>4. CASE UNCHANGED keyVars
  BY <1>4 DEF keyVars, fileVars, editVars, siteVars, KeysTypeOK
<1>. QED  BY <1>1, <1>2, <1>3, <1>4

LEMMA RequestStepTypes ==
  ASSUME SessionsTypeOK, NEW r \in Requests,
         \/ RequestStep(r)
         \/ \E op \in Operations, cookie \in drawn \cup {NoCookie}, token \in BOOLEAN :
              Send(r, op, cookie, token)
         \/ Answer(r) /\ UNCHANGED <<table, expired, drawn>>
  PROVE  SessionsTypeOK'
<1> USE DEF Goto, Stages, Lookups, Drops
<1>0. \A op : Route(op) \in Stages
  BY DEF Route
<1>1. ASSUME Answer(r) PROVE stage' \in [Requests -> Stages] /\ call' \in [Requests -> Calls]
                             /\ doomed' \in [Requests -> SUBSET drawn]
  BY <1>1 DEF Answer, SessionsTypeOK, NoCall, Calls, Operations
<1>2. ASSUME NotFound(r)
      PROVE  stage' \in [Requests -> Stages] /\ call' \in [Requests -> Calls]
             /\ doomed' \in [Requests -> SUBSET drawn]
  BY <1>0, <1>1, <1>2 DEF NotFound, SessionsTypeOK
<1>3. ASSUME Lookup(r) PROVE SessionsTypeOK'
  <2>1. UNCHANGED <<expired, drawn>>
    BY <1>3 DEF Lookup
  <2>2. CASE call[r].cookie \notin table
    BY <1>2, <1>3, <2>1, <2>2 DEF Lookup, SessionsTypeOK
  <2>3. CASE call[r].cookie \in table /\ call[r].cookie \notin expired
    <3>1. Found(r) /\ stage[r] \in {"csrf", "role", "logout"}
      BY <1>3, <2>3 DEF Lookup
    <3>2. CASE stage[r] = "csrf"
      BY <1>0, <1>1, <2>1, <3>1, <3>2 DEF Found, SessionsTypeOK
    <3>3. CASE stage[r] = "role"
      BY <1>1, <2>1, <3>1, <3>3 DEF Found, SessionsTypeOK
    <3>4. CASE stage[r] = "logout"
      BY <1>1, <2>1, <3>1, <3>4 DEF Found, SessionsTypeOK
    <3>. QED  BY <3>1, <3>2, <3>3, <3>4
  <2>4. CASE call[r].cookie \in table /\ call[r].cookie \in expired
    BY <1>3, <2>1, <2>4 DEF Lookup, SessionsTypeOK
  <2>. QED  BY <2>2, <2>3, <2>4
<1>4. ASSUME Drop(r) PROVE SessionsTypeOK'
  BY <1>2, <1>4 DEF Drop, SessionsTypeOK
<1>5. ASSUME NEW id \in Ids, LoginCreates(r, id) PROVE SessionsTypeOK'
  BY <1>5 DEF LoginCreates, SessionsTypeOK
<1>6. ASSUME NEW id \in Ids, Purge(r, id) PROVE SessionsTypeOK'
  BY <1>6 DEF Purge, SessionsTypeOK
<1>7. ASSUME NEW op \in Operations, NEW cookie \in drawn \cup {NoCookie},
             NEW token \in BOOLEAN, Send(r, op, cookie, token)
      PROVE  SessionsTypeOK'
  <2>1. [op |-> op, cookie |-> cookie, token |-> token] \in Calls
    BY DEF Calls, SessionsTypeOK
  <2>. QED  BY <1>0, <1>7, <2>1 DEF Send, SessionsTypeOK
<1>8. ASSUME Answer(r), UNCHANGED <<table, expired, drawn>> PROVE SessionsTypeOK'
  BY <1>1, <1>8 DEF SessionsTypeOK
<1>. QED  BY <1>3, <1>4, <1>5, <1>6, <1>7, <1>8
          DEF RequestStep, LoginRefused, LoginAnswers, ErrorAnswered

LEMMA OtherSessionTypes ==
  ASSUME SessionsTypeOK,
         \/ \E id \in Ids : Expire(id)
         \/ SessionsCrash
         \/ UNCHANGED sessionVars
  PROVE  SessionsTypeOK'
<1>1. ASSUME NEW id \in Ids, Expire(id) PROVE SessionsTypeOK'
  BY <1>1 DEF Expire, SessionsTypeOK
<1>2. CASE SessionsCrash
  BY <1>2 DEF SessionsCrash, SessionsTypeOK, Stages, Calls, NoCall, Operations
<1>3. CASE UNCHANGED sessionVars
  BY <1>3 DEF sessionVars, SessionsTypeOK
<1>. QED  BY <1>1, <1>2, <1>3

-----------------------------------------------------------------------------
(* What a step of the node is to the edits, and what it is to the sessions. *)

\* The sessions allow an edit: its request has been let in, and it is known
\* which relation it removes.
Editing(r) ==
  /\ phase = "up"
  /\ stage[r] = "handler" /\ call[r].op = "revoke"
  /\ target[r] \in Hosts /\ account

\* Edits are the start's while it is at the trust, and the requests' when the
\* service answers.
EditorsInv ==
  /\ at[Starter] # "idle" => phase = "trust"
  /\ \A r \in Requests : at[r] # "idle" => Editing(r)

KeysStep ==
  \/ \E e \in Editors : EditStep(e) \/ Collect(e)
  \/ Quiet /\ \E line \in OwnLines : Install(Starter, line)
  \/ \E r \in Requests, h \in Hosts : Remove(r, h)
  \/ \E l \in SiteLines : SiteAppends(l)
  \/ KeysCrash
  \/ UNCHANGED keyVars

SessionStep ==
  \/ \E r \in Requests :
       \/ RequestStep(r)
       \/ \E op \in Operations, cookie \in drawn \cup {NoCookie}, token \in BOOLEAN :
            Send(r, op, cookie, token)
       \/ Answer(r) /\ UNCHANGED <<table, expired, drawn>>
  \/ \E id \in Ids : Expire(id)
  \/ SessionsCrash
  \/ UNCHANGED sessionVars

\* The variables that are neither of the edits nor of the sessions.
NodeTypeOK ==
  /\ phase \in Phases
  /\ file \in [Files -> {"absent", "empty", "full"}]
  /\ todo \in Seq(Files) /\ creating \in BOOLEAN
  /\ known \subseteq Names
  /\ host \in Hosts /\ address \in Addresses /\ account \in BOOLEAN
  /\ target \in [Requests -> Hosts \cup {"none"}]
  /\ provisioned \in BOOLEAN /\ revoked \subseteq Hosts
  /\ torn \in BOOLEAN /\ unrecorded \in BOOLEAN
  /\ restarts \in 0..MaxRestarts /\ asked \in 0..MaxRequests

LEMMA OwnLineType == NodeTypeOK => OwnLine(host) \in OwnLines
  BY DEF OwnLine, OwnLines, Keys, NodeTypeOK

LEMMA KeysActions ==
  ASSUME NodeTypeOK, EditorsInv, [Next]_vars
  PROVE  KeysStep
<1>0. Starter \in Editors /\ Requests \subseteq Editors
  BY NodeAssumption
<1>1. CASE Start
  <2>1. CASE InstallTrust
    <3>1. phase = "trust" /\ at[Starter] = "idle" /\ Install(Starter, OwnLine(host))
      BY <2>1 DEF InstallTrust, Ready, Install, Begin
    <3>2. \A e \in Editors : at[e] = "idle"
      BY <3>1, NodeAssumption DEF EditorsInv, Editing
    <3>3. Quiet
      BY <3>2 DEF Quiet, UnderWay, Busy, Writing
    <3>. QED  BY <3>1, <3>3, OwnLineType DEF KeysStep
  <2>2. CASE EditTrust \/ TrustInstalled
    BY <1>0, <2>2 DEF EditTrust, TrustInstalled, KeysStep
  <2>3. CASE Boot \/ CreateFile \/ WriteFile \/ FileFails \/ CertificateRead
             \/ SecretRead \/ PairRead \/ RecordHostKeys \/ HostKeysWritten
    <3>1. UNCHANGED keyVars
      BY <2>3 DEF Boot, CreateFile, WriteFile, FileFails, CertificateRead, SecretRead,
                  PairRead, RecordHostKeys, HostKeysWritten
    <3>. QED  BY <3>1 DEF KeysStep
  <2>. QED  BY <1>1, <2>1, <2>2, <2>3 DEF Start
<1>2. ASSUME NEW r \in Requests, Serve(r) PROVE KeysStep
  <2>1. CASE EditRevoke(r) \/ RevokeAnswers(r)
    BY <1>0, <2>1 DEF EditRevoke, RevokeAnswers, KeysStep
  <2>2. ASSUME NEW h \in Hosts, Revoke(r, h) PROVE KeysStep
    BY <2>2 DEF Revoke, KeysStep
  <2>3. ASSUME ~(EditRevoke(r) \/ RevokeAnswers(r)), \A h \in Hosts : ~Revoke(r, h)
        PROVE  KeysStep
    <3>1. UNCHANGED keyVars
      BY <1>2, <2>3 DEF Serve, Ask, Authenticate, Relations, RevokeMissing
    <3>. QED  BY <3>1 DEF KeysStep
  <2>. QED  BY <2>1, <2>2, <2>3
<1>3. CASE \E id \in Ids : Tick(id)
  BY <1>3 DEF Tick, KeysStep
<1>4. CASE \E l \in SiteLines : SiteEdits(l)
  BY <1>4 DEF SiteEdits, KeysStep
<1>5. CASE Die
  BY <1>5 DEF Die, KeysStep
<1>6. CASE UNCHANGED vars
  BY <1>6 DEF vars, KeysStep
<1>. QED  BY <1>1, <1>2, <1>3, <1>4, <1>5, <1>6 DEF Next

LEMMA SessionActions ==
  ASSUME [Next]_vars
  PROVE  SessionStep
<1>1. CASE Start
  <2>1. UNCHANGED sessionVars
    BY <1>1 DEF Start, Boot, CreateFile, WriteFile, FileFails, CertificateRead,
                SecretRead, PairRead, InstallTrust, EditTrust, TrustInstalled, Ready,
                RecordHostKeys, HostKeysWritten
  <2>. QED  BY <2>1 DEF SessionStep
<1>2. ASSUME NEW r \in Requests, Serve(r) PROVE SessionStep
  <2>1. CASE EditRevoke(r) \/ \E h \in Hosts : Revoke(r, h)
    <3>1. UNCHANGED sessionVars
      BY <2>1 DEF EditRevoke, Revoke
    <3>. QED  BY <3>1 DEF SessionStep
  <2>2. CASE RevokeAnswers(r) \/ Relations(r) \/ RevokeMissing(r)
    <3>1. Answer(r) /\ UNCHANGED <<table, expired, drawn>>
      BY <2>2 DEF RevokeAnswers, Relations, RevokeMissing, Reply
    <3>. QED  BY <3>1 DEF SessionStep
  <2>3. CASE Authenticate(r)
    BY <2>3 DEF Authenticate, SessionStep
  <2>4. CASE \E op \in Operations, cookie \in drawn \cup {NoCookie}, token \in BOOLEAN :
               Ask(r, op, cookie, token)
    BY <2>4 DEF Ask, SessionStep
  <2>. QED  BY <1>2, <2>1, <2>2, <2>3, <2>4 DEF Serve
<1>3. CASE \E id \in Ids : Tick(id)
  BY <1>3 DEF Tick, SessionStep
<1>4. CASE \E l \in SiteLines : SiteEdits(l)
  BY <1>4 DEF SiteEdits, SessionStep
<1>5. CASE Die
  BY <1>5 DEF Die, SessionStep
<1>6. CASE UNCHANGED vars
  BY <1>6 DEF vars, SessionStep
<1>. QED  BY <1>1, <1>2, <1>3, <1>4, <1>5, <1>6 DEF Next

LEMMA KeysStepTypes ==
  ASSUME KeysTypeOK, KeysStep
  PROVE  KeysTypeOK'
<1>1. Starter \in Editors /\ Requests \subseteq Editors
  BY NodeAssumption
<1>. QED  BY <1>1, EditStepTypes, OtherKeyTypes, InstallTypes, RemoveTypes DEF KeysStep

LEMMA SessionStepTypes ==
  ASSUME SessionsTypeOK, SessionStep
  PROVE  SessionsTypeOK'
  BY RequestStepTypes, OtherSessionTypes DEF SessionStep

LEMMA DueType ==
  /\ \A p : Due(p) \in Seq(Files)
  /\ Due("down") = <<>>
<1>1. "tls_key" \in Files /\ "tls_cert" \in Files /\ "secret" \in Files
      /\ "private" \in Files /\ "public" \in Files
  BY DEF Files
<1>2. /\ <<"tls_key", "tls_cert">> \in Seq(Files) /\ <<"secret">> \in Seq(Files)
      /\ <<"private", "public">> \in Seq(Files) /\ <<>> \in Seq(Files)
  BY <1>1
<1>3. ASSUME NEW p PROVE Due(p) \in {<<"tls_key", "tls_cert">>, <<"secret">>,
                                     <<"private", "public">>, <<>>}
  BY DEF Due
<1>4. Due("down") = <<>>
  BY DEF Due
<1>. QED  BY <1>2, <1>3, <1>4

\* Which relation a request removes is known as long as it edits, so that
\* what is called revoked is the name of a machine.
LEMMA NodeStepTypes ==
  ASSUME NodeTypeOK, EditorsInv, [Next]_vars
  PROVE  NodeTypeOK'
<1> USE DEF Phases
<1>1. CASE Start
  <2>0. <<host, address>> \in Names
    BY DEF NodeTypeOK, Names
  <2>1. CASE Boot
    BY <2>1, DueType DEF Boot, Enter, NodeTypeOK, machineVars
  <2>2. CASE CreateFile
    BY <2>2 DEF CreateFile, NodeTypeOK, machineVars, historyVars
  <2>3. CASE WriteFile
    <3>1. Tail(todo) \in Seq(Files)
      BY <2>3 DEF WriteFile, NodeTypeOK
    <3>. QED  BY <2>3, <3>1 DEF WriteFile, NodeTypeOK, machineVars, historyVars
  <2>4. CASE FileFails
    BY <2>4, DueType DEF FileFails, Enter, NodeTypeOK, machineVars
  <2>5. CASE CertificateRead
    BY <2>5, DueType DEF CertificateRead, Ready, Enter, NodeTypeOK, machineVars, historyVars
  <2>6. CASE SecretRead
    BY <2>6, DueType DEF SecretRead, Ready, Enter, NodeTypeOK, machineVars, historyVars
  <2>7. CASE PairRead
    BY <2>7, DueType DEF PairRead, Ready, Enter, NodeTypeOK, machineVars, historyVars
  <2>8. CASE InstallTrust
    BY <2>8 DEF InstallTrust, Ready, NodeTypeOK, machineVars, historyVars
  <2>9. CASE EditTrust
    BY <2>9 DEF EditTrust, Ready, NodeTypeOK, machineVars
  <2>10. CASE TrustInstalled
    BY <2>10, DueType DEF TrustInstalled, Ready, Enter, NodeTypeOK, machineVars
  <2>11. CASE RecordHostKeys
    BY <2>0, <2>11, DueType DEF RecordHostKeys, Enter, NodeTypeOK, machineVars
  <2>12. CASE HostKeysWritten
    BY <2>0, <2>12, DueType DEF HostKeysWritten, Enter, NodeTypeOK, machineVars
  <2>. QED  BY <1>1, <2>1, <2>2, <2>3, <2>4, <2>5, <2>6, <2>7, <2>8, <2>9, <2>10, <2>11,
               <2>12 DEF Start
<1>2. ASSUME NEW r \in Requests, Serve(r) PROVE NodeTypeOK'
  <2> USE DEF Serving, startVars, machineVars
  <2>1. ASSUME NEW op \in Operations, NEW cookie \in drawn \cup {NoCookie},
               NEW token \in BOOLEAN, Ask(r, op, cookie, token)
        PROVE  NodeTypeOK'
    <3>1. asked' \in 0..MaxRequests
      BY <2>1, NodeAssumption DEF Ask, NodeTypeOK
    <3>. QED  BY <2>1, <3>1 DEF Ask, NodeTypeOK
  <2>2. ASSUME NEW h \in Hosts, Revoke(r, h) PROVE NodeTypeOK'
    BY <2>2 DEF Revoke, NodeTypeOK
  <2>3. CASE Authenticate(r)
    BY <2>3 DEF Authenticate, NodeTypeOK
  <2>4. CASE Relations(r) \/ RevokeMissing(r)
    BY <2>4 DEF Relations, RevokeMissing, Reply, NodeTypeOK
  <2>5. CASE EditRevoke(r)
    <3>1. at[r] # "idle"
      BY <2>5 DEF EditRevoke, EditStep, Open, OpenFails, Write, WriteFails, Own,
                  Replace, Unlink
    <3>2. target[r] \in Hosts
      BY <3>1 DEF EditorsInv, Editing
    <3>. QED  BY <2>5, <3>2 DEF EditRevoke, NodeTypeOK
  <2>6. CASE RevokeAnswers(r)
    BY <2>6 DEF RevokeAnswers, Reply, NodeTypeOK
  <2>. QED  BY <1>2, <2>1, <2>2, <2>3, <2>4, <2>5, <2>6 DEF Serve
<1>3. CASE \E id \in Ids : Tick(id)
  BY <1>3 DEF Tick, Serving, startVars, machineVars, NodeTypeOK
<1>4. CASE \E l \in SiteLines : SiteEdits(l)
  BY <1>4 DEF SiteEdits, startVars, machineVars, historyVars, NodeTypeOK
<1>5. CASE Die
  <2>1. restarts' \in 0..MaxRestarts
    BY <1>5, NodeAssumption DEF Die, NodeTypeOK
  <2>2. torn' \in BOOLEAN
    BY <1>5 DEF Die, NodeTypeOK
  <2>3. <<>> \in Seq(Files)
    OBVIOUS
  <2>4. todo' \in Seq(Files) /\ target' \in [Requests -> Hosts \cup {"none"}]
    BY <1>5, <2>3 DEF Die
  <2>. QED  BY <1>5, <2>1, <2>2, <2>4 DEF Die, NodeTypeOK
<1>6. CASE UNCHANGED vars
  BY <1>6 DEF vars, startVars, machineVars, historyVars, NodeTypeOK
<1>. QED  BY <1>1, <1>2, <1>3, <1>4, <1>5, <1>6 DEF Next

-----------------------------------------------------------------------------
(* The start.                                                              *)

\* HostKeysCurrent needs no help: whatever makes the service answer has just
\* looked at the host keys, and nothing renames a machine that answers.
LEMMA HostKeysStep ==
  ASSUME HostKeysCurrent, [Next]_vars
  PROVE  HostKeysCurrent'
<1>1. CASE Start
  <2>1. CASE Boot \/ FileFails \/ CertificateRead \/ SecretRead \/ PairRead \/ TrustInstalled
    <3>1. phase' # "up"
      BY <2>1 DEF Boot, FileFails, CertificateRead, SecretRead, PairRead, TrustInstalled, Enter
    <3>. QED  BY <3>1 DEF HostKeysCurrent
  <2>2. CASE CreateFile \/ WriteFile \/ InstallTrust \/ EditTrust
    <3>1. UNCHANGED <<phase, known, host, address, unrecorded>>
      BY <2>2 DEF CreateFile, WriteFile, InstallTrust, EditTrust, Ready, machineVars, historyVars
    <3>. QED  BY <3>1 DEF HostKeysCurrent
  <2>3. CASE RecordHostKeys \/ HostKeysWritten
    BY <2>3 DEF RecordHostKeys, HostKeysWritten, Enter, machineVars, HostKeysCurrent
  <2>. QED  BY <1>1, <2>1, <2>2, <2>3 DEF Start
<1>2. CASE Die
  BY <1>2 DEF Die, HostKeysCurrent
<1>3. ASSUME UNCHANGED <<phase, known, host, address, unrecorded>> PROVE HostKeysCurrent'
  BY <1>3 DEF HostKeysCurrent
<1>4. ASSUME NEW r \in Requests, Serve(r) PROVE HostKeysCurrent'
  BY <1>3, <1>4 DEF Serve, Ask, Revoke, Authenticate, Relations, RevokeMissing, EditRevoke,
                    RevokeAnswers, Serving, startVars, machineVars
<1>5. CASE (\E id \in Ids : Tick(id)) \/ (\E l \in SiteLines : SiteEdits(l)) \/ UNCHANGED vars
  BY <1>3, <1>5 DEF Tick, SiteEdits, Serving, startVars, machineVars, historyVars, vars
<1>. QED  BY <1>1, <1>2, <1>4, <1>5 DEF Next

\* The files while no making of one was interrupted.  An empty file is the one
\* being written, or a key of the certificate whose making a crash cut short:
\* that one is made again with the certificate.  A private half is without its
\* public one only while the pair is made.
FilesInv ==
  /\ phase = "certificate" => todo \in {<<"tls_key", "tls_cert">>, <<"tls_cert">>, <<>>}
  /\ phase = "secret" => todo \in {<<"secret">>, <<>>}
  /\ phase = "pair" => todo \in {<<"private", "public">>, <<"public">>, <<>>}
  /\ phase \notin {"certificate", "secret", "pair"} => todo = <<>>
  /\ ~torn =>
       /\ phase \notin {"exited", "stopped"}
       /\ \A f \in Files \ {"tls_key"} :
            file[f] = "empty" => todo # <<>> /\ creating /\ f = Head(todo)
       /\ Present("private") => \/ file["public"] = "full"
                                \/ todo = <<"public">>
                                \/ todo = <<"private", "public">> /\ creating
       /\ phase = "certificate" /\ todo = <<>> => file["tls_cert"] = "full"
       /\ phase = "secret" /\ todo = <<>> => file["secret"] = "full"
       /\ phase \in {"pair", "trust", "known_hosts", "up"} => file["secret"] = "full"
       /\ phase = "trust" => Present("public")

LEMMA FilesMeanServes ==
  ASSUME FilesInv
  PROVE  UntornNodeServes
  BY DEF FilesInv, UntornNodeServes, RelationsRaise

LEMMA FilesStep ==
  ASSUME NodeTypeOK, FilesInv, [Next]_vars
  PROVE  FilesInv'
<1> USE DEF Files
<1>0. /\ DOMAIN file = Files
      /\ \A f \in Files : file[f] \in {"absent", "empty", "full"}
  BY DEF NodeTypeOK
<1>1. CASE Start
  <2>1. CASE Boot
    <3>1. /\ phase = "down" /\ todo = <<>> /\ phase' = "certificate" /\ todo' = Due("certificate")
          /\ UNCHANGED <<file, creating, torn>>
      BY <2>1 DEF Boot, Enter, FilesInv
    <3>. QED  BY <1>0, <3>1 DEF FilesInv, Due, Present
  <2>2. CASE CreateFile
    <3>1. /\ todo # <<>> /\ ~creating /\ file' = [file EXCEPT ![Head(todo)] = "empty"]
          /\ creating' /\ UNCHANGED <<phase, todo, torn>>
      BY <2>2 DEF CreateFile, historyVars
    <3>2. CASE todo = <<"tls_key", "tls_cert">>
      BY <1>0, <3>1, <3>2 DEF FilesInv, Present
    <3>3. CASE todo = <<"tls_cert">>
      BY <1>0, <3>1, <3>3 DEF FilesInv, Present
    <3>4. CASE todo = <<"secret">>
      BY <1>0, <3>1, <3>4 DEF FilesInv, Present
    <3>5. CASE todo = <<"private", "public">>
      BY <1>0, <3>1, <3>5 DEF FilesInv, Present
    <3>6. CASE todo = <<"public">>
      BY <1>0, <3>1, <3>6 DEF FilesInv, Present
    <3>. QED  BY <3>1, <3>2, <3>3, <3>4, <3>5, <3>6 DEF FilesInv
  <2>3. CASE WriteFile
    <3>1. /\ todo # <<>> /\ creating /\ file' = [file EXCEPT ![Head(todo)] = "full"]
          /\ todo' = Tail(todo) /\ ~creating' /\ UNCHANGED <<phase, torn>>
      BY <2>3 DEF WriteFile, historyVars, NodeTypeOK
    <3>2. CASE todo = <<"tls_key", "tls_cert">>
      BY <1>0, <3>1, <3>2 DEF FilesInv, Present
    <3>3. CASE todo = <<"tls_cert">>
      BY <1>0, <3>1, <3>3 DEF FilesInv, Present
    <3>4. CASE todo = <<"secret">>
      BY <1>0, <3>1, <3>4 DEF FilesInv, Present
    <3>5. CASE todo = <<"private", "public">>
      BY <1>0, <3>1, <3>5 DEF FilesInv, Present
    <3>6. CASE todo = <<"public">>
      BY <1>0, <3>1, <3>6 DEF FilesInv, Present
    <3>. QED  BY <3>1, <3>2, <3>3, <3>4, <3>5, <3>6 DEF FilesInv
  <2>4. CASE FileFails
    BY <2>4 DEF FileFails, Enter, Due, FilesInv
  <2>5. CASE CertificateRead
    <3>1. /\ phase = "certificate" /\ todo = <<>> /\ UNCHANGED <<file, creating, torn>>
          /\ Enter(IF file["tls_cert"] = "full" THEN "secret" ELSE "exited")
      BY <2>5 DEF CertificateRead, Ready, historyVars
    <3>. QED  BY <1>0, <3>1 DEF FilesInv, Enter, Due, Present
  <2>6. CASE SecretRead
    <3>1. /\ phase = "secret" /\ todo = <<>> /\ UNCHANGED <<file, creating, torn>>
          /\ Enter("pair")
      BY <2>6 DEF SecretRead, Ready, historyVars
    <3>. QED  BY <1>0, <3>1 DEF FilesInv, Enter, Due, Present
  <2>7. CASE PairRead
    <3>1. /\ phase = "pair" /\ todo = <<>> /\ UNCHANGED <<file, creating, torn>>
          /\ Enter(IF Present("public") /\ account THEN "trust" ELSE "known_hosts")
      BY <2>7 DEF PairRead, Ready, historyVars
    <3>. QED  BY <1>0, <3>1 DEF FilesInv, Enter, Due, Present
  <2>8. CASE InstallTrust \/ EditTrust
    <3>1. UNCHANGED <<phase, todo, file, creating, torn>>
      BY <2>8 DEF InstallTrust, EditTrust, Ready, historyVars
    <3>. QED  BY <3>1 DEF FilesInv, Present
  <2>9. CASE TrustInstalled
    <3>1. /\ phase = "trust" /\ todo = <<>> /\ UNCHANGED <<file, creating, torn>>
          /\ \/ Enter("stopped") /\ file["public"] # "full"
             \/ Enter("known_hosts")
      BY <2>9 DEF TrustInstalled, Ready, historyVars
    <3>. QED  BY <1>0, <3>1 DEF FilesInv, Enter, Due, Present
  <2>10. CASE RecordHostKeys \/ HostKeysWritten
    <3>1. /\ phase = "known_hosts" /\ UNCHANGED <<file, torn>>
          /\ Enter("up") \/ UNCHANGED <<phase, todo>>
      BY <2>10 DEF RecordHostKeys, HostKeysWritten
    <3>. QED  BY <1>0, <3>1 DEF FilesInv, Enter, Due, Present
  <2>. QED  BY <1>1, <2>1, <2>2, <2>3, <2>4, <2>5, <2>6, <2>7, <2>8, <2>9, <2>10 DEF Start
<1>2. CASE Die
  <2>1. /\ phase' = "down" /\ todo' = <<>> /\ ~creating' /\ file' = file
        /\ torn' = (torn \/ Interrupted)
    BY <1>2 DEF Die
  <2>2. CASE todo = <<>>
    BY <1>0, <2>1, <2>2 DEF FilesInv, Present
  <2>3. CASE todo # <<>>
    <3>1. ~Interrupted => todo # <<"public">> /\ (creating => Head(todo) = "tls_key")
      BY <2>3 DEF Interrupted
    <3>2. creating /\ todo = <<"private", "public">> => Interrupted
      BY <2>3 DEF Interrupted
    <3>. QED  BY <1>0, <2>1, <2>3, <3>1, <3>2 DEF FilesInv, Present
  <2>. QED  BY <2>2, <2>3
<1>3. ASSUME UNCHANGED <<startVars, torn>> PROVE FilesInv'
  BY <1>3 DEF startVars, FilesInv, Present
<1>4. ASSUME NEW r \in Requests, Serve(r) PROVE FilesInv'
  BY <1>3, <1>4 DEF Serve, Ask, Revoke, Authenticate, Relations, RevokeMissing, EditRevoke,
                    RevokeAnswers, Serving
<1>5. CASE (\E id \in Ids : Tick(id)) \/ (\E l \in SiteLines : SiteEdits(l)) \/ UNCHANGED vars
  BY <1>3, <1>5 DEF Tick, SiteEdits, Serving, historyVars, vars
<1>. QED  BY <1>1, <1>2, <1>4, <1>5 DEF Next

-----------------------------------------------------------------------------
(* Who edits.                                                              *)

\* A step of one request leaves the others where they are.
LEMMA RequestStepAlone ==
  ASSUME SessionsTypeOK, NEW r \in Requests, RequestStep(r)
  PROVE  /\ \A q \in Requests \ {r} : stage'[q] = stage[q] /\ call'[q] = call[q]
         /\ call'[r] \in {call[r], NoCall}
<1> DEFINE Alone == /\ \A q \in Requests \ {r} : stage'[q] = stage[q] /\ call'[q] = call[q]
                    /\ call'[r] \in {call[r], NoCall}
<1> USE DEF SessionsTypeOK, Goto
<1>1. Answer(r) => Alone
  BY DEF Answer
<1>2. NotFound(r) => Alone
  BY <1>1 DEF NotFound
<1>3. ASSUME Found(r), stage[r] \in Lookups PROVE Alone
  <2>1. CASE stage[r] = "csrf"
    BY <1>1, <1>3, <2>1 DEF Found
  <2>2. CASE stage[r] = "role"
    BY <1>1, <1>3, <2>2 DEF Found
  <2>3. CASE stage[r] = "logout"
    BY <1>1, <1>3, <2>3 DEF Found
  <2>. QED  BY <1>3, <2>1, <2>2, <2>3 DEF Lookups
<1>4. CASE Lookup(r)
  BY <1>2, <1>3, <1>4 DEF Lookup
<1>5. CASE Drop(r)
  BY <1>2, <1>5 DEF Drop
<1>6. CASE LoginRefused(r) \/ LoginAnswers(r) \/ ErrorAnswered(r)
  BY <1>1, <1>6 DEF LoginRefused, LoginAnswers, ErrorAnswered
<1>7. CASE \E id \in Ids : LoginCreates(r, id) \/ Purge(r, id)
  BY <1>7 DEF LoginCreates, Purge
<1>. QED  BY <1>4, <1>5, <1>6, <1>7 DEF RequestStep

\* Only the start installs, only requests that were let in remove, and each
\* has left before the service goes on without it.
LEMMA EditorsStep ==
  ASSUME KeysTypeOK, SessionsTypeOK, NodeTypeOK, FilesInv, EditorsInv, [Next]_vars
  PROVE  EditorsInv'
<1>0. Starter \in Editors /\ Requests \subseteq Editors /\ Starter \notin Requests
  BY NodeAssumption
<1>1. ASSUME phase # "up" PROVE \A r \in Requests : at[r] = "idle"
  BY <1>1 DEF EditorsInv, Editing
<1>2. ASSUME phase = "up" PROVE at[Starter] = "idle"
  BY <1>2 DEF EditorsInv
<1>3. CASE Start
  <2>1. CASE InstallTrust \/ EditTrust
    <3>1. phase' = "trust" /\ phase = "trust"
      BY <2>1 DEF InstallTrust, EditTrust, Ready
    <3>2. \A r \in Requests : at'[r] = at[r]
      BY <1>0, <2>1 DEF InstallTrust, EditTrust, Install, Begin, Leave, EditStep, Open,
                  OpenFails, Write, WriteFails, Own, Replace, Unlink, KeysTypeOK
    <3>. QED  BY <1>1, <3>1, <3>2 DEF EditorsInv
  <2>2. CASE TrustInstalled
    <3>1. phase = "trust" /\ at' = [at EXCEPT ![Starter] = "idle"]
      BY <2>2 DEF TrustInstalled, Ready, Collect
    <3>. QED  BY <1>0, <1>1, <3>1 DEF EditorsInv, KeysTypeOK
  <2>3. CASE Boot \/ CreateFile \/ WriteFile \/ FileFails \/ CertificateRead
             \/ SecretRead \/ PairRead \/ RecordHostKeys \/ HostKeysWritten
    <3>1. at' = at
      BY <2>3 DEF Boot, CreateFile, WriteFile, FileFails, CertificateRead, SecretRead,
                  PairRead, RecordHostKeys, HostKeysWritten, keyVars, editVars
    <3>2. UNCHANGED <<stage, call, target, account>>
      BY <2>3 DEF Boot, CreateFile, WriteFile, FileFails, CertificateRead, SecretRead,
                  PairRead, Ready, RecordHostKeys, HostKeysWritten, sessionVars,
                  machineVars, historyVars
    <3>3. phase \notin {"trust", "up"}
      BY <2>3 DEF FilesInv, Boot, CreateFile, WriteFile, FileFails, CertificateRead,
                  SecretRead, PairRead, Ready, RecordHostKeys, HostKeysWritten
    <3>. QED  BY <1>1, <3>1, <3>2, <3>3 DEF EditorsInv, Editing
  <2>. QED  BY <1>3, <2>1, <2>2, <2>3 DEF Start
<1>4. ASSUME NEW r \in Requests, Serve(r) PROVE EditorsInv'
  <2> USE DEF Serving, startVars, machineVars
  <2>1. /\ phase = "up" /\ phase' = "up" /\ at[Starter] = "idle"
        /\ account' = account
    BY <1>2, <1>4 DEF Serve, Ask, Authenticate, Relations, RevokeMissing, Revoke,
                      EditRevoke, RevokeAnswers
  <2>2. ASSUME NEW h \in Hosts, Revoke(r, h) PROVE EditorsInv'
    <3>1. stage[r] = "handler" /\ call[r].op = "revoke" /\ account
          /\ target' = [target EXCEPT ![r] = h]
          /\ stage' = stage /\ call' = call
      BY <2>2 DEF Revoke, sessionVars
    <3>2. \A e \in Editors \ {r} : at'[e] = at[e]
      BY <1>0, <2>2 DEF Revoke, Remove, Begin, Leave, KeysTypeOK
    <3>. QED  BY <1>0, <2>1, <3>1, <3>2 DEF EditorsInv, Editing, NodeTypeOK
  <2>3. CASE EditRevoke(r)
    <3>1. at[r] # "idle" /\ UNCHANGED <<stage, call, target>>
      BY <2>3 DEF EditRevoke, EditStep, Open, OpenFails, Write, WriteFails, Own,
                  Replace, Unlink, sessionVars
    <3>2. \A e \in Editors \ {r} : at'[e] = at[e]
      BY <1>0, <2>3 DEF EditRevoke, EditStep, Leave, Open,
                  OpenFails, Write, WriteFails, Own, Replace, Unlink, KeysTypeOK
    <3>. QED  BY <1>0, <2>1, <3>1, <3>2 DEF EditorsInv, Editing
  <2>4. CASE RevokeAnswers(r)
    <3>1. at' = [at EXCEPT ![r] = "idle"]
      BY <2>4 DEF RevokeAnswers, Collect
    <3>2. \A q \in Requests \ {r} : stage'[q] = stage[q] /\ call'[q] = call[q]
                                     /\ target'[q] = target[q]
      BY <2>4 DEF RevokeAnswers, Reply, Answer, Goto, SessionsTypeOK, NodeTypeOK
    <3>. QED  BY <1>0, <2>1, <3>1, <3>2 DEF EditorsInv, Editing, KeysTypeOK
  <2>5. CASE Authenticate(r) \/ Relations(r) \/ RevokeMissing(r)
             \/ \E op \in Operations, cookie \in drawn \cup {NoCookie}, token \in BOOLEAN :
                  Ask(r, op, cookie, token)
    <3>1. at' = at
      BY <2>5 DEF Authenticate, Relations, RevokeMissing, Ask, keyVars, editVars
    <3>2. at[r] = "idle"
      BY <2>5 DEF EditorsInv, Editing, Authenticate, RequestStep, Lookup, Drop, LoginRefused,
                  LoginAnswers, ErrorAnswered, LoginCreates, Purge, Lookups, Drops, Relations,
                  RevokeMissing, Ask, Send
    <3>3. \A q \in Requests \ {r} : /\ stage'[q] = stage[q] /\ call'[q] = call[q]
                                    /\ target'[q] = target[q]
      <4> USE DEF Goto, Answer, SessionsTypeOK, NodeTypeOK
      <4>1. CASE Authenticate(r)
        BY <4>1, RequestStepAlone DEF Authenticate
      <4>2. CASE Relations(r) \/ RevokeMissing(r)
        BY <4>2 DEF Relations, RevokeMissing, Reply
      <4>3. CASE \E op \in Operations, cookie \in drawn \cup {NoCookie}, token \in BOOLEAN :
                   Ask(r, op, cookie, token)
        BY <4>3 DEF Ask, Send
      <4>. QED  BY <2>5, <4>1, <4>2, <4>3
    <3>. QED  BY <1>0, <2>1, <3>1, <3>2, <3>3 DEF EditorsInv, Editing
  <2>. QED  BY <1>4, <2>2, <2>3, <2>4, <2>5 DEF Serve
<1>5. CASE \E id \in Ids : Tick(id)
  BY <1>5 DEF Tick, Serving, startVars, machineVars, Expire, EditorsInv, Editing,
              keyVars, editVars
<1>6. CASE \E l \in SiteLines : SiteEdits(l)
  BY <1>6 DEF SiteEdits, SiteAppends, startVars, machineVars, editVars, sessionVars,
              EditorsInv, Editing
<1>7. CASE Die
  BY <1>0, <1>7 DEF Die, KeysCrash, EditorsInv
<1>8. CASE UNCHANGED vars
  BY <1>8 DEF vars, keyVars, editVars, sessionVars, startVars, machineVars, EditorsInv,
              Editing
<1>. QED  BY <1>3, <1>4, <1>5, <1>6, <1>7, <1>8 DEF Next

-----------------------------------------------------------------------------
(* The sessions.                                                           *)

\* Where a request is tells what was found out about it.  The third part is
\* why the middleware may let a request pass that carries a cookie without a
\* session: the identifier is never in the table again.
Told(r) ==
  /\ call[r].cookie \in drawn \cup {NoCookie}
  /\ stage[r] \in Drops => call[r].cookie \in expired
  /\ stage[r] \in {"role", "role_drop"} /\ call[r].op = "revoke" /\ ~call[r].token
       => call[r].cookie \notin table
  /\ stage[r] = "handler" /\ call[r].op = "revoke"
       => call[r].token /\ call[r].cookie \in Admins
  /\ stage[r] \in {"login", "purge"} => call[r].op = "login"
  /\ stage[r] = "key_error" => call[r].op = "login" \/ call[r].cookie \in expired

SessionInv == \A r \in Requests : Told(r)

\* A request of which nothing moved keeps what was found out, as long as no
\* identifier that was drawn comes back into the table.
LEMMA ToldKept ==
  ASSUME SessionsTypeOK, NEW q \in Requests, Told(q),
         stage'[q] = stage[q], call'[q] = call[q],
         drawn \subseteq drawn', expired \subseteq expired', table' \cap drawn \subseteq table,
         table' \subseteq Ids
  PROVE  Told(q)'
<1>1. call[q].cookie \notin table /\ call[q].cookie \in drawn \cup {NoCookie}
        => call[q].cookie \notin table'
  BY SessionsAssumption
<1>. QED  BY <1>1 DEF Told

LEMMA SessionStepKeeps ==
  ASSUME SessionsTypeOK, SessionsTypeOK', SessionInv, SessionStep
  PROVE  SessionInv'
<1>1. ASSUME NEW r \in Requests, RequestStep(r) PROVE SessionInv'
  <2>0. Told(r) /\ stage \in [Requests -> Stages] /\ call \in [Requests -> Calls]
    BY DEF SessionInv, SessionsTypeOK
  <2>1. /\ drawn \subseteq drawn' /\ expired' = expired
        /\ table' \cap drawn \subseteq table /\ table' \subseteq Ids
    <3> USE DEF SessionsTypeOK
    <3>1. CASE \E id \in Ids : LoginCreates(r, id) \/ Purge(r, id)
      BY <3>1 DEF LoginCreates, Purge
    <3>2. CASE LoginRefused(r) \/ LoginAnswers(r) \/ ErrorAnswered(r)
      BY <3>2 DEF LoginRefused, LoginAnswers, ErrorAnswered
    <3>3. CASE Drop(r)
      BY <3>3 DEF Drop
    <3>4. CASE Lookup(r)
      BY <3>4 DEF Lookup, Found, Lookups
    <3>. QED  BY <1>1, <3>1, <3>2, <3>3, <3>4 DEF RequestStep
  <2>2. \A q \in Requests \ {r} : Told(q)'
    BY <1>1, <2>1, RequestStepAlone, ToldKept DEF SessionInv
  <2> DEFINE Gone  == stage'[r] = "idle" /\ call'[r] = NoCall
             Moved(s) == stage'[r] = s /\ call'[r] = call[r]
  <2>3. Answer(r) => Gone
    BY <2>0 DEF Answer, Goto
  <2>4. \A s : Goto(r, s) /\ call' = call => Moved(s)
    BY <2>0 DEF Goto
  <2>5. Gone => Told(r)'
    BY DEF Told, NoCall, Drops
  <2>6. ASSUME stage[r] \in {"csrf", "csrf_drop"}, Moved(Route(call[r].op)),
               call[r].token \/ call[r].cookie \notin table'
        PROVE  Told(r)'
    <3>1. call[r].cookie \in drawn' \cup {NoCookie}
      BY <2>0, <2>1 DEF Told
    <3>. QED  BY <2>6, <3>1 DEF Told, Route, Drops
  <2>7. ASSUME NotFound(r), call[r].cookie \notin table' PROVE Told(r)'
    <3>1. CASE stage[r] \in {"csrf", "csrf_drop"}
      <4>1. Moved(Route(call[r].op))
        BY <2>4, <2>7, <3>1 DEF NotFound
      <4>. QED  BY <2>6, <2>7, <3>1, <4>1
    <3>2. CASE stage[r] \notin {"csrf", "csrf_drop"}
      BY <2>3, <2>5, <2>7, <3>2 DEF NotFound
    <3>. QED  BY <3>1, <3>2
  <2>8. ASSUME Lookup(r) /\ call[r].cookie \notin table PROVE Told(r)'
    <3>1. NotFound(r) /\ table' = table
      BY <2>8 DEF Lookup
    <3>. QED  BY <2>7, <2>8, <3>1
  <2>9. ASSUME Lookup(r) /\ call[r].cookie \in table /\ call[r].cookie \notin expired
        PROVE  Told(r)'
    <3>1. Found(r) /\ stage[r] \in {"csrf", "role", "logout"}
      BY <2>9 DEF Lookup, Lookups
    <3>2. CASE stage[r] = "csrf"
      <4>1. CASE call[r].token
        <5>1. Moved(Route(call[r].op))
          BY <2>4, <3>1, <3>2, <4>1 DEF Found
        <5>. QED  BY <2>6, <3>2, <4>1, <5>1
      <4>2. CASE ~call[r].token
        BY <2>3, <2>5, <3>1, <3>2, <4>2 DEF Found
      <4>. QED  BY <4>1, <4>2
    <3>3. CASE stage[r] = "role" /\ (call[r].op = "relations" \/ call[r].cookie \in Admins)
      <4>1. Moved("handler")
        BY <2>4, <3>1, <3>3 DEF Found
      <4>2. call[r].op = "revoke" => call[r].token /\ call[r].cookie \in Admins
        BY <2>0, <2>9, <3>3 DEF Told
      <4>3. call[r].cookie \in drawn' \cup {NoCookie}
        BY <2>0, <2>1 DEF Told
      <4>. QED  BY <4>1, <4>2, <4>3 DEF Told, Drops
    <3>4. CASE stage[r] = "role" /\ ~(call[r].op = "relations" \/ call[r].cookie \in Admins)
      BY <2>3, <2>5, <3>1, <3>4 DEF Found
    <3>5. CASE stage[r] = "logout"
      BY <2>3, <2>5, <3>1, <3>5 DEF Found
    <3>. QED  BY <3>1, <3>2, <3>3, <3>4, <3>5
  <2>10. ASSUME Lookup(r) /\ call[r].cookie \in table /\ call[r].cookie \in expired
         PROVE  Told(r)'
    <3>1. /\ stage[r] \in {"csrf", "role", "logout"} /\ table' = table
          /\ \/ stage[r] = "csrf" /\ Moved("csrf_drop")
             \/ stage[r] = "role" /\ Moved("role_drop")
             \/ stage[r] = "logout" /\ Moved("logout_drop")
      <4>1. /\ stage[r] \in {"csrf", "role", "logout"} /\ call' = call /\ table' = table
            /\ Goto(r, CASE stage[r] = "csrf" -> "csrf_drop"
                         [] stage[r] = "role" -> "role_drop"
                         [] stage[r] = "logout" -> "logout_drop")
        BY <2>10 DEF Lookup, Lookups
      <4>. QED  BY <2>4, <4>1
    <3>2. call[r].cookie \in drawn' \cup {NoCookie}
      BY <2>0, <2>1 DEF Told
    <3>3. call[r].op = "revoke" /\ ~call[r].token => stage[r] # "role"
      BY <2>0, <2>10 DEF Told
    <3>. QED  BY <2>1, <2>10, <3>1, <3>2, <3>3 DEF Told, Drops
  <2>11. ASSUME Drop(r) /\ call[r].cookie \in table PROVE Told(r)'
    <3>1. NotFound(r) /\ table' = table \ {call[r].cookie}
      BY <2>11 DEF Drop
    <3>. QED  BY <2>7, <3>1
  <2>12. ASSUME call[r].cookie \in drawn' \cup {NoCookie}, Moved("key_error"),
                call[r].op = "login" \/ call[r].cookie \in expired'
         PROVE  Told(r)'
    BY <2>12 DEF Told, Drops
  <2>13. ASSUME Drop(r) /\ call[r].cookie \notin table PROVE Told(r)'
    <3>1. Moved("key_error") /\ stage[r] \in Drops
      BY <2>4, <2>13 DEF Drop
    <3>2. call[r].cookie \in expired /\ call[r].cookie \in drawn' \cup {NoCookie}
      BY <2>0, <2>1, <3>1 DEF Told
    <3>. QED  BY <2>1, <2>12, <3>1, <3>2
  <2>14. ASSUME LoginRefused(r) \/ LoginAnswers(r) \/ ErrorAnswered(r) PROVE Told(r)'
    BY <2>3, <2>5, <2>14 DEF LoginRefused, LoginAnswers, ErrorAnswered
  <2>15. ASSUME \E id \in Ids : LoginCreates(r, id) \/ Purge(r, id) PROVE Told(r)'
    <3>1. /\ stage[r] \in {"login", "purge"}
          /\ Moved("purge") \/ Moved("key_error") \/ (stage[r] = "purge" /\ Moved(stage[r]))
      BY <2>4, <2>15 DEF LoginCreates, Purge
    <3>2. call[r].op = "login" /\ call[r].cookie \in drawn' \cup {NoCookie}
      BY <2>0, <2>1, <3>1 DEF Told
    <3>. QED  BY <3>1, <3>2 DEF Told, Drops
  <2>. QED  BY <1>1, <2>2, <2>8, <2>9, <2>10, <2>11, <2>13, <2>14, <2>15
            DEF SessionInv, RequestStep
<1>2. ASSUME NEW r \in Requests, NEW op \in Operations, NEW cookie \in drawn \cup {NoCookie},
             NEW token \in BOOLEAN, Send(r, op, cookie, token)
      PROVE  SessionInv'
  <2>1. /\ UNCHANGED <<table, expired, drawn>>
        /\ \A q \in Requests \ {r} : stage'[q] = stage[q] /\ call'[q] = call[q]
        /\ call'[r] = [op |-> op, cookie |-> cookie, token |-> token]
        /\ stage'[r] \in {"csrf", Route(op)}
        /\ stage'[r] = "csrf" \/ op \notin Unsafe \/ cookie = NoCookie
    BY <1>2 DEF Send, Goto, SessionsTypeOK
  <2>2. cookie = NoCookie => cookie \notin table
    BY SessionsAssumption DEF SessionsTypeOK
  <2>3. Told(r)'
    BY <2>1, <2>2 DEF Told, Route, Unsafe, Drops
  <2>. QED  BY <2>1, <2>3, ToldKept DEF SessionInv, SessionsTypeOK
<1>3. ASSUME NEW r \in Requests, Answer(r), UNCHANGED <<table, expired, drawn>>
      PROVE  SessionInv'
  <2>1. Told(r)'
    BY <1>3 DEF Answer, Goto, Told, NoCall, Drops, SessionsTypeOK
  <2>2. \A q \in Requests \ {r} : stage'[q] = stage[q] /\ call'[q] = call[q]
    BY <1>3 DEF Answer, Goto, SessionsTypeOK
  <2>. QED  BY <1>3, <2>1, <2>2, ToldKept DEF SessionInv, SessionsTypeOK
<1>4. CASE (\E id \in Ids : Expire(id)) \/ UNCHANGED sessionVars
  BY <1>4, ToldKept DEF Expire, sessionVars, SessionInv, SessionsTypeOK
<1>5. CASE SessionsCrash
  BY <1>5 DEF SessionsCrash, SessionInv, Told, NoCall, Drops
<1>. QED  BY <1>1, <1>2, <1>3, <1>4, <1>5 DEF SessionStep

-----------------------------------------------------------------------------
(* The edits.                                                              *)

\* What every edit under way has read: all the site put in, but the lines it
\* appended since the first of them read.
Read == site \ missed

\* An inode holds those lines, or was emptied by an editor that is going to
\* write them, and has been appended to at most.
Sound(i) ==
  \/ Read \subseteq data[i]
  \/ data[i] \subseteq missed /\ \E e \in Editors : at[e] = "opened" /\ handle[e] = i

\* Why the lines of the site survive.  What is named authorized_keys never is
\* the temporary file; an edit alone writes the file its handle and the name
\* of the temporary file both lead to, and what it planned holds the lines it
\* read; edits that overlap may only move an inode that some of them writes, and
\* each of them writes all the lines they all have read.
KeptInv ==
  /\ authorized = NoInode => site = {}
  /\ temporary # NoInode => temporary # authorized
  /\ \A e \in Editors : at[e] \in Writing => handle[e] \in Inodes
  /\ \A e, f \in Editors : ~shared /\ UnderWay(e) /\ UnderWay(f) => e = f
  /\ \A e \in Editors : ~shared /\ at[e] \in Writing => temporary = handle[e]
  /\ Quiet => missed = {}
  /\ ~harmed =>
       /\ ~shared => missed \subseteq Content
       /\ authorized # NoInode => Sound(authorized)
       /\ \A e \in Editors : Behind(e) => Read \subseteq plan[e]
       /\ temporary # NoInode /\ (\E e \in Editors : at[e] \in Writing) => Sound(temporary)

LEMMA KeptMeansKept ==
  ASSUME KeysTypeOK, KeptInv
  PROVE  SiteLinesKept
<1>1. SUFFICES ASSUME ~harmed, ~shared \/ Quiet, authorized # NoInode
               PROVE  site \subseteq Content
  BY DEF SiteLinesKept, Content, KeptInv
<1>2. Sound(authorized) /\ Content = data[authorized]
  BY <1>1 DEF KeptInv, Content
<1>3. ASSUME NEW e \in Editors, at[e] = "opened", handle[e] = authorized PROVE FALSE
  BY <1>1, <1>3 DEF KeptInv, Quiet, UnderWay, Busy, Writing
<1>4. Read \subseteq Content
  BY <1>2, <1>3 DEF Sound
<1>5. missed \subseteq Content
  BY <1>1 DEF KeptInv
<1>. QED  BY <1>4, <1>5 DEF Read

LEMMA BeginKept ==
  ASSUME KeysTypeOK, KeptInv, NEW e \in Editors, NEW lines, NEW needed \in BOOLEAN,
         Begin(e, lines, needed), needed /\ ~harmed => Read \subseteq lines
  PROVE  KeptInv'
<1> USE DEF KeysTypeOK, UnderWay, Busy, Writing, Behind
<1>1. at[e] = "idle" /\ UNCHANGED <<data, authorized, temporary, site, missed, harmed>>
  BY DEF Begin, fileVars, siteVars
<1>2. \A f \in Editors \ {e} : at'[f] = at[f] /\ handle'[f] = handle[f] /\ plan'[f] = plan[f]
  BY DEF Begin, Leave
<1>3. \A i : Sound(i) => Sound(i)'
  BY <1>1, <1>2 DEF Sound, Read
<1>4. \/ at'[e] = "planned" /\ plan'[e] = lines /\ needed /\ shared' = (shared \/ Others(e))
      \/ at'[e] = "unchanged" /\ shared' = (shared /\ Others(e))
  BY DEF Begin, Leave
<1>5. \A f \in Editors \ {e} : UnderWay(f) => Others(e)
  BY DEF Others
<1>6. /\ \A f, g \in Editors : ~shared' /\ UnderWay(f)' /\ UnderWay(g)' => f = g
      /\ \A f \in Editors : ~shared' /\ at'[f] \in Writing => temporary' = handle'[f]
  BY <1>1, <1>2, <1>4, <1>5 DEF KeptInv
<1>7. ~harmed => \A f \in Editors : Behind(f)' => Read' \subseteq plan'[f]
  BY <1>1, <1>2, <1>4 DEF KeptInv, Read
<1>8. \A f \in Editors : at'[f] \in Writing => at[f] \in Writing /\ handle'[f] = handle[f]
  BY <1>2, <1>4
<1>9. Quiet => missed = {}
  BY DEF KeptInv
<1>10. Quiet' => Quiet
  BY <1>1, <1>2 DEF Quiet
<1>11. ~shared' => ~shared \/ Quiet
  BY <1>1, <1>4, <1>5 DEF Quiet
<1>12. Content' = Content
  BY <1>1 DEF Content
<1>13. ~harmed /\ ~shared' => missed \subseteq Content
  BY <1>9, <1>11 DEF KeptInv
<1>. QED  BY <1>1, <1>3, <1>6, <1>7, <1>8, <1>9, <1>10, <1>12, <1>13 DEF KeptInv

\* An installation begins when no edit is under way, and so reads every line
\* of the site; a removal may read an emptied file, which it leaves alone.
LEMMA BeginnersKept ==
  ASSUME KeysTypeOK, KeptInv,
         \/ Quiet /\ \E line \in OwnLines : Install(Starter, line)
         \/ \E r \in Requests, h \in Hosts : Remove(r, h)
  PROVE  KeptInv'
<1>0. /\ \A l \in SiteLines : l \notin OwnLines
      /\ site \subseteq SiteLines /\ missed \subseteq SiteLines /\ Read \subseteq SiteLines
      /\ Starter \in Editors /\ Requests \subseteq Editors
  BY NodeAssumption, AuthorizedKeysAssumption DEF KeysTypeOK, Read
<1>1. ASSUME NEW line \in OwnLines, Quiet, Install(Starter, line) PROVE KeptInv'
  <2>1. ~harmed => Read \subseteq Content
    BY <1>1, KeptMeansKept DEF SiteLinesKept, Read
  <2>2. Read \subseteq Content => Read \subseteq Installed(Content, line)
    BY <1>0 DEF Installed
  <2>3. PICK needed \in BOOLEAN : Begin(Starter, Installed(Content, line), needed)
    BY <1>1 DEF Install
  <2>. QED  BY <1>0, <2>1, <2>2, <2>3, BeginKept
<1>2. ASSUME NEW r \in Requests, NEW h \in Hosts, Remove(r, h) PROVE KeptInv'
  <2> DEFINE lines == Removed(Content, h)
             needed == lines # Content
  <2>1. Begin(r, lines, needed) /\ r \in Editors /\ needed \in BOOLEAN
    BY <1>0, <1>2 DEF Remove
  <2>2. ASSUME needed, ~harmed PROVE Read \subseteq lines
    <3>1. PICK l \in Content : l \in OwnLines
      BY <2>2 DEF Removed
    <3>2. authorized # NoInode /\ Content = data[authorized]
      BY <3>1 DEF Content
    <3>3. Read \subseteq Content
      BY <1>0, <2>2, <3>1, <3>2 DEF KeptInv, Sound
    <3>. QED  BY <1>0, <3>3 DEF Removed
  <2>. HIDE DEF lines, needed
  <2>. QED  BY <2>1, <2>2, BeginKept
<1>. QED  BY <1>1, <1>2

LEMMA OpenKept ==
  ASSUME KeysTypeOK, KeptInv, NEW e \in Editors, Open(e)
  PROVE  KeptInv'
<1> USE DEF KeysTypeOK, UnderWay, Busy, Writing, Behind
<1>1. PICK i \in Inodes :
        /\ IF temporary = NoInode
             THEN i # authorized /\ \A f \in Editors : handle[f] # i
             ELSE i = temporary
        /\ temporary' = i
        /\ data' = [data EXCEPT ![i] = {}]
        /\ handle' = [handle EXCEPT ![e] = i]
  BY DEF Open
<1>2. /\ at[e] = "planned" /\ at' = [at EXCEPT ![e] = "opened"]
      /\ UNCHANGED <<authorized, plan, site, missed, shared, harmed>>
  BY DEF Open, siteVars
<1>3. i # authorized /\ i # NoInode
  BY <1>1, AuthorizedKeysAssumption DEF KeptInv
<1>4. /\ \A f \in Editors \ {e} : at'[f] = at[f] /\ handle'[f] = handle[f]
      /\ at'[e] = "opened" /\ handle'[e] = i
  BY <1>1, <1>2
<1>5. Sound(i)'
  BY <1>1, <1>4 DEF Sound
<1>6. Sound(authorized) /\ authorized # NoInode => Sound(authorized)'
  BY <1>1, <1>2, <1>3, <1>4 DEF Sound, Read
<1>7. \A f, g \in Editors : ~shared' /\ UnderWay(f)' /\ UnderWay(g)' => f = g
  BY <1>2, <1>4 DEF KeptInv
<1>8. \A f \in Editors : ~shared' /\ at'[f] \in Writing => temporary' = handle'[f]
  BY <1>1, <1>2, <1>4 DEF KeptInv
<1>9. ~Quiet'
  BY <1>4 DEF Quiet
<1>10. Content' = Content
  BY <1>1, <1>2, <1>3 DEF Content
<1>11. ~harmed => \A f \in Editors : Behind(f)' => Read' \subseteq plan'[f]
  BY <1>2, <1>4 DEF KeptInv, Read
<1>12. \A f \in Editors : at'[f] \in Writing => handle'[f] \in Inodes
  BY <1>4 DEF KeptInv
<1>. QED  BY <1>1, <1>2, <1>3, <1>5, <1>6, <1>7, <1>8, <1>9, <1>10, <1>11, <1>12 DEF KeptInv

\* An edit alone writes another file than the one that has the name.
LEMMA LoneWriterElsewhere ==
  ASSUME KeysTypeOK, KeptInv, NEW e \in Editors, at[e] \in Writing, ~shared,
         authorized' = authorized, NEW lines, data' = [data EXCEPT ![handle[e]] = lines]
  PROVE  Content' = Content
<1>1. temporary = handle[e] /\ handle[e] # authorized
  BY AuthorizedKeysAssumption DEF KeptInv, KeysTypeOK
<1>. QED  BY <1>1 DEF Content, KeysTypeOK

LEMMA WriteKept ==
  ASSUME KeysTypeOK, KeptInv, NEW e \in Editors, Write(e)
  PROVE  KeptInv'
<1> USE DEF KeysTypeOK, UnderWay, Busy, Writing, Behind
<1>1. PICK rest \in SUBSET data[handle[e]] :
        data' = [data EXCEPT ![handle[e]] = plan[e] \cup rest]
  BY DEF Write
<1>2. /\ at[e] = "opened" /\ at' = [at EXCEPT ![e] = "written"]
      /\ UNCHANGED <<authorized, temporary, plan, handle, site, missed, shared, harmed>>
  BY DEF Write, siteVars
<1>3. handle[e] \in Inodes
  BY <1>2 DEF KeptInv
<1>4. ASSUME ~harmed, NEW i \in Inodes, Sound(i) PROVE Sound(i)'
  <2>1. CASE i = handle[e]
    <3>1. Read \subseteq plan[e]
      BY <1>2, <1>4 DEF KeptInv
    <3>. QED  BY <1>1, <1>2, <2>1, <3>1 DEF Sound, Read
  <2>2. CASE i # handle[e]
    <3>1. data'[i] = data[i]
      BY <1>1, <2>2
    <3>. QED  BY <1>2, <1>4, <2>2, <3>1 DEF Sound, Read
  <2>. QED  BY <2>1, <2>2
<1>5. \A f \in Editors : /\ at'[f] \in Writing <=> at[f] \in Writing
                         /\ UnderWay(f)' <=> UnderWay(f)
                         /\ Behind(f)' <=> Behind(f)
  BY <1>2
<1>6. ~shared => Content' = Content
  BY <1>1, <1>2, LoneWriterElsewhere
<1>7. ~Quiet'
  BY <1>2, <1>5 DEF Quiet
<1>. QED  BY <1>2, <1>4, <1>5, <1>6, <1>7 DEF KeptInv, Read

LEMMA WriteFailsKept ==
  ASSUME KeysTypeOK, KeptInv, NEW e \in Editors, WriteFails(e)
  PROVE  KeptInv'
<1> USE DEF KeysTypeOK, UnderWay, Busy, Writing, Behind
<1>1. PICK part \in SUBSET plan[e] : data' = [data EXCEPT ![handle[e]] = part]
  BY DEF WriteFails
<1>2. /\ at[e] = "opened" /\ at' = [at EXCEPT ![e] = "failing"] /\ harmed' = (harmed \/ shared)
      /\ UNCHANGED <<authorized, temporary, plan, handle, site, missed, shared>>
  BY DEF WriteFails, siteVars
<1>3. \A f \in Editors : /\ at'[f] \in Writing => at[f] \in Writing
                         /\ UnderWay(f)' <=> UnderWay(f)
                         /\ Behind(f)' => Behind(f)
  BY <1>2
<1>4. ~Quiet'
  BY <1>2, <1>3 DEF Quiet
<1>5. CASE harmed'
  BY <1>2, <1>3, <1>4, <1>5 DEF KeptInv
<1>6. CASE ~harmed'
  <2>1. ~harmed /\ ~shared
    BY <1>2, <1>6
  <2>2. \A f \in Editors : ~Behind(f)'
    BY <1>2, <2>1 DEF KeptInv
  <2>3. Content' = Content
    BY <1>1, <1>2, <2>1, LoneWriterElsewhere
  <2>4. site \subseteq Content
    BY <2>1, KeptMeansKept DEF SiteLinesKept
  <2>5. authorized' # NoInode => Sound(authorized)'
    BY <1>2, <2>3, <2>4 DEF Sound, Content, Read
  <2>. QED  BY <1>2, <1>3, <1>4, <2>1, <2>2, <2>3, <2>5 DEF KeptInv
<1>. QED  BY <1>5, <1>6

\* What leaving the edit does to what the others find.
LEMMA LeaveKept ==
  ASSUME KeysTypeOK, KeptInv, NEW e \in Editors, NEW outcome \in Over, UnderWay(e),
         Leave(e, outcome)
  PROVE  /\ at'[e] = outcome
         /\ \A f \in Editors \ {e} : at'[f] = at[f] /\ handle'[f] = handle[f] /\ plan'[f] = plan[f]
         /\ \A f, g \in Editors : ~shared' /\ UnderWay(f)' /\ UnderWay(g)' => f = g
         /\ \A f \in Editors : at'[f] \in Writing => f # e /\ shared /\ shared'
         /\ Quiet' <=> ~Others(e)
         /\ Others(e) => shared'
<1> USE DEF KeysTypeOK, UnderWay, Busy, Writing, Over
<1>1. /\ at'[e] = outcome
      /\ \A f \in Editors \ {e} : at'[f] = at[f] /\ handle'[f] = handle[f] /\ plan'[f] = plan[f]
      /\ shared' = (shared /\ Others(e))
  BY DEF Leave
<1>2. \A f \in Editors : UnderWay(f)' => f # e /\ UnderWay(f)
  BY <1>1
<1>3. \A f \in Editors : f # e /\ UnderWay(f) => Others(e) /\ shared
  BY DEF Others, KeptInv
<1>4. Quiet' <=> ~Others(e)
  BY <1>1 DEF Quiet, Others
<1>5. Others(e) => shared'
  BY <1>1, <1>3 DEF Others
<1>. QED  BY <1>1, <1>2, <1>3, <1>4, <1>5

\* The last edit to leave settles what the site is owed: the file holds it.
LEMMA SettleKept ==
  ASSUME KeysTypeOK, KeptInv, NEW e \in Editors, NEW outcome \in Over, UnderWay(e), at[e] # "opened",
         Leave(e, outcome), Settle(e), harmed' = harmed,
         authorized = NoInode => authorized' = NoInode \/ authorized' = temporary,
         temporary' = NoInode \/ temporary' = temporary,
         temporary' # NoInode => temporary' # authorized',
         authorized' # NoInode /\ ~harmed =>
           Sound(authorized') /\ data'[authorized'] = data[authorized'],
         authorized' = NoInode => authorized = NoInode,
         temporary' # NoInode => data'[temporary'] = data[temporary']
  PROVE  KeptInv'
<1> USE DEF UnderWay, Busy, Writing, Behind
<1>1. /\ \A f \in Editors \ {e} : at'[f] = at[f] /\ handle'[f] = handle[f] /\ plan'[f] = plan[f]
      /\ at'[e] = outcome
      /\ \A f, g \in Editors : ~shared' /\ UnderWay(f)' /\ UnderWay(g)' => f = g
      /\ \A f \in Editors : at'[f] \in Writing => f # e /\ shared /\ shared'
      /\ Quiet' <=> ~Others(e)
      /\ Others(e) => shared'
  BY LeaveKept
<1>2. site' \subseteq site
  BY DEF Settle, Forgive, siteVars
<1>3. authorized' = NoInode => site' = {}
  BY <1>2 DEF KeptInv
<1>4. \A f \in Editors : at'[f] \in Writing => handle'[f] \in Inodes
  BY <1>1 DEF KeptInv
<1>5. CASE Others(e)
  <2>1. UNCHANGED <<site, missed>> /\ shared' /\ ~Quiet'
    BY <1>1, <1>5 DEF Settle, siteVars
  <2>2. \A i : Sound(i) /\ data'[i] = data[i] => Sound(i)'
    BY <1>1, <2>1 DEF Sound, Read, Over
  <2>3. ~harmed => \A f \in Editors : Behind(f)' => Read' \subseteq plan'[f]
    BY <1>1, <2>1 DEF KeptInv, Read, Over
  <2>4. \A f \in Editors : at'[f] \in Writing => at[f] \in Writing
    BY <1>1
  <2>5. temporary' # NoInode /\ (\E f \in Editors : at'[f] \in Writing) /\ ~harmed
          => Sound(temporary)'
    BY <2>2, <2>4 DEF KeptInv
  <2>. QED  BY <1>1, <1>3, <1>4, <2>1, <2>2, <2>3, <2>5 DEF KeptInv
<1>6. CASE ~Others(e)
  <2>1. missed' = {} /\ site' = site \ (missed \ Content') /\ Quiet'
    BY <1>1, <1>6 DEF Settle, Forgive
  <2>2. \A f \in Editors : ~UnderWay(f)' /\ ~Behind(f)' /\ at'[f] \notin Writing
    BY <2>1 DEF Quiet
  <2>3. ASSUME ~harmed, authorized' # NoInode PROVE Sound(authorized)'
    <3>1. Content' = data[authorized']
      BY <2>3 DEF Content
    <3>2. \/ site \ missed \subseteq data[authorized']
          \/ data[authorized'] \subseteq missed /\ \E f \in Editors : at[f] = "opened"
      BY <2>3 DEF Sound, Read
    <3>3. CASE \E f \in Editors : at[f] = "opened"
      BY <1>6, <3>3 DEF Others
    <3>4. CASE site \ missed \subseteq data[authorized']
      BY <2>1, <2>3, <3>1, <3>4 DEF Sound, Read
    <3>. QED  BY <3>2, <3>3, <3>4
  <2>. QED  BY <1>1, <1>3, <2>1, <2>2, <2>3 DEF KeptInv
<1>. QED  BY <1>5, <1>6

LEMMA ReplaceKept ==
  ASSUME KeysTypeOK, KeptInv, NEW e \in Editors,
         OpenFails(e) \/ Own(e) \/ Replace(e) \/ Unlink(e)
  PROVE  KeptInv'
<1> USE DEF KeysTypeOK, UnderWay, Busy, Writing, Behind
<1>1. CASE OpenFails(e)
  <2>1. Leave(e, "raised") /\ "raised" \in Over /\ UnderWay(e) /\ at[e] = "planned"
        /\ Settle(e) /\ UNCHANGED <<data, authorized, temporary, harmed>>
    BY <1>1 DEF OpenFails, Over, fileVars
  <2>2. temporary # NoInode => temporary # authorized
    BY DEF KeptInv
  <2>3. authorized # NoInode /\ ~harmed => Sound(authorized)
    BY DEF KeptInv
  <2>. HIDE DEF UnderWay, Busy, Writing, Behind, KeysTypeOK
  <2>. QED  BY <2>1, <2>2, <2>3, SettleKept
<1>2. CASE Own(e) \/ (Replace(e) /\ temporary = NoInode)
  <2>1. /\ at[e] \in {"written", "owned"} /\ at'[e] \in {"failing", "owned"}
        /\ \A f \in Editors \ {e} : at'[f] = at[f]
        /\ UNCHANGED <<data, authorized, temporary, plan, handle, shared, site, missed, harmed>>
    BY <1>2 DEF Own, Replace, fileVars, siteVars
  <2>2. \A i : Sound(i) => Sound(i)'
    BY <2>1 DEF Sound, Read
  <2>3. Content' = Content /\ ~Quiet'
    BY <2>1 DEF Content, Quiet
  <2>4. \A f \in Editors : Behind(f)' => Behind(f)
    BY <2>1
  <2>. QED  BY <2>1, <2>2, <2>3, <2>4 DEF KeptInv, Read
<1>3. CASE (Replace(e) /\ temporary # NoInode) \/ Unlink(e)
  <2>1. /\ at[e] \in {"owned", "failing"} /\ temporary' = NoInode /\ harmed' = harmed
        /\ \/ at[e] = "owned" /\ authorized' = temporary /\ temporary # NoInode
           \/ authorized' = authorized
        /\ Reclaim /\ Settle(e)
        /\ \E outcome \in Over : Leave(e, outcome)
    BY <1>3 DEF Replace, Unlink, Over
  <2>2. PICK outcome \in Over : Leave(e, outcome)
    BY <2>1
  <2>3. authorized' # NoInode => data'[authorized'] = data[authorized']
    BY <2>1 DEF Reclaim
  <2>4. authorized' # NoInode /\ ~harmed => Sound(authorized')
    BY <2>1 DEF KeptInv
  <2>5. UnderWay(e) /\ at[e] # "opened"
    BY <2>1
  <2>. HIDE DEF UnderWay, Busy, Writing, Behind, KeysTypeOK
  <2>. QED  BY <2>1, <2>2, <2>3, <2>4, <2>5, SettleKept
<1>. QED  BY <1>1, <1>2, <1>3

LEMMA RestKept ==
  ASSUME KeysTypeOK, KeptInv,
         \/ \E e \in Editors : Collect(e)
         \/ \E l \in SiteLines : SiteAppends(l)
         \/ KeysCrash
         \/ UNCHANGED keyVars
  PROVE  KeptInv'
<1> USE DEF KeysTypeOK, UnderWay, Busy, Writing, Behind
<1>1. ASSUME NEW e \in Editors, Collect(e) PROVE KeptInv'
  <2>1. /\ at[e] \in Over /\ at'[e] = "idle" /\ \A f \in Editors \ {e} : at'[f] = at[f]
        /\ UNCHANGED <<data, authorized, temporary, plan, handle, site, missed, shared, harmed>>
    BY <1>1 DEF Collect, fileVars, siteVars
  <2>2. \A i : Sound(i) => Sound(i)'
    BY <2>1 DEF Sound, Read, Over
  <2>3. Content' = Content /\ (Quiet' => Quiet)
    BY <2>1 DEF Content, Quiet, Over
  <2>4. \A f \in Editors : Behind(f)' => Behind(f)
    BY <2>1
  <2>. QED  BY <2>1, <2>2, <2>3, <2>4 DEF KeptInv, Read
<1>2. ASSUME NEW l \in SiteLines, SiteAppends(l) PROVE KeptInv'
  <2>1. /\ authorized # NoInode /\ authorized' = authorized /\ temporary' = temporary
        /\ site' = site \cup {l} /\ harmed' = harmed
        /\ data' = [data EXCEPT ![authorized] = @ \cup {l}]
        /\ missed' = IF \E f \in Editors : Behind(f) THEN missed \cup {l} ELSE missed
        /\ UNCHANGED <<at, plan, handle, shared>>
    BY <1>2 DEF SiteAppends, editVars
  <2>2. data'[authorized] = data[authorized] \cup {l}
    BY <2>1
  <2>3. Content' = Content \cup {l}
    BY <2>1, <2>2 DEF Content
  <2>4. (Quiet' <=> Quiet) /\ (Quiet => missed' = missed)
    BY <2>1 DEF Quiet
  <2>5. (\E f \in Editors : Behind(f)) => Read' \subseteq Read
    BY <2>1 DEF Read
  <2>6. Sound(authorized) => Sound(authorized)'
    <3>1. CASE \E f \in Editors : Behind(f)
      BY <2>1, <2>2, <2>5, <3>1 DEF Sound
    <3>2. CASE ~\E f \in Editors : Behind(f)
      BY <2>1, <2>2, <3>2 DEF Sound, Read
    <3>. QED  BY <3>1, <3>2
  <2>7. ASSUME temporary # NoInode, \E f \in Editors : at[f] \in Writing, Sound(temporary)
        PROVE  Sound(temporary)'
    <3>1. data'[temporary] = data[temporary] /\ (\E f \in Editors : Behind(f))
      BY <2>1, <2>7 DEF KeptInv
    <3>. QED  BY <2>1, <2>5, <2>7, <3>1 DEF Sound
  <2>8. missed' \subseteq missed \cup {l}
    BY <2>1
  <2>. QED  BY <2>1, <2>3, <2>4, <2>5, <2>6, <2>7, <2>8 DEF KeptInv
<1>3. CASE KeysCrash
  <2>1. /\ \A e \in Editors : at'[e] = "idle"
        /\ harmed' = (harmed \/ shared) /\ UNCHANGED <<authorized, temporary>>
        /\ Reclaim /\ missed' = {} /\ site' \subseteq site
    BY <1>3 DEF KeysCrash, Forgive
  <2>2. Content' = Content
    BY <2>1 DEF Reclaim, Content
  <2>3. ~harmed' /\ authorized # NoInode => site' \subseteq Content'
    BY <2>1, <2>2, KeptMeansKept DEF SiteLinesKept
  <2>4. ~harmed' /\ authorized # NoInode => Sound(authorized)'
    BY <2>1, <2>3 DEF Content, Sound, Read
  <2>. QED  BY <2>1, <2>4 DEF KeptInv
<1>4. CASE UNCHANGED keyVars
  BY <1>4 DEF keyVars, fileVars, editVars, siteVars, KeptInv, Sound, Read, Quiet, Content
<1>. QED  BY <1>1, <1>2, <1>3, <1>4

LEMMA KeysStepKeeps ==
  ASSUME KeysTypeOK, KeptInv, KeysStep
  PROVE  KeptInv'
  BY BeginnersKept, OpenKept, WriteKept, WriteFailsKept, ReplaceKept, RestKept
     DEF KeysStep, EditStep

-----------------------------------------------------------------------------
(* The edits as steps of the whole file.                                   *)

Outcomes(lines) == {Installed(lines, l) : l \in OwnLines} \cup {Removed(lines, h) : h \in Hosts}

\* Why an edit alone is made whole: what it planned is an outcome of the file
\* as it read it, which is the file as it is but for what the site appended
\* since; the file it opened is empty until it writes all of that, and by
\* KeptInv that file is the one it renames.
EditInv ==
  ~shared /\ ~harmed => \A e \in Editors :
    /\ Behind(e) => plan[e] \in Outcomes(Content \ missed)
    /\ at[e] = "opened" => data[handle[e]] = {}
    /\ at[e] \in {"written", "owned"} => data[handle[e]] = plan[e]

\* What an edit that is made at once does to the file.
Whole ==
  \/ Content' = Content /\ missed' \in {missed, {}}
  \/ Content' \in Outcomes(Content \ missed) /\ missed' = {}
  \/ \E l \in SiteLines :
       Content' = Content \cup {l} /\ missed' \in {missed, missed \cup {l}}

LEMMA BeginWhole ==
  ASSUME KeysTypeOK, KeptInv, EditInv, NEW e \in Editors, NEW lines \in Outcomes(Content),
         NEW needed \in BOOLEAN, Begin(e, lines, needed)
  PROVE  EditInv' /\ Content' = Content /\ missed' = missed
<1> USE DEF KeysTypeOK, UnderWay, Busy, Writing, Behind
<1>1. at[e] = "idle" /\ UNCHANGED <<data, authorized, missed, harmed>>
  BY DEF Begin, fileVars, siteVars
<1>2. Content' = Content
  BY <1>1 DEF Content
<1>3. \A f \in Editors \ {e} : at'[f] = at[f] /\ handle'[f] = handle[f] /\ plan'[f] = plan[f]
  BY DEF Begin, Leave
<1>4. \/ at'[e] = "planned" /\ plan'[e] = lines /\ shared' = (shared \/ Others(e))
      \/ at'[e] = "unchanged" /\ shared' = (shared /\ Others(e))
  BY DEF Begin, Leave
<1>5. \A f \in Editors \ {e} : UnderWay(f) => Others(e)
  BY DEF Others
<1>6. ASSUME ~shared', ~harmed', NEW f \in Editors \ {e}, Behind(f)'
      PROVE  ~shared /\ ~harmed
  BY <1>1, <1>3, <1>4, <1>5, <1>6
<1>7. ASSUME ~shared', at'[e] = "planned" PROVE lines \in Outcomes(Content \ missed)
  <2>1. Quiet
    BY <1>1, <1>4, <1>5, <1>7 DEF Quiet
  <2>2. Content \ missed = Content
    BY <2>1 DEF KeptInv
  <2>. QED  BY <2>2
<1>. QED  BY <1>1, <1>2, <1>3, <1>4, <1>6, <1>7 DEF EditInv

LEMMA BeginnersWhole ==
  ASSUME KeysTypeOK, KeptInv, EditInv,
         \/ \E line \in OwnLines : Install(Starter, line)
         \/ \E r \in Requests, h \in Hosts : Remove(r, h)
  PROVE  EditInv' /\ Whole
<1>0. Starter \in Editors /\ Requests \subseteq Editors
  BY NodeAssumption
<1>1. ASSUME NEW line \in OwnLines, Install(Starter, line) PROVE EditInv' /\ Whole
  <2>1. PICK needed \in BOOLEAN : Begin(Starter, Installed(Content, line), needed)
    BY <1>1 DEF Install
  <2>2. Installed(Content, line) \in Outcomes(Content)
    BY DEF Outcomes
  <2>. QED  BY <1>0, <2>1, <2>2, BeginWhole DEF Whole
<1>2. ASSUME NEW r \in Requests, NEW h \in Hosts, Remove(r, h)
      PROVE  EditInv' /\ Whole
  <2>1. Begin(r, Removed(Content, h), Removed(Content, h) # Content)
    BY <1>2 DEF Remove
  <2>2. Removed(Content, h) \in Outcomes(Content)
    BY DEF Outcomes
  <2>. QED  BY <1>0, <2>1, <2>2, BeginWhole DEF Whole
<1>. QED  BY <1>1, <1>2

\* An edit that leaves leaves nobody behind, or edits that had overlapped.
LEMMA LeaverLast ==
  ASSUME KeysTypeOK, KeptInv, NEW e \in Editors, NEW outcome \in Over, UnderWay(e),
         Leave(e, outcome)
  PROVE  ~shared' => \A f \in Editors : ~UnderWay(f)'
<1>1. /\ at'[e] = outcome /\ shared' = (shared /\ Others(e))
      /\ \A f \in Editors \ {e} : at'[f] = at[f]
  BY DEF Leave, KeysTypeOK
<1>2. outcome \notin Busy
  BY DEF Over, Busy, Writing
<1>3. \A f \in Editors \ {e} : UnderWay(f) => Others(e) /\ shared
  BY DEF Others, KeptInv
<1>. QED  BY <1>1, <1>2, <1>3 DEF UnderWay

LEMMA EditsWhole ==
  ASSUME KeysTypeOK, KeptInv, EditInv, NEW e \in Editors, EditStep(e)
  PROVE  EditInv' /\ (~shared /\ ~harmed => Whole)
<1> USE DEF KeysTypeOK, Behind
<1>1. CASE Open(e)
  <2>1. PICK i \in Inodes :
          /\ IF temporary = NoInode
               THEN i # authorized /\ \A f \in Editors : handle[f] # i
               ELSE i = temporary
          /\ data' = [data EXCEPT ![i] = {}]
          /\ handle' = [handle EXCEPT ![e] = i]
    BY <1>1 DEF Open
  <2>2. /\ at[e] = "planned" /\ at' = [at EXCEPT ![e] = "opened"]
        /\ UNCHANGED <<authorized, plan, missed, shared, harmed>>
    BY <1>1 DEF Open, siteVars
  <2>3. i # authorized
    BY <2>1, AuthorizedKeysAssumption DEF KeptInv
  <2>4. Content' = Content
    BY <2>1, <2>2, <2>3 DEF Content
  <2>5. /\ at'[e] = "opened" /\ data'[handle'[e]] = {}
        /\ \A f \in Editors \ {e} : at'[f] = at[f]
    BY <2>1, <2>2
  <2>6. ~shared => \A f \in Editors \ {e} : ~UnderWay(f)
    BY <2>2 DEF KeptInv, UnderWay, Busy, Writing
  <2>. QED  BY <2>2, <2>4, <2>5, <2>6 DEF EditInv, Whole, UnderWay, Busy, Writing
<1>2. CASE Write(e) \/ WriteFails(e)
  <2>1. /\ at[e] = "opened" /\ handle[e] \in Inodes
        /\ UNCHANGED <<authorized, temporary, plan, handle, missed, shared>>
        /\ \E lines : data' = [data EXCEPT ![handle[e]] = lines]
    BY <1>2 DEF Write, WriteFails, KeptInv, Writing, siteVars
  <2>2. ASSUME ~shared, ~harmed
        PROVE  Content' = Content /\ \A f \in Editors \ {e} : ~UnderWay(f)
    <3>1. temporary = handle[e] /\ handle[e] # authorized
      BY <2>1, <2>2, AuthorizedKeysAssumption DEF KeptInv, Writing
    <3>2. Content' = Content
      BY <2>1, <3>1 DEF Content
    <3>. QED  BY <2>1, <2>2, <3>2 DEF KeptInv, UnderWay, Busy, Writing
  <2>3. CASE Write(e)
    <3>1. PICK rest \in SUBSET data[handle[e]] :
            data' = [data EXCEPT ![handle[e]] = plan[e] \cup rest]
      BY <2>3 DEF Write
    <3>2. at' = [at EXCEPT ![e] = "written"] /\ harmed' = harmed
      BY <2>3 DEF Write
    <3>3. ~shared /\ ~harmed =>
            data'[handle[e]] = plan[e] /\ plan[e] \in Outcomes(Content \ missed)
      BY <2>1, <3>1 DEF EditInv, Writing
    <3>. QED  BY <2>1, <2>2, <3>2, <3>3 DEF EditInv, Whole, UnderWay, Busy, Writing
  <2>4. CASE WriteFails(e)
    <3>1. at' = [at EXCEPT ![e] = "failing"] /\ harmed' = (harmed \/ shared)
      BY <2>4 DEF WriteFails
    <3>. QED  BY <2>1, <2>2, <3>1 DEF EditInv, Whole, UnderWay, Busy, Writing
  <2>. QED  BY <1>2, <2>3, <2>4
<1>3. ASSUME UnderWay(e), Settle(e), ~shared PROVE missed' = {}
  <2>1. ~Others(e)
    BY <1>3 DEF KeptInv, Others
  <2>. QED  BY <1>3, <2>1 DEF Settle, Forgive
<1>4. CASE OpenFails(e)
  <2>1. Leave(e, "raised") /\ "raised" \in Over /\ UnderWay(e) /\ Settle(e)
        /\ UNCHANGED <<fileVars, harmed>>
    BY <1>4 DEF OpenFails, Over, UnderWay, Busy
  <2>2. ~shared' => \A f \in Editors : ~UnderWay(f)'
    BY <2>1, LeaverLast
  <2>3. Content' = Content
    BY <2>1 DEF Content, fileVars
  <2>. QED  BY <1>3, <2>1, <2>2, <2>3 DEF EditInv, Whole, UnderWay, Busy, Writing
<1>5. CASE Own(e) \/ (Replace(e) /\ temporary = NoInode)
  <2>1. /\ at[e] \in {"written", "owned"} /\ at'[e] \in {"failing", "owned"}
        /\ at'[e] = "owned" => at[e] = "written"
        /\ \A f \in Editors \ {e} : at'[f] = at[f]
        /\ UNCHANGED <<fileVars, plan, handle, missed, shared, harmed>>
    BY <1>5 DEF Own, Replace, siteVars
  <2>2. Content' = Content
    BY <2>1 DEF Content, fileVars
  <2>. QED  BY <2>1, <2>2 DEF EditInv, Whole, fileVars, Writing
<1>6. CASE (Replace(e) /\ temporary # NoInode) \/ Unlink(e)
  <2>1. /\ at[e] \in {"owned", "failing"}
        /\ \/ at[e] = "owned" /\ authorized' = temporary /\ temporary # NoInode
           \/ authorized' = authorized
        /\ Reclaim /\ Settle(e)
        /\ \E outcome \in Over : Leave(e, outcome)
    BY <1>6 DEF Replace, Unlink, Over
  <2>2. ~shared' => \A f \in Editors : ~UnderWay(f)'
    BY <2>1, LeaverLast DEF UnderWay, Busy, Writing
  <2>3. authorized' # NoInode => authorized' \in Inodes /\ data'[authorized'] = data[authorized']
    BY <2>1 DEF Reclaim
  <2>4. ASSUME ~shared, ~harmed PROVE Whole
    <3>1. missed' = {}
      BY <1>3, <2>1, <2>4 DEF UnderWay, Busy, Writing
    <3>2. CASE authorized' = authorized
      BY <2>3, <3>1, <3>2 DEF Content, Whole
    <3>3. CASE at[e] = "owned" /\ authorized' = temporary /\ temporary # NoInode
      <4>1. temporary = handle[e]
        BY <2>4, <3>3 DEF KeptInv, Writing
      <4>2. data[handle[e]] = plan[e] /\ plan[e] \in Outcomes(Content \ missed)
        BY <2>4, <3>3 DEF EditInv, Writing
      <4>3. Content' = plan[e]
        BY <2>3, <3>3, <4>1, <4>2 DEF Content
      <4>. QED  BY <3>1, <4>2, <4>3 DEF Whole
    <3>. QED  BY <2>1, <3>2, <3>3
  <2>. QED  BY <2>2, <2>4 DEF EditInv, UnderWay, Busy, Writing
<1>. QED  BY <1>1, <1>2, <1>4, <1>5, <1>6 DEF EditStep

LEMMA RestWhole ==
  ASSUME KeysTypeOK, KeptInv, EditInv,
         \/ \E e \in Editors : Collect(e)
         \/ \E l \in SiteLines : SiteAppends(l)
         \/ KeysCrash
         \/ UNCHANGED keyVars
  PROVE  EditInv' /\ Whole
<1> USE DEF KeysTypeOK, Behind
<1>1. ASSUME NEW e \in Editors, Collect(e) PROVE EditInv' /\ Whole
  <2>1. /\ at'[e] = "idle" /\ \A f \in Editors \ {e} : at'[f] = at[f]
        /\ UNCHANGED <<fileVars, plan, handle, missed, shared, harmed>>
    BY <1>1 DEF Collect, siteVars
  <2>2. Content' = Content
    BY <2>1 DEF Content, fileVars
  <2>. QED  BY <2>1, <2>2 DEF EditInv, Whole, fileVars, Writing
<1>2. ASSUME NEW l \in SiteLines, SiteAppends(l) PROVE EditInv' /\ Whole
  <2>1. /\ authorized # NoInode /\ authorized' = authorized /\ l \notin Content
        /\ data' = [data EXCEPT ![authorized] = @ \cup {l}]
        /\ missed' = IF \E e \in Editors : Behind(e) THEN missed \cup {l} ELSE missed
        /\ UNCHANGED <<at, plan, handle, shared, harmed>>
    BY <1>2 DEF SiteAppends, editVars
  <2>2. Content' = Content \cup {l}
    BY <2>1 DEF Content
  <2>3. (\E e \in Editors : Behind(e)) => Content' \ missed' = Content \ missed
    BY <2>1, <2>2
  <2>4. ASSUME ~shared, NEW e \in Editors, at[e] \in Writing
        PROVE  data'[handle[e]] = data[handle[e]]
    <3>1. handle[e] \in Inodes /\ temporary = handle[e] /\ handle[e] # authorized
      BY <2>4, AuthorizedKeysAssumption DEF KeptInv
    <3>. QED  BY <2>1, <3>1
  <2>. QED  BY <2>1, <2>2, <2>3, <2>4 DEF EditInv, Whole, Writing
<1>3. CASE KeysCrash
  <2>1. /\ \A e \in Editors : at'[e] = "idle"
        /\ authorized' = authorized /\ Reclaim /\ missed' = {}
    BY <1>3 DEF KeysCrash, Forgive
  <2>2. Content' = Content
    BY <2>1 DEF Reclaim, Content
  <2>. QED  BY <2>1, <2>2 DEF EditInv, Whole, Writing
<1>4. CASE UNCHANGED keyVars
  BY <1>4 DEF keyVars, fileVars, editVars, siteVars, EditInv, Whole, Content
<1>. QED  BY <1>1, <1>2, <1>3, <1>4

LEMMA KeysStepWhole ==
  ASSUME KeysTypeOK, KeptInv, EditInv, KeysStep
  PROVE  EditInv' /\ (~shared /\ ~harmed => Whole)
  BY BeginnersWhole, EditsWhole, RestWhole DEF KeysStep

LEMMA OutcomesAllowed ==
  ASSUME KeysTypeOK, NodeTypeOK, Content' \in Outcomes(Content \ missed), missed' = {}
  PROVE  \E line \in OwnLines : File!Provision(line) \/ File!Revoke(line.comment)
<1>0. File!Read = Content \ missed
  BY DEF File!Read
<1>1. ASSUME NEW line \in OwnLines, Content' = Installed(Content \ missed, line)
      PROVE  File!Provision(line)
  <2>1. \A l \in (Content \ missed) \ Content' :
          l \in OwnLines /\ (l.comment = line.comment \/ line.key \in Blob(l))
    BY <1>1 DEF Installed
  <2>2. \A l : line.key \in Blob(l) => l.key = line.key
    BY DEF Blob
  <2>3. \A l \in Content' \cap OwnLines : l.comment = line.comment => l = line
    BY <1>1 DEF Installed
  <2>4. line \in Content' /\ Content' \subseteq (Content \ missed) \cup {line}
    BY <1>1 DEF Installed
  <2>. QED  BY <1>0, <2>1, <2>2, <2>3, <2>4 DEF File!Provision
<1>2. ASSUME NEW h \in Hosts, Content' = Removed(Content \ missed, h)
      PROVE  \E line \in OwnLines : File!Revoke(line.comment)
  <2> DEFINE line == [comment |-> h, key |-> "pair", from |-> address]
  <2>1. line \in OwnLines /\ line.comment = h
    BY DEF NodeTypeOK, OwnLines, Keys
  <2>2. Content' = {l \in Content \ missed : l \in OwnLines => l.comment # line.comment}
    BY <1>2, <2>1 DEF Removed
  <2>3. File!Revoke(line.comment)
    BY <1>0, <2>2 DEF File!Revoke
  <2>. QED  BY <2>1, <2>3
<1>. QED  BY <1>1, <1>2 DEF Outcomes

LEMMA FileSteps ==
  ASSUME KeysTypeOK, KeysTypeOK', NodeTypeOK, KeptInv, EditInv, KeysStep
  PROVE  File!Next
<1>1. CASE shared \/ harmed
  <2>1. Content' \subseteq Lines
    BY ContentType DEF KeysTypeOK, Content
  <2>2. missed' \subseteq Lines
    BY DEF KeysTypeOK, Lines
  <2>. QED  BY <1>1, <2>1, <2>2 DEF File!Next, File!Overlap
<1>2. CASE ~shared /\ ~harmed
  <2>1. Whole
    BY <1>2, KeysStepWhole
  <2>2. CASE Content' = Content /\ missed' \in {missed, {}}
    BY <2>2 DEF File!Next, File!GiveUp
  <2>3. CASE Content' \in Outcomes(Content \ missed) /\ missed' = {}
    BY <2>3, OutcomesAllowed DEF File!Next
  <2>4. ASSUME NEW l \in SiteLines, Content' = Content \cup {l},
               missed' \in {missed, missed \cup {l}}
        PROVE  File!Next
    <3>1. l \in Lines \ OwnLines
      BY AuthorizedKeysAssumption DEF Lines
    <3>. QED  BY <2>4, <3>1 DEF File!Next, File!SiteAppends
  <2>. QED  BY <2>1, <2>2, <2>3, <2>4 DEF Whole
<1>. QED  BY <1>1, <1>2

-----------------------------------------------------------------------------
(* Revocations.                                                            *)

\* Lines that name no revoked relation, but that of the machine while the
\* start is installing it again.
Clear(lines) ==
  \A l \in lines \cap OwnLines :
    l.comment \in revoked => at[Starter] # "idle" /\ l.comment = host

Without(lines, comment) == \A l \in lines \cap OwnLines : l.comment # comment

\* Why a revocation holds.  No edit brings a revoked line back, neither from
\* what it planned nor from the file it writes, which it emptied when it opened
\* it; and when a request alone revokes a relation, nobody has planned a line
\* of it.
RevokedInv ==
  /\ RevocationsHold
  /\ \A e \in Editors : UnderWay(e) => Clear(plan[e])
  /\ \A e \in Editors : at[e] \in Writing =>
       /\ Clear(data[handle[e]])
       /\ temporary # NoInode => Clear(data[temporary])
  /\ at[Starter] \in Writing => handle[Starter] # authorized
  /\ ~shared => \A r \in Requests :
       /\ UnderWay(r) => Without(plan[r], target[r])
       /\ at[r] \in Writing => Without(data[handle[r]], target[r])

\* Steps of an edit that replace nothing.
LEMMA WriterClears ==
  ASSUME KeysTypeOK, EditorsInv, KeptInv, RevokedInv, NEW e \in Editors,
         Open(e) \/ Write(e) \/ WriteFails(e),
         UNCHANGED <<host, target, revoked>>
  PROVE  RevokedInv'
<1> USE DEF KeysTypeOK, UnderWay, Busy, Writing
<1>0. Starter \in Editors /\ Requests \subseteq Editors
  BY NodeAssumption
<1>1. /\ at[e] \in {"planned", "opened"} /\ at'[e] \in {"opened", "written", "failing"}
      /\ \A f \in Editors \ {e} : at'[f] = at[f]
      /\ UNCHANGED <<authorized, plan, shared>>
  BY DEF Open, Write, WriteFails
<1>2. \A lines : Clear(lines) => Clear(lines)'
  BY <1>0, <1>1 DEF Clear
<1>3. Clear({}) /\ \A comment : Without({}, comment)
  BY DEF Clear, Without
<1>4. CASE Open(e)
  <2>1. PICK i \in Inodes : /\ temporary' = i /\ data' = [data EXCEPT ![i] = {}]
                            /\ handle' = [handle EXCEPT ![e] = i]
                            /\ temporary # NoInode => i = temporary
                            /\ temporary = NoInode => i # authorized
    BY <1>4 DEF Open
  <2>2. i # authorized
    BY <2>1, AuthorizedKeysAssumption DEF KeptInv
  <2>3. Content' = Content
    BY <1>1, <2>1, <2>2 DEF Content
  <2>4. data'[i] = {} /\ handle'[e] = i /\ \A f \in Editors \ {e} : handle'[f] = handle[f]
    BY <2>1
  <2>5. \A j \in Inodes \ {i} : data'[j] = data[j]
    BY <2>1
  <2>6. \A f \in Editors : at'[f] \in Writing => Clear(data'[handle'[f]])
    BY <1>1, <1>3, <2>1, <2>4, <2>5 DEF RevokedInv, KeptInv
  <2>7. \A r \in Requests : ~shared /\ at'[r] \in Writing => Without(data'[handle'[r]], target[r])
    BY <1>0, <1>1, <1>3, <2>1, <2>4, <2>5 DEF RevokedInv, KeptInv
  <2>8. Clear(data'[temporary'])
    BY <1>3, <2>1, <2>4
  <2>. QED
    BY <1>0, <1>1, <1>2, <2>2, <2>3, <2>4, <2>6, <2>7, <2>8
       DEF RevokedInv, RevocationsHold, Without
<1>5. CASE Write(e) \/ WriteFails(e)
  <2>1. /\ at[e] = "opened" /\ handle[e] \in Inodes /\ UNCHANGED <<temporary, handle>>
        /\ Clear(plan[e]) /\ Clear(data[handle[e]])
    BY <1>5 DEF Write, WriteFails, RevokedInv, KeptInv
  <2>2. PICK lines \in SUBSET (plan[e] \cup data[handle[e]]) :
          data' = [data EXCEPT ![handle[e]] = lines]
    <3>1. CASE Write(e)
      <4>1. PICK rest \in SUBSET data[handle[e]] :
              data' = [data EXCEPT ![handle[e]] = plan[e] \cup rest]
        BY <3>1 DEF Write
      <4>. QED  BY <4>1
    <3>2. CASE WriteFails(e)
      <4>1. PICK part \in SUBSET plan[e] : data' = [data EXCEPT ![handle[e]] = part]
        BY <3>2 DEF WriteFails
      <4>. QED  BY <4>1
    <3>. QED  BY <1>5, <3>1, <3>2
  <2>3. Clear(lines)
    BY <2>1 DEF Clear
  <2>4. \A j \in Inodes : data'[j] = IF j = handle[e] THEN lines ELSE data[j]
    BY <2>1, <2>2
  <2>5. RevocationsHold'
    <3>1. CASE authorized = handle[e]
      <4>1. e # Starter
        BY <2>1, <3>1 DEF RevokedInv
      <4>2. at[Starter] = "idle"
        BY <1>1, <4>1, NodeAssumption DEF EditorsInv, Editing
      <4>3. Content' = lines
        BY <1>1, <2>1, <2>4, <3>1, AuthorizedKeysAssumption DEF Content
      <4>. QED  BY <2>3, <4>2, <4>3 DEF Clear, RevocationsHold
    <3>2. CASE authorized # handle[e]
      <4>1. Content' = Content
        BY <1>1, <2>4, <3>2 DEF Content
      <4>. QED  BY <4>1 DEF RevokedInv, RevocationsHold
    <3>. QED  BY <3>1, <3>2
  <2>6. \A f \in Editors : at'[f] \in Writing =>
          /\ Clear(data'[handle[f]])
          /\ temporary # NoInode => Clear(data'[temporary])
    BY <1>1, <2>1, <2>3, <2>4 DEF RevokedInv, KeptInv
  <2>7. ASSUME ~shared, NEW r \in Requests, at'[r] \in Writing
        PROVE  Without(data'[handle[r]], target[r])
    <3>1. r = e
      BY <1>0, <1>1, <2>7 DEF KeptInv
    <3>2. Without(plan[r], target[r]) /\ Without(data[handle[r]], target[r])
      BY <1>1, <2>1, <2>7, <3>1 DEF RevokedInv
    <3>. QED  BY <2>1, <2>4, <3>1, <3>2 DEF Without
  <2>. QED
    BY <1>0, <1>1, <1>2, <2>1, <2>5, <2>6, <2>7 DEF RevokedInv, Without
<1>. QED  BY <1>4, <1>5

\* Steps of an edit that touch no inode that is named or written afterwards.
LEMMA LeaverClears ==
  ASSUME KeysTypeOK, EditorsInv, KeptInv, RevokedInv, NEW e \in Editors,
         OpenFails(e) \/ Own(e) \/ (Replace(e) /\ at'[e] # "changed") \/ Unlink(e),
         UNCHANGED <<host, target, revoked>>
  PROVE  RevokedInv'
<1> USE DEF KeysTypeOK, UnderWay, Busy, Writing, Over
<1>0. Starter \in Editors /\ Requests \subseteq Editors
  BY NodeAssumption
<1>1. CASE Own(e) \/ (Replace(e) /\ at'[e] # "changed")
  <2>1. /\ at[e] \in {"written", "owned"} /\ at'[e] \in {"failing", "owned"}
        /\ \A f \in Editors \ {e} : at'[f] = at[f]
        /\ UNCHANGED <<data, authorized, temporary, plan, handle, shared>>
    BY <1>1 DEF Own, Replace, Leave, fileVars
  <2>2. \A lines : Clear(lines) => Clear(lines)'
    BY <1>0, <2>1 DEF Clear
  <2>3. Content' = Content
    BY <2>1 DEF Content
  <2>. QED  BY <1>0, <2>1, <2>2, <2>3 DEF RevokedInv, RevocationsHold, Without
<1>2. CASE OpenFails(e) \/ Unlink(e)
  <2>1. /\ at[e] \in {"planned", "failing"} /\ Leave(e, "raised") /\ authorized' = authorized
        /\ \/ data' = data /\ temporary' = temporary
           \/ temporary' = NoInode /\ Reclaim
    BY <1>2 DEF OpenFails, Unlink, fileVars
  <2>2. /\ at'[e] = "raised"
        /\ \A f \in Editors \ {e} : at'[f] = at[f] /\ handle'[f] = handle[f] /\ plan'[f] = plan[f]
        /\ \A f \in Editors : at'[f] \in Writing => f # e /\ shared /\ shared'
        /\ ~shared' => \A f \in Editors : ~UnderWay(f)'
    <3>1. "raised" \in Over /\ UnderWay(e)
      BY <2>1
    <3>2. ~shared' => \A f \in Editors : ~UnderWay(f)'
      <4>1. shared' = (shared /\ Others(e)) /\ at' = [at EXCEPT ![e] = "raised"]
        BY <2>1 DEF Leave
      <4>2. \A f \in Editors : f # e /\ UnderWay(f) => Others(e) /\ shared
        BY <3>1 DEF Others, KeptInv
      <4>. QED  BY <4>1, <4>2
    <3>. QED  BY <2>1, <3>1, <3>2, LeaveKept
  <2>3. \A lines : Clear(lines) => Clear(lines)'
    BY <1>0, <2>1, <2>2 DEF Clear
  <2>4. authorized # NoInode => data'[authorized] = data[authorized]
    BY <2>1 DEF Reclaim
  <2>5. Content' = Content
    BY <2>1, <2>4 DEF Content
  <2>6. \A f \in Editors : at'[f] \in Writing => data'[handle'[f]] = data[handle[f]]
    BY <2>1, <2>2 DEF Reclaim, KeptInv
  <2>7. temporary' # NoInode => temporary' = temporary /\ data' = data
    BY <2>1
  <2>. QED  BY <1>0, <2>1, <2>2, <2>3, <2>5, <2>6, <2>7 DEF RevokedInv, RevocationsHold
<1>. QED  BY <1>1, <1>2

\* The file that is renamed names neither a relation that was revoked nor the
\* one that is being revoked.
LEMMA ReplacerClears ==
  ASSUME KeysTypeOK, EditorsInv, KeptInv, RevokedInv, NEW e \in Editors,
         Replace(e), at'[e] = "changed",
         UNCHANGED <<host, target>>,
         \/ e = Starter /\ revoked' = revoked \ {host}
         \/ /\ e \in Requests
            /\ revoked' = IF shared THEN revoked ELSE revoked \cup {target[e]}
  PROVE  RevokedInv'
<1> USE DEF KeysTypeOK, UnderWay, Busy, Writing, Over
<1>0. Starter \in Editors /\ Requests \subseteq Editors /\ Starter \notin Requests
  BY NodeAssumption
<1>1. /\ at[e] = "owned" /\ temporary # NoInode
      /\ authorized' = temporary /\ temporary' = NoInode /\ Leave(e, "changed") /\ Reclaim
  BY DEF Replace
<1>2. /\ \A f \in Editors \ {e} : at'[f] = at[f] /\ handle'[f] = handle[f] /\ plan'[f] = plan[f]
      /\ \A f \in Editors : at'[f] \in Writing => f # e /\ shared /\ shared'
  BY <1>1, LeaveKept
<1>3. ~shared' => \A f \in Editors : ~UnderWay(f)'
  <2>1. shared' = (shared /\ Others(e)) /\ at' = [at EXCEPT ![e] = "changed"]
    BY <1>1 DEF Leave
  <2>2. \A f \in Editors : f # e /\ UnderWay(f) => Others(e) /\ shared
    BY <1>1 DEF Others, KeptInv
  <2>. QED  BY <2>1, <2>2
<1>4. Content' = data[temporary]
  BY <1>1, AuthorizedKeysAssumption DEF Content, Reclaim
<1>5. Clear(data[temporary])
  BY <1>1 DEF RevokedInv
<1>6. \A f \in Editors : at'[f] \in Writing => data'[handle'[f]] = data[handle[f]]
  BY <1>1, <1>2 DEF Reclaim, KeptInv
<1>7. CASE e = Starter
  <2>1. \A f \in Editors \ {e} : at[f] = "idle"
    BY <1>0, <1>1, <1>7, NodeAssumption DEF EditorsInv, Editing
  <2>2. \A f \in Editors : ~UnderWay(f)' /\ at'[f] \notin Writing
    BY <1>2, <2>1
  <2>3. RevocationsHold'
    BY <1>0, <1>4, <1>5, <1>7 DEF Clear, RevocationsHold
  <2>. QED  BY <1>0, <2>2, <2>3 DEF RevokedInv
<1>8. CASE e \in Requests
  <2>1. at[Starter] = "idle" /\ at'[Starter] = "idle"
    BY <1>0, <1>1, <1>2, <1>8 DEF EditorsInv, Editing
  <2>2. CASE shared
    <3>1. revoked' = revoked
      BY <1>0, <1>8, <2>2
    <3>2. \A lines : Clear(lines) => Clear(lines)'
      BY <2>1, <3>1 DEF Clear
    <3>3. RevocationsHold'
      BY <1>4, <1>5, <2>1, <3>1 DEF Clear, RevocationsHold
    <3>. QED  BY <1>0, <1>1, <1>2, <1>3, <1>6, <2>1, <3>2, <3>3 DEF RevokedInv
  <2>3. CASE ~shared
    <3>1. \A f \in Editors : ~UnderWay(f)' /\ at'[f] \notin Writing
      BY <1>1, <1>3, <2>3 DEF Leave
    <3>2. Without(data[temporary], target[e])
      BY <1>1, <1>8, <2>3 DEF RevokedInv, KeptInv
    <3>3. revoked' = revoked \cup {target[e]}
      BY <1>0, <1>8, <2>3
    <3>4. RevocationsHold'
      BY <1>4, <1>5, <2>1, <3>2, <3>3 DEF Clear, Without, RevocationsHold
    <3>. QED  BY <1>0, <3>1, <3>4 DEF RevokedInv
  <2>. QED  BY <2>2, <2>3
<1>. QED  BY <1>7, <1>8

\* An edit plans what it read, without what it revokes, or with what the start
\* installs.
LEMMA BeginnerClears ==
  ASSUME KeysTypeOK, EditorsInv, KeptInv, RevokedInv, NEW e \in Editors,
         NEW lines, NEW needed \in BOOLEAN, Begin(e, lines, needed),
         UNCHANGED <<host, revoked>>,
         \A l \in lines \cap OwnLines : l \in Content \/ (e = Starter /\ l.comment = host),
         \A r \in Requests \ {e} : target'[r] = target[r],
         e \in Requests => Without(lines, target'[e])
  PROVE  RevokedInv'
<1> USE DEF KeysTypeOK, UnderWay, Busy, Writing
<1>0. Starter \in Editors /\ Requests \subseteq Editors
  BY NodeAssumption
<1>1. at[e] = "idle" /\ UNCHANGED <<data, authorized, temporary>>
  BY DEF Begin, fileVars
<1>2. /\ \A f \in Editors \ {e} : at'[f] = at[f] /\ handle'[f] = handle[f] /\ plan'[f] = plan[f]
      /\ \/ at'[e] = "planned" /\ plan'[e] = lines /\ shared' = (shared \/ Others(e))
         \/ at'[e] = "unchanged" /\ shared' = (shared /\ Others(e))
  BY DEF Begin, Leave
<1>3. \A f \in Editors \ {e} : UnderWay(f) => Others(e)
  BY DEF Others
<1>4. \A set : Clear(set) => Clear(set)'
  BY <1>0, <1>1, <1>2 DEF Clear
<1>5. Content' = Content
  BY <1>1 DEF Content
<1>6. at'[e] = "planned" => Clear(plan[e])'
  BY <1>0, <1>2 DEF Clear, RevokedInv, RevocationsHold
<1>7. \A f \in Editors : at'[f] \in Writing => f # e /\ at[f] \in Writing
  BY <1>2
<1>8. ASSUME ~shared', NEW r \in Requests
      PROVE  /\ UnderWay(r)' => Without(plan'[r], target'[r])
             /\ at'[r] \in Writing => Without(data[handle'[r]], target'[r])
  <2>1. CASE r = e
    BY <1>2, <1>7, <2>1
  <2>2. CASE r # e
    BY <1>0, <1>2, <1>3, <1>8, <2>2 DEF RevokedInv
  <2>. QED  BY <2>1, <2>2
<1>9. RevocationsHold'
  BY <1>5 DEF RevokedInv, RevocationsHold
<1>10. \A f \in Editors : UnderWay(f)' => Clear(plan[f])'
  BY <1>2, <1>4, <1>6 DEF RevokedInv
<1>11. at'[Starter] \in Writing => handle'[Starter] # authorized
  BY <1>0, <1>2, <1>7 DEF RevokedInv
<1>. QED  BY <1>1, <1>2, <1>4, <1>7, <1>8, <1>9, <1>10, <1>11 DEF RevokedInv, Without

\* The answers, the lines of the site and a crash.
LEMMA RestClears ==
  ASSUME KeysTypeOK, EditorsInv, KeptInv, RevokedInv, UNCHANGED revoked,
         \/ KeysCrash
         \/ /\ UNCHANGED <<host, target>>
            /\ (\E l \in SiteLines : SiteAppends(l)) \/ Collect(Starter) \/ UNCHANGED keyVars
         \/ \E r \in Requests : /\ Collect(r) /\ UNCHANGED host
                                /\ \A q \in Requests \ {r} : target'[q] = target[q]
         \/ \E r \in Requests : /\ at[r] = "idle" /\ UNCHANGED <<keyVars, host>>
                                /\ \A q \in Requests \ {r} : target'[q] = target[q]
  PROVE  RevokedInv'
<1> USE DEF KeysTypeOK, UnderWay, Busy, Writing, Over
<1>0. Starter \in Editors /\ Requests \subseteq Editors /\ Starter \notin Requests
  BY NodeAssumption
<1>1. CASE KeysCrash
  <2>1. /\ \A e \in Editors : at'[e] = "idle" /\ authorized' = authorized
        /\ authorized # NoInode => data'[authorized] = data[authorized]
    BY <1>1 DEF KeysCrash, Reclaim
  <2>2. Content' = Content
    BY <1>0, <1>1, <2>1 DEF Content, KeysCrash
  <2>. QED  BY <1>0, <2>1, <2>2 DEF RevokedInv, RevocationsHold
<1>2. ASSUME NEW l \in SiteLines, SiteAppends(l), UNCHANGED <<host, target>> PROVE RevokedInv'
  <2>1. /\ UNCHANGED <<authorized, temporary, at, plan, handle, shared>>
        /\ authorized \in Inodes
        /\ \A i \in Inodes : data'[i] = IF i = authorized THEN data[i] \cup {l} ELSE data[i]
    BY <1>2 DEF SiteAppends, editVars
  <2>2. l \notin OwnLines
    BY AuthorizedKeysAssumption
  <2>3. \A lines : Clear(lines) => Clear(lines)' /\ Clear(lines \cup {l})'
    BY <1>2, <2>1, <2>2 DEF Clear
  <2>4. \A lines, comment : Without(lines, comment) => Without(lines \cup {l}, comment)
    BY <2>2 DEF Without
  <2>5. RevocationsHold'
    BY <2>1, <2>2, AuthorizedKeysAssumption DEF RevokedInv, RevocationsHold, Content
  <2>6. \A i \in Inodes : /\ Clear(data[i]) => Clear(data[i])'
                          /\ \A comment : Without(data[i], comment) => Without(data'[i], comment)
    BY <2>1, <2>3, <2>4
  <2>7. \A e \in Editors : at[e] \in Writing =>
          /\ Clear(data[handle[e]])'
          /\ temporary # NoInode => Clear(data[temporary])'
    BY <2>1, <2>6 DEF RevokedInv, KeptInv
  <2>8. ~shared => \A r \in Requests :
          at[r] \in Writing => Without(data'[handle[r]], target[r])
    BY <1>0, <2>6 DEF RevokedInv, KeptInv
  <2>9. \A e \in Editors : UnderWay(e) => Clear(plan[e])'
    BY <2>1, <2>3 DEF RevokedInv
  <2>. QED  BY <1>0, <1>2, <2>1, <2>5, <2>7, <2>8, <2>9 DEF RevokedInv, Without
<1>3. ASSUME NEW e \in Editors, Collect(e), UNCHANGED host,
             \A q \in Requests \ {e} : target'[q] = target[q]
      PROVE  RevokedInv'
  <2>1. /\ at[e] \in Over /\ at'[e] = "idle" /\ \A f \in Editors \ {e} : at'[f] = at[f]
        /\ UNCHANGED <<data, authorized, temporary, plan, handle, shared>>
    BY <1>3 DEF Collect, fileVars
  <2>2. e = Starter => \A f \in Editors : ~UnderWay(f)'
    BY <1>0, <2>1, NodeAssumption DEF EditorsInv, Editing
  <2>3. e # Starter => at'[Starter] = at[Starter]
    BY <1>0, <2>1
  <2>4. e # Starter => \A lines : Clear(lines) => Clear(lines)'
    BY <1>3, <2>3 DEF Clear
  <2>5. RevocationsHold'
    BY <2>1 DEF RevokedInv, RevocationsHold, Content
  <2>6. CASE e = Starter
    BY <1>0, <2>2, <2>5, <2>6 DEF RevokedInv
  <2>7. CASE e # Starter
    BY <1>0, <1>3, <2>1, <2>3, <2>4, <2>5, <2>7 DEF RevokedInv, Without
  <2>. QED  BY <2>6, <2>7
<1>4. ASSUME UNCHANGED <<keyVars, host>>,
             \A q \in Requests : at[q] = "idle" \/ target'[q] = target[q]
      PROVE  RevokedInv'
  <2>1. UNCHANGED <<data, authorized, temporary, at, plan, handle, shared>>
    BY <1>4 DEF keyVars, fileVars, editVars
  <2>2. \A lines : Clear(lines) => Clear(lines)'
    BY <1>4, <2>1 DEF Clear
  <2>. QED  BY <1>4, <2>1, <2>2 DEF RevokedInv, RevocationsHold, Content, Without
<1>. QED  BY <1>0, <1>1, <1>2, <1>3, <1>4

LEMMA RevokedStep ==
  ASSUME KeysTypeOK, NodeTypeOK, EditorsInv, KeptInv, RevokedInv, [Next]_vars
  PROVE  RevokedInv'
<1>0. Starter \in Editors /\ Requests \subseteq Editors /\ Starter \notin Requests
  BY NodeAssumption
<1>1. ASSUME UNCHANGED <<keyVars, host, target, revoked>> PROVE RevokedInv'
  BY <1>1, RestClears
<1>2. CASE Start
  <2>1. CASE InstallTrust
    <3>1. PICK needed \in BOOLEAN : Begin(Starter, Installed(Content, OwnLine(host)), needed)
      BY <2>1 DEF InstallTrust, Install
    <3>2. UNCHANGED <<host, target, revoked>>
      BY <2>1 DEF InstallTrust, Ready, machineVars, historyVars
    <3>3. \A l \in Installed(Content, OwnLine(host)) \cap OwnLines :
            l \in Content \/ l.comment = host
      BY DEF Installed, OwnLine
    <3>. QED  BY <1>0, <3>1, <3>2, <3>3, BeginnerClears
  <2>2. CASE EditTrust
    <3>1. EditStep(Starter) /\ UNCHANGED <<host, target>>
          /\ revoked' = IF at'[Starter] = "changed" THEN revoked \ {host} ELSE revoked
      BY <2>2 DEF EditTrust, Ready, machineVars
    <3>2. CASE Replace(Starter) /\ at'[Starter] = "changed"
      BY <1>0, <3>1, <3>2, ReplacerClears
    <3>3. CASE ~Replace(Starter)
      <4>1. at'[Starter] # "changed"
        BY <1>0, <3>1, <3>3 DEF EditStep, Open, OpenFails, Write, WriteFails, Own, Unlink,
                                Leave, KeysTypeOK
      <4>. QED  BY <1>0, <3>1, <3>3, <4>1, WriterClears, LeaverClears DEF EditStep
    <3>4. CASE Replace(Starter) /\ at'[Starter] # "changed"
      BY <1>0, <3>1, <3>4, LeaverClears
    <3>. QED  BY <3>2, <3>3, <3>4
  <2>3. CASE TrustInstalled
    BY <2>3, RestClears DEF TrustInstalled, Ready, machineVars
  <2>4. CASE Boot \/ CreateFile \/ WriteFile \/ FileFails \/ CertificateRead \/ SecretRead
             \/ PairRead \/ RecordHostKeys \/ HostKeysWritten
    BY <1>1, <2>4 DEF Boot, CreateFile, WriteFile, FileFails, CertificateRead, SecretRead,
                      PairRead, Ready, RecordHostKeys, HostKeysWritten, machineVars, historyVars
  <2>. QED  BY <1>2, <2>1, <2>2, <2>3, <2>4 DEF Start
<1>3. ASSUME NEW r \in Requests, Serve(r) PROVE RevokedInv'
  <2>0. UNCHANGED host
    BY <1>3 DEF Serve, Ask, Revoke, Authenticate, Relations, RevokeMissing, EditRevoke,
                RevokeAnswers, Serving, machineVars
  <2>1. ASSUME NEW h \in Hosts, Revoke(r, h) PROVE RevokedInv'
    <3> DEFINE lines == Removed(Content, h)
               needed == lines # Content
    <3>1. Begin(r, lines, needed) /\ UNCHANGED revoked /\ target' = [target EXCEPT ![r] = h]
          /\ needed \in BOOLEAN
      BY <2>1 DEF Revoke, Remove
    <3>2. target'[r] = h /\ \A q \in Requests \ {r} : target'[q] = target[q]
      BY <3>1 DEF NodeTypeOK
    <3>3. (\A l \in lines \cap OwnLines : l \in Content) /\ Without(lines, h)
      BY DEF Removed, Without
    <3>. HIDE DEF lines, needed
    <3>. QED  BY <1>0, <2>0, <3>1, <3>2, <3>3, BeginnerClears
  <2>2. CASE EditRevoke(r)
    <3>1. EditStep(r) /\ UNCHANGED target
          /\ revoked' = IF at'[r] = "changed" /\ ~shared THEN revoked \cup {target[r]}
                        ELSE revoked
      BY <2>2 DEF EditRevoke
    <3>2. CASE Replace(r) /\ at'[r] = "changed"
      BY <1>0, <2>0, <3>1, <3>2, ReplacerClears
    <3>3. CASE ~Replace(r)
      <4>1. at'[r] # "changed"
        BY <1>0, <3>1, <3>3 DEF EditStep, Open, OpenFails, Write, WriteFails, Own, Unlink,
                                Leave, KeysTypeOK
      <4>. QED  BY <1>0, <2>0, <3>1, <3>3, <4>1, WriterClears, LeaverClears DEF EditStep
    <3>4. CASE Replace(r) /\ at'[r] # "changed"
      BY <1>0, <2>0, <3>1, <3>4, LeaverClears
    <3>. QED  BY <3>2, <3>3, <3>4
  <2>3. CASE RevokeAnswers(r)
    <3>1. Collect(r) /\ UNCHANGED revoked /\ \A q \in Requests \ {r} : target'[q] = target[q]
      BY <2>3 DEF RevokeAnswers, Reply, NodeTypeOK
    <3>. QED  BY <2>0, <3>1, RestClears
  <2>4. CASE Relations(r) \/ RevokeMissing(r)
    <3>1. UNCHANGED <<keyVars, revoked>> /\ \A q \in Requests \ {r} : target'[q] = target[q]
      BY <2>4 DEF Relations, RevokeMissing, Reply, NodeTypeOK
    <3>2. at[r] = "idle"
      BY <2>4 DEF Relations, RevokeMissing, EditorsInv, Editing
    <3>. QED  BY <2>0, <3>1, <3>2, RestClears
  <2>5. CASE Authenticate(r)
             \/ \E op \in Operations, cookie \in drawn \cup {NoCookie}, token \in BOOLEAN :
                  Ask(r, op, cookie, token)
    BY <1>1, <2>0, <2>5 DEF Authenticate, Ask
  <2>. QED  BY <1>3, <2>1, <2>2, <2>3, <2>4, <2>5 DEF Serve
<1>4. CASE \E id \in Ids : Tick(id)
  BY <1>1, <1>4 DEF Tick, Serving, machineVars
<1>5. CASE \E l \in SiteLines : SiteEdits(l)
  BY <1>5, RestClears DEF SiteEdits, machineVars, historyVars
<1>6. CASE Die
  BY <1>6, RestClears DEF Die
<1>7. CASE UNCHANGED vars
  BY <1>1, <1>7 DEF vars, machineVars, historyVars
<1>. QED  BY <1>2, <1>3, <1>4, <1>5, <1>6, <1>7 DEF Next

-----------------------------------------------------------------------------
(* What a start installed.                                                 *)

Current(lines, line) == {l \in lines \cap OwnLines : l.key = line.key} = {line}
NoOther(lines, line) == {l \in lines \cap OwnLines : l.key = line.key} \subseteq {line}

\* The file is current, or was emptied by an editor that is going to make it,
\* and has been appended to by the site at most.
Firm(i, line) ==
  \/ Current(data[i], line)
  \/ data[i] \cap OwnLines = {} /\ \E e \in Editors : at[e] = "opened" /\ handle[e] = i

\* Why what was installed stays.  No edit under way plans to drop the line, nor
\* writes after another line with its key; and what is renamed over the file is
\* one that some edit has written or is going to.
EditsCurrent(line) ==
  /\ \A e \in Editors : at[e] \in {"planned"} \cup Writing => Current(plan[e], line)
  /\ \A e \in Editors : at[e] \in Writing => NoOther(data[handle[e]], line)
  /\ temporary # NoInode /\ (\E e \in Editors : at[e] \in Writing) => Firm(temporary, line)

FileCurrent(line) == authorized # NoInode /\ Firm(authorized, line)

\* From the moment the start begins to install the relation.
Keeping == file["public"] = "full" /\ (provisioned \/ at[Starter] # "idle")

CurrentInv ==
  /\ provisioned => phase \in {"known_hosts", "up"} /\ file["public"] = "full"
  /\ Keeping /\ ~harmed =>
       /\ EditsCurrent(OwnLine(host))
       /\ provisioned \/ at[Starter] \in {"changed", "unchanged"} => FileCurrent(OwnLine(host))

LEMMA CurrentMeansInstalled ==
  ASSUME KeysTypeOK, KeptInv, CurrentInv
  PROVE  InstalledIsCurrent
<1>1. SUFFICES ASSUME provisioned, ~harmed, ~shared \/ Quiet
               PROVE  {l \in Content \cap OwnLines : l.key = "pair"} = {OwnLine(host)}
  BY DEF InstalledIsCurrent
<1>2. FileCurrent(OwnLine(host)) /\ OwnLine(host).key = "pair"
  BY <1>1 DEF CurrentInv, Keeping, OwnLine
<1>3. ASSUME NEW e \in Editors, at[e] = "opened", handle[e] = authorized PROVE FALSE
  BY <1>1, <1>2, <1>3 DEF FileCurrent, KeptInv, Quiet, UnderWay, Busy, Writing
<1>4. Current(Content, OwnLine(host))
  BY <1>2, <1>3 DEF FileCurrent, Firm, Content
<1>. QED  BY <1>2, <1>4 DEF Current

\* What an edit that leaves does not touch is as firm as it was.
LEMMA FirmStays ==
  ASSUME NEW line, NEW i, Firm(i, line), data'[i] = data[i],
         \A f \in Editors : at[f] = "opened" => at'[f] = "opened" /\ handle'[f] = handle[f]
  PROVE  Firm(i, line)'
  BY DEF Firm, Current

LEMMA WriterStaysCurrent ==
  ASSUME KeysTypeOK, KeptInv, NEW line \in OwnLines, EditsCurrent(line), ~harmed',
         NEW e \in Editors, Open(e) \/ Write(e) \/ WriteFails(e)
  PROVE  EditsCurrent(line)' /\ (FileCurrent(line) => FileCurrent(line)')
<1> USE DEF KeysTypeOK, UnderWay, Busy, Writing
<1>1. CASE Open(e)
  <2>1. PICK i \in Inodes :
          /\ IF temporary = NoInode
               THEN i # authorized /\ \A f \in Editors : handle[f] # i
               ELSE i = temporary
          /\ temporary' = i
          /\ data' = [data EXCEPT ![i] = {}]
          /\ handle' = [handle EXCEPT ![e] = i]
    BY <1>1 DEF Open
  <2>2. at[e] = "planned" /\ at' = [at EXCEPT ![e] = "opened"] /\ UNCHANGED <<authorized, plan>>
    BY <1>1 DEF Open
  <2>3. i # authorized
    BY <2>1, AuthorizedKeysAssumption DEF KeptInv
  <2>4. /\ \A f \in Editors \ {e} : at'[f] = at[f] /\ handle'[f] = handle[f]
        /\ at'[e] = "opened" /\ handle'[e] = i /\ data'[i] = {}
        /\ \A j \in Inodes \ {i} : data'[j] = data[j]
    BY <2>1, <2>2
  <2>5. Firm(i, line)'
    BY <2>4 DEF Firm
  <2>6. FileCurrent(line) => FileCurrent(line)'
    BY <2>2, <2>3, <2>4, FirmStays DEF FileCurrent
  <2>7. ASSUME NEW f \in Editors, at'[f] \in Writing PROVE NoOther(data'[handle'[f]], line)
    <3>1. CASE handle'[f] = i
      BY <2>4, <3>1 DEF NoOther
    <3>2. CASE handle'[f] # i
      BY <2>4, <2>7, <3>2 DEF EditsCurrent, KeptInv
    <3>. QED  BY <3>1, <3>2
  <2>8. \A f \in Editors : at'[f] \in {"planned"} \cup Writing => Current(plan'[f], line)
    BY <2>2 DEF EditsCurrent
  <2>. QED  BY <2>1, <2>5, <2>6, <2>7, <2>8 DEF EditsCurrent, NoOther, Current
<1>2. CASE Write(e)
  <2>1. PICK rest \in SUBSET data[handle[e]] :
          data' = [data EXCEPT ![handle[e]] = plan[e] \cup rest]
    BY <1>2 DEF Write
  <2>2. /\ at[e] = "opened" /\ at' = [at EXCEPT ![e] = "written"]
        /\ UNCHANGED <<authorized, temporary, plan, handle>>
    BY <1>2 DEF Write
  <2>3. handle[e] \in Inodes
    BY <2>2 DEF KeptInv
  <2>4. Current(data'[handle[e]], line)
    <3>1. Current(plan[e], line) /\ NoOther(rest, line)
      BY <2>2 DEF EditsCurrent, NoOther
    <3>2. data'[handle[e]] = plan[e] \cup rest
      BY <2>1, <2>3
    <3>. QED  BY <3>1, <3>2 DEF Current, NoOther
  <2>5. ASSUME NEW i \in Inodes, Firm(i, line) PROVE Firm(i, line)'
    <3>1. CASE i = handle[e]
      BY <2>4, <3>1 DEF Firm, Current
    <3>2. CASE i # handle[e]
      <4>1. data'[i] = data[i]
        BY <2>1, <3>2
      <4>. QED  BY <2>2, <2>5, <3>2, <4>1 DEF Firm, Current
    <3>. QED  BY <3>1, <3>2
  <2>6. ASSUME NEW f \in Editors, at'[f] \in Writing PROVE NoOther(data'[handle'[f]], line)
    <3>1. CASE handle[f] = handle[e]
      BY <2>2, <2>4, <3>1 DEF Current, NoOther
    <3>2. CASE handle[f] # handle[e]
      BY <2>1, <2>2, <2>6, <3>2 DEF EditsCurrent, KeptInv
    <3>. QED  BY <3>1, <3>2
  <2>7. \A f \in Editors : /\ at'[f] \in Writing <=> at[f] \in Writing
                           /\ at'[f] = "planned" <=> at[f] = "planned"
    BY <2>2
  <2>8. FileCurrent(line) => FileCurrent(line)'
    BY <2>2, <2>5 DEF FileCurrent
  <2>9. temporary' # NoInode /\ (\E f \in Editors : at'[f] \in Writing) => Firm(temporary, line)'
    BY <2>2, <2>5, <2>7 DEF EditsCurrent
  <2>10. \A f \in Editors : at'[f] \in {"planned"} \cup Writing => Current(plan'[f], line)
    BY <2>2, <2>7 DEF EditsCurrent
  <2>. QED  BY <2>6, <2>8, <2>9, <2>10 DEF EditsCurrent, NoOther, Current
<1>3. CASE WriteFails(e)
  <2>1. PICK part \in SUBSET plan[e] : data' = [data EXCEPT ![handle[e]] = part]
    BY <1>3 DEF WriteFails
  <2>2. /\ at[e] = "opened" /\ at' = [at EXCEPT ![e] = "failing"] /\ ~shared
        /\ UNCHANGED <<authorized, temporary, plan, handle>>
    BY <1>3 DEF WriteFails
  <2>3. \A f \in Editors \ {e} : at[f] \notin {"planned"} \cup Writing
    BY <2>2 DEF KeptInv
  <2>4. handle[e] # authorized
    BY <2>2, AuthorizedKeysAssumption DEF KeptInv
  <2>5. FileCurrent(line) => FileCurrent(line)'
    <3>1. data'[authorized] = data[authorized]
      BY <2>1, <2>4
    <3>. QED  BY <2>2, <2>3, <2>4, <3>1 DEF FileCurrent, Firm, Current
  <2>6. \A f \in Editors : at'[f] \notin {"planned"} \cup Writing
    BY <2>2, <2>3
  <2>. QED  BY <2>5, <2>6 DEF EditsCurrent
<1>. QED  BY <1>1, <1>2, <1>3

LEMMA LeaverStaysCurrent ==
  ASSUME KeysTypeOK, KeptInv, NEW line \in OwnLines, EditsCurrent(line),
         NEW e \in Editors, OpenFails(e) \/ Own(e) \/ Replace(e) \/ Unlink(e)
  PROVE  EditsCurrent(line)' /\ (FileCurrent(line) \/ at'[e] = "changed" => FileCurrent(line)')
<1> USE DEF KeysTypeOK, UnderWay, Busy, Writing
<1>1. CASE OpenFails(e)
  <2>1. Leave(e, "raised") /\ "raised" \in Over /\ at[e] = "planned" /\ UNCHANGED fileVars
    BY <1>1 DEF OpenFails, Over
  <2>2. /\ at'[e] = "raised"
        /\ \A f \in Editors \ {e} : at'[f] = at[f] /\ handle'[f] = handle[f] /\ plan'[f] = plan[f]
    BY <2>1, LeaveKept
  <2>3. \A i : Firm(i, line) => Firm(i, line)'
    BY <2>1, <2>2 DEF Firm, Current, fileVars
  <2>. QED  BY <2>1, <2>2, <2>3 DEF EditsCurrent, FileCurrent, NoOther, Current, fileVars
<1>2. CASE Own(e) \/ (Replace(e) /\ temporary = NoInode)
  <2>1. /\ at[e] \in {"written", "owned"} /\ at'[e] \in {"failing", "owned"}
        /\ \A f \in Editors \ {e} : at'[f] = at[f]
        /\ UNCHANGED <<fileVars, plan, handle>>
    BY <1>2 DEF Own, Replace
  <2>2. \A i : Firm(i, line) => Firm(i, line)'
    BY <2>1 DEF Firm, Current, fileVars
  <2>. QED  BY <2>1, <2>2 DEF EditsCurrent, FileCurrent, NoOther, Current, fileVars
<1>3. CASE (Replace(e) /\ temporary # NoInode) \/ Unlink(e)
  <2>1. /\ at[e] \in {"owned", "failing"} /\ temporary' = NoInode
        /\ \/ /\ at[e] = "owned" /\ authorized' = temporary /\ temporary # NoInode
              /\ Leave(e, "changed")
           \/ authorized' = authorized /\ Leave(e, "raised")
        /\ Reclaim
    BY <1>3 DEF Replace, Unlink
  <2>2. PICK outcome \in Over : Leave(e, outcome)
    BY <2>1 DEF Over
  <2>3. /\ at'[e] = outcome
        /\ \A f \in Editors \ {e} : at'[f] = at[f] /\ handle'[f] = handle[f] /\ plan'[f] = plan[f]
    BY <2>1, <2>2, LeaveKept
  <2>4. \A f \in Editors : at[f] = "opened" => at'[f] = "opened" /\ handle'[f] = handle[f]
    BY <2>1, <2>3
  <2>5. authorized' # NoInode => data'[authorized'] = data[authorized']
    BY <2>1 DEF Reclaim
  <2>6. ASSUME authorized' # NoInode, Firm(authorized', line) PROVE FileCurrent(line)'
    BY <2>4, <2>5, <2>6 DEF FileCurrent, Firm, Current
  <2>7. FileCurrent(line) \/ at'[e] = "changed" => authorized' # NoInode /\ Firm(authorized', line)
    <3>1. CASE at[e] = "owned" /\ authorized' = temporary /\ temporary # NoInode
      BY <3>1 DEF EditsCurrent
    <3>2. CASE authorized' = authorized /\ Leave(e, "raised")
      BY <3>2 DEF Leave, FileCurrent
    <3>. QED  BY <2>1, <3>1, <3>2
  <2>8. ASSUME NEW f \in Editors, at'[f] \in {"planned"} \cup Writing PROVE Current(plan'[f], line)
    BY <2>3, <2>8 DEF EditsCurrent, Over
  <2>9. ASSUME NEW f \in Editors, at'[f] \in Writing PROVE NoOther(data'[handle'[f]], line)
    <3>1. f # e /\ at[f] \in Writing /\ handle'[f] = handle[f] /\ handle[f] \in Inodes
      BY <2>3, <2>9 DEF Over, KeptInv
    <3>2. data'[handle[f]] = data[handle[f]]
      BY <2>1, <3>1 DEF Reclaim
    <3>. QED  BY <3>1, <3>2 DEF EditsCurrent
  <2>. QED  BY <2>1, <2>6, <2>7, <2>8, <2>9 DEF EditsCurrent, NoOther, Current
<1>. QED  BY <1>1, <1>2, <1>3

LEMMA RemoverStaysCurrent ==
  ASSUME KeysTypeOK, KeptInv, NEW line \in OwnLines, EditsCurrent(line), FileCurrent(line),
         NEW r \in Requests, NEW h \in Hosts, h # line.comment, Remove(r, h)
  PROVE  EditsCurrent(line)' /\ FileCurrent(line)'
<1> USE DEF KeysTypeOK, Writing
<1> DEFINE needed == Removed(Content, h) # Content
<1>1. Begin(r, Removed(Content, h), needed) /\ r \in Editors
  BY NodeAssumption DEF Remove
<1>2. at[r] = "idle" /\ UNCHANGED <<data, authorized, temporary>>
  BY <1>1 DEF Begin, fileVars
<1>3. \A f \in Editors \ {r} : at'[f] = at[f] /\ handle'[f] = handle[f] /\ plan'[f] = plan[f]
  BY <1>1 DEF Begin, Leave
<1>4. \/ at'[r] = "planned" /\ plan'[r] = Removed(Content, h) /\ needed
      \/ at'[r] = "unchanged"
  BY <1>1 DEF Begin, Leave
<1>5. \A i : Firm(i, line) => Firm(i, line)'
  BY <1>2, <1>3 DEF Firm, Current
<1>6. ASSUME needed PROVE Current(Removed(Content, h), line)
  <2>1. Content \cap OwnLines # {} /\ Content = data[authorized]
    BY <1>6 DEF Removed, FileCurrent, Content
  <2>2. Current(Content, line)
    BY <2>1 DEF FileCurrent, Firm
  <2>. QED  BY <2>2 DEF Current, Removed
<1>7. \A f \in Editors : at'[f] \in {"planned"} \cup Writing => Current(plan'[f], line)
  BY <1>3, <1>4, <1>6 DEF EditsCurrent
<1>8. \A f \in Editors : at'[f] \in Writing => f # r /\ at[f] \in Writing
  BY <1>3, <1>4
<1>. QED  BY <1>2, <1>3, <1>5, <1>7, <1>8 DEF EditsCurrent, FileCurrent, NoOther, Current

LEMMA RestStaysCurrent ==
  ASSUME KeysTypeOK, KeptInv, NEW line \in OwnLines, EditsCurrent(line), ~harmed',
         \/ \E e \in Editors : Collect(e)
         \/ \E l \in SiteLines : SiteAppends(l)
         \/ UNCHANGED keyVars
  PROVE  EditsCurrent(line)' /\ (FileCurrent(line) => FileCurrent(line)')
<1> USE DEF KeysTypeOK, Writing
<1>1. ASSUME NEW e \in Editors, Collect(e)
      PROVE  EditsCurrent(line)' /\ (FileCurrent(line) => FileCurrent(line)')
  <2>1. /\ at[e] \in Over /\ at'[e] = "idle" /\ \A f \in Editors \ {e} : at'[f] = at[f]
        /\ UNCHANGED <<fileVars, plan, handle>>
    BY <1>1 DEF Collect
  <2>2. \A i : Firm(i, line) => Firm(i, line)'
    BY <2>1 DEF Firm, Current, fileVars, Over
  <2>. QED  BY <2>1, <2>2 DEF EditsCurrent, FileCurrent, NoOther, Current, fileVars
<1>2. ASSUME NEW l \in SiteLines, SiteAppends(l)
      PROVE  EditsCurrent(line)' /\ (FileCurrent(line) => FileCurrent(line)')
  <2>1. /\ authorized # NoInode /\ data' = [data EXCEPT ![authorized] = @ \cup {l}]
        /\ UNCHANGED <<authorized, temporary, at, plan, handle>>
    BY <1>2 DEF SiteAppends, editVars
  <2>2. l \notin OwnLines
    BY AuthorizedKeysAssumption
  <2>3. \A i \in Inodes : data'[i] \cap OwnLines = data[i] \cap OwnLines
    BY <2>1, <2>2
  <2>4. \A i \in Inodes : Firm(i, line) => Firm(i, line)'
    BY <2>1, <2>3 DEF Firm, Current
  <2>5. \A e \in Editors : at[e] \in Writing => NoOther(data'[handle[e]], line)
    BY <2>3 DEF EditsCurrent, NoOther, KeptInv
  <2>. QED  BY <2>1, <2>4, <2>5 DEF EditsCurrent, FileCurrent, NoOther, Current
<1>3. CASE UNCHANGED keyVars
  BY <1>3 DEF keyVars, fileVars, editVars, EditsCurrent, FileCurrent, Firm, NoOther, Current
<1>. QED  BY <1>1, <1>2, <1>3

LEMMA InstallMakesCurrent ==
  ASSUME KeysTypeOK, NEW line \in OwnLines, line.key = "pair", Quiet, Install(Starter, line)
  PROVE  /\ EditsCurrent(line)'
         /\ at'[Starter] \in {"changed", "unchanged"} => FileCurrent(line)'
<1> USE DEF KeysTypeOK, Writing
<1>1. PICK needed \in BOOLEAN : /\ Installed(Content, line) # Content => needed
                                /\ Begin(Starter, Installed(Content, line), needed)
  BY DEF Install
<1>2. Starter \in Editors /\ UNCHANGED <<data, authorized, temporary>>
  BY <1>1, NodeAssumption DEF Begin, fileVars
<1>3. \A f \in Editors \ {Starter} : at'[f] \notin {"planned"} \cup Writing
  BY <1>1 DEF Begin, Leave, Quiet, UnderWay, Busy
<1>4. \/ at'[Starter] = "planned" /\ plan'[Starter] = Installed(Content, line)
      \/ at'[Starter] = "unchanged" /\ Installed(Content, line) = Content
  BY <1>1, <1>2 DEF Begin, Leave
<1>5. Current(Installed(Content, line), line)
  <2>1. \A l \in Installed(Content, line) \cap OwnLines : l.key = line.key => l = line
    BY DEF Installed, Blob
  <2>. QED  BY <2>1 DEF Installed, Current
<1>6. EditsCurrent(line)'
  BY <1>2, <1>3, <1>4, <1>5 DEF EditsCurrent, Current
<1>7. ASSUME at'[Starter] = "unchanged" PROVE FileCurrent(line)'
  <2>1. Current(Content, line) /\ Content # {}
    BY <1>4, <1>5, <1>7 DEF Installed
  <2>2. authorized # NoInode /\ Content = data[authorized]
    BY <2>1 DEF Content
  <2>. QED  BY <1>2, <2>1, <2>2 DEF FileCurrent, Firm, Current
<1>. QED  BY <1>4, <1>6, <1>7

\* A request touches no edit but its own.
LEMMA StarterStaysIdle ==
  ASSUME KeysTypeOK, NEW r \in Requests, Serve(r), at[Starter] = "idle"
  PROVE  at'[Starter] = "idle"
<1>0. Starter \in Editors /\ r # Starter /\ r \in Editors
  BY NodeAssumption
<1>1. CASE EditRevoke(r)
  BY <1>0, <1>1 DEF EditRevoke, EditStep, Open, OpenFails, Write, WriteFails, Own, Replace,
                    Unlink, Leave, KeysTypeOK
<1>2. CASE RevokeAnswers(r)
  BY <1>0, <1>2 DEF RevokeAnswers, Collect, KeysTypeOK
<1>3. ASSUME NEW h \in Hosts, Revoke(r, h) PROVE at'[Starter] = "idle"
  BY <1>0, <1>3 DEF Revoke, Remove, Begin, Leave, KeysTypeOK
<1>4. CASE UNCHANGED keyVars
  BY <1>4 DEF keyVars, editVars
<1>. QED  BY <1>1, <1>2, <1>3, <1>4 DEF Serve, Ask, Authenticate, Relations, RevokeMissing

\* Outside the step that begins the installation, what the line says does not
\* change while it is kept.
LEMMA KeepingStays ==
  ASSUME KeysTypeOK, FilesInv, EditorsInv, CurrentInv, [Next]_vars, ~InstallTrust, Keeping'
  PROVE  Keeping /\ UNCHANGED <<file, host, address>>
<1>0. Starter \in Editors /\ \A r \in Requests : r # Starter /\ r \in Editors
  BY NodeAssumption
<1> USE DEF Keeping
<1>1. CASE Start
  <2>1. CASE Boot \/ CreateFile \/ WriteFile \/ FileFails
    <3>1. /\ UNCHANGED <<at, provisioned>>
          /\ phase = "down" \/ todo # <<>>
      BY <2>1 DEF Boot, CreateFile, WriteFile, FileFails, keyVars, editVars, historyVars
    <3>2. phase \notin {"trust", "known_hosts", "up"}
      BY <3>1 DEF FilesInv
    <3>. QED  BY <3>1, <3>2 DEF CurrentInv, EditorsInv
  <2>2. CASE CertificateRead \/ SecretRead \/ PairRead \/ RecordHostKeys \/ HostKeysWritten
    BY <2>2 DEF CertificateRead, SecretRead, PairRead, RecordHostKeys, HostKeysWritten, Ready,
                keyVars, editVars, historyVars, machineVars
  <2>3. CASE EditTrust
    <3>1. at[Starter] # "idle"
      BY <2>3 DEF EditTrust, EditStep, Open, OpenFails, Write, WriteFails, Own, Replace, Unlink
    <3>. QED  BY <2>3, <3>1 DEF EditTrust, Ready, machineVars
  <2>4. CASE TrustInstalled
    <3>1. at[Starter] # "idle"
      BY <2>4 DEF TrustInstalled, Collect, Over
    <3>. QED  BY <2>4, <3>1 DEF TrustInstalled, Ready, machineVars
  <2>. QED  BY <1>1, <2>1, <2>2, <2>3, <2>4 DEF Start
<1>2. ASSUME NEW r \in Requests, Serve(r) PROVE Keeping /\ UNCHANGED <<file, host, address>>
  <2>1. Serving
    BY <1>2 DEF Serve, Ask, Authenticate, Relations, Revoke, RevokeMissing, EditRevoke,
                RevokeAnswers
  <2>2. UNCHANGED <<file, host, address>> /\ at[Starter] = "idle"
    BY <2>1 DEF Serving, startVars, machineVars, EditorsInv
  <2>3. provisioned' => provisioned
    BY <1>2 DEF Serve, Ask, Authenticate, Relations, Revoke, RevokeMissing, EditRevoke,
                RevokeAnswers
  <2>4. at'[Starter] = "idle"
    BY <1>2, <2>2, StarterStaysIdle
  <2>. QED  BY <2>2, <2>3, <2>4
<1>3. CASE \E id \in Ids : Tick(id)
  BY <1>3 DEF Tick, Serving, startVars, machineVars, keyVars, editVars
<1>4. CASE \E l \in SiteLines : SiteEdits(l)
  BY <1>4 DEF SiteEdits, SiteAppends, startVars, machineVars, historyVars, editVars
<1>5. CASE Die
  BY <1>0, <1>5 DEF Die, KeysCrash
<1>6. CASE UNCHANGED vars
  BY <1>6 DEF vars, startVars, machineVars, historyVars, keyVars, editVars
<1>. QED  BY <1>1, <1>2, <1>3, <1>4, <1>5, <1>6 DEF Next

LEMMA EditStaysCurrent ==
  ASSUME KeysTypeOK, KeptInv, NEW line \in OwnLines, EditsCurrent(line), ~harmed',
         NEW e \in Editors, EditStep(e)
  PROVE  /\ EditsCurrent(line)' /\ at'[e] # "unchanged"
         /\ FileCurrent(line) \/ at'[e] = "changed" => FileCurrent(line)'
<1>1. CASE Open(e) \/ Write(e) \/ WriteFails(e)
  <2>1. at'[e] \in {"opened", "written", "failing"}
    BY <1>1 DEF Open, Write, WriteFails, KeysTypeOK
  <2>. QED  BY <1>1, <2>1, WriterStaysCurrent
<1>2. CASE OpenFails(e) \/ Own(e) \/ Replace(e) \/ Unlink(e)
  <2>1. at'[e] # "unchanged"
    BY <1>2 DEF OpenFails, Own, Replace, Unlink, Leave, KeysTypeOK
  <2>. QED  BY <1>2, <2>1, LeaverStaysCurrent
<1>. QED  BY <1>1, <1>2 DEF EditStep

LEMMA KeepingStaysCurrent ==
  ASSUME KeysTypeOK, NodeTypeOK, FilesInv, EditorsInv, KeptInv, CurrentInv, [Next]_vars,
         ~InstallTrust, Keeping', ~harmed'
  PROVE  /\ EditsCurrent(OwnLine(host))'
         /\ (provisioned \/ at[Starter] \in {"changed", "unchanged"} => FileCurrent(OwnLine(host)))'
<1>0. /\ Starter \in Editors /\ \A r \in Requests : r # Starter /\ r \in Editors
      /\ Keeping /\ UNCHANGED <<file, host, address>>
  BY KeepingStays, NodeAssumption
<1>1. KeysStep
  BY KeysActions
<1>2. ~harmed
  BY <1>1 DEF KeysStep, EditStep, Open, OpenFails, Write, WriteFails, Own, Replace, Unlink,
              Collect, Install, Remove, Begin, SiteAppends, KeysCrash, keyVars
<1>3. PICK line \in OwnLines : line = OwnLine(host)
  BY OwnLineType
<1>4. OwnLine(host)' = line
  BY <1>0, <1>3 DEF OwnLine
<1>5. /\ EditsCurrent(line)
      /\ provisioned \/ at[Starter] \in {"changed", "unchanged"} => FileCurrent(line)
  BY <1>0, <1>2, <1>3 DEF CurrentInv
<1> DEFINE Goal == /\ EditsCurrent(line)'
                   /\ provisioned' \/ at'[Starter] \in {"changed", "unchanged"}
                        => FileCurrent(line)'
<1>6. SUFFICES Goal
  BY <1>4 DEF EditsCurrent, FileCurrent, Firm, Current, NoOther
<1>7. CASE UNCHANGED keyVars /\ (provisioned' => provisioned)
  BY <1>5, <1>7, RestStaysCurrent DEF keyVars, editVars
<1>8. CASE Start
  <2>1. CASE EditTrust
    <3>1. EditStep(Starter) /\ provisioned' = provisioned
      BY <2>1 DEF EditTrust
    <3>. QED  BY <1>0, <1>5, <3>1, EditStaysCurrent
  <2>2. CASE TrustInstalled
    <3>1. /\ Collect(Starter) /\ at'[Starter] = "idle" /\ at[Starter] \in Over
          /\ provisioned' => at[Starter] # "raised"
      BY <1>0, <2>2 DEF TrustInstalled, Collect, KeysTypeOK
    <3>2. EditsCurrent(line)' /\ (FileCurrent(line) => FileCurrent(line)')
      BY <1>0, <1>5, <3>1, RestStaysCurrent
    <3>. QED  BY <1>5, <3>1, <3>2 DEF Over
  <2>3. CASE Boot \/ CreateFile \/ WriteFile \/ FileFails \/ CertificateRead
             \/ SecretRead \/ PairRead \/ RecordHostKeys \/ HostKeysWritten
    <3>1. UNCHANGED keyVars /\ (provisioned' => provisioned)
      BY <2>3 DEF Boot, CreateFile, WriteFile, FileFails, CertificateRead, SecretRead,
                  PairRead, RecordHostKeys, HostKeysWritten, historyVars
    <3>. QED  BY <1>7, <3>1
  <2>. QED  BY <1>8, <2>1, <2>2, <2>3 DEF Start
<1>9. ASSUME NEW r \in Requests, Serve(r) PROVE Goal
  <2>1. Serving
    BY <1>9 DEF Serve, Ask, Authenticate, Relations, Revoke, RevokeMissing, EditRevoke,
                RevokeAnswers
  <2>2. at[Starter] = "idle" /\ at'[Starter] = "idle"
    BY <1>9, <2>1, StarterStaysIdle DEF Serving, startVars, EditorsInv
  <2>3. FileCurrent(line) /\ provisioned'
    BY <1>0, <1>5, <2>2 DEF Keeping
  <2>4. CASE EditRevoke(r)
    <3>1. EditStep(r)
      BY <2>4 DEF EditRevoke
    <3>. QED  BY <1>0, <1>5, <2>3, <3>1, EditStaysCurrent
  <2>5. CASE RevokeAnswers(r)
    <3>1. Collect(r)
      BY <2>5 DEF RevokeAnswers
    <3>. QED  BY <1>0, <1>5, <2>3, <3>1, RestStaysCurrent
  <2>6. ASSUME NEW h \in Hosts, Revoke(r, h) PROVE Goal
    <3>1. Remove(r, h) /\ h # line.comment
      BY <1>3, <2>3, <2>6 DEF Revoke, OwnLine
    <3>. QED  BY <1>5, <2>3, <3>1, RemoverStaysCurrent
  <2>7. CASE UNCHANGED keyVars
    BY <1>5, <2>3, <2>7, RestStaysCurrent
  <2>. QED  BY <1>9, <2>4, <2>5, <2>6, <2>7
            DEF Serve, Ask, Authenticate, Relations, RevokeMissing
<1>10. CASE \E id \in Ids : Tick(id)
  BY <1>7, <1>10 DEF Tick
<1>11. ASSUME NEW l \in SiteLines, SiteEdits(l) PROVE Goal
  <2>1. SiteAppends(l) /\ provisioned' = provisioned /\ at' = at
    BY <1>11 DEF SiteEdits, SiteAppends, historyVars, editVars
  <2>. QED  BY <1>5, <2>1, RestStaysCurrent
<1>12. CASE Die
  BY <1>0, <1>12 DEF Die, KeysCrash, Keeping
<1>13. CASE UNCHANGED vars
  BY <1>7, <1>13 DEF vars, historyVars
<1>. QED  BY <1>8, <1>9, <1>10, <1>11, <1>12, <1>13 DEF Next

LEMMA ProvisionedStep ==
  ASSUME FilesInv, CurrentInv, [Next]_vars, provisioned'
  PROVE  phase' \in {"known_hosts", "up"} /\ file'["public"] = "full"
<1>1. CASE Start
  <2>1. CASE TrustInstalled
    BY <2>1 DEF TrustInstalled, Ready, Enter
  <2>2. CASE EditTrust \/ InstallTrust \/ CertificateRead \/ SecretRead \/ PairRead
    BY <2>2 DEF EditTrust, InstallTrust, CertificateRead, SecretRead, PairRead, Ready,
                historyVars, CurrentInv
  <2>3. CASE Boot \/ CreateFile \/ WriteFile \/ FileFails
    BY <2>3 DEF Boot, CreateFile, WriteFile, FileFails, historyVars, CurrentInv, FilesInv
  <2>4. CASE RecordHostKeys \/ HostKeysWritten
    BY <2>4 DEF RecordHostKeys, HostKeysWritten, Enter, CurrentInv
  <2>. QED  BY <1>1, <2>1, <2>2, <2>3, <2>4 DEF Start
<1>2. ASSUME NEW r \in Requests, Serve(r)
      PROVE  phase' \in {"known_hosts", "up"} /\ file'["public"] = "full"
  BY <1>2 DEF Serve, Ask, Authenticate, Relations, Revoke, RevokeMissing, EditRevoke,
              RevokeAnswers, Serving, startVars, CurrentInv
<1>3. CASE (\E id \in Ids : Tick(id)) \/ (\E l \in SiteLines : SiteEdits(l))
  BY <1>3 DEF Tick, SiteEdits, Serving, startVars, historyVars, CurrentInv
<1>4. CASE Die \/ UNCHANGED vars
  BY <1>4 DEF Die, vars, startVars, historyVars, CurrentInv
<1>. QED  BY <1>1, <1>2, <1>3, <1>4 DEF Next

LEMMA CurrentStep ==
  ASSUME KeysTypeOK, NodeTypeOK, FilesInv, EditorsInv, KeptInv, CurrentInv, [Next]_vars
  PROVE  CurrentInv'
<1>1. CASE ~InstallTrust
  BY <1>1, ProvisionedStep, KeepingStaysCurrent DEF CurrentInv
<1>2. CASE InstallTrust
  <2>1. /\ phase = "trust" /\ Install(Starter, OwnLine(host)) /\ at[Starter] = "idle"
        /\ UNCHANGED <<file, host, address, provisioned>>
    BY <1>2 DEF InstallTrust, Ready, machineVars, historyVars, Install, Begin
  <2>2. Quiet
    <3>1. \A e \in Editors : at[e] = "idle"
      BY <2>1, NodeAssumption DEF EditorsInv, Editing
    <3>. QED  BY <3>1 DEF Quiet, UnderWay, Busy, Writing
  <2>3. ~provisioned'
    BY <2>1 DEF CurrentInv
  <2>4. PICK line \in OwnLines : line = OwnLine(host)
    BY OwnLineType
  <2>5. OwnLine(host)' = line
    BY <2>1, <2>4 DEF OwnLine
  <2>6. ASSUME Keeping'
        PROVE  /\ EditsCurrent(line)'
               /\ at'[Starter] \in {"changed", "unchanged"} => FileCurrent(line)'
    <3>1. line.key = "pair"
      BY <2>1, <2>4, <2>6 DEF Keeping, OwnLine
    <3>. QED  BY <2>1, <2>2, <2>4, <3>1, InstallMakesCurrent
  <2>. QED  BY <2>3, <2>5, <2>6
            DEF CurrentInv, EditsCurrent, FileCurrent, Firm, Current, NoOther
<1>. QED  BY <1>1, <1>2

-----------------------------------------------------------------------------
(* The theorems.                                                           *)

NInv ==
  /\ KeysTypeOK /\ SessionsTypeOK /\ NodeTypeOK
  /\ FilesInv /\ EditorsInv /\ SessionInv
  /\ KeptInv /\ EditInv /\ RevokedInv /\ CurrentInv /\ HostKeysCurrent

LEMMA InitNInv == Init => NInv
<1>1. SUFFICES ASSUME Init PROVE NInv
  OBVIOUS
<1>2. KeysTypeOK
  <2>1. PICK former \in SUBSET {l \in OwnLines : l.key = "former"} :
          data = [i \in Inodes |-> IF i = authorized THEN site \cup former ELSE {}]
    BY <1>1 DEF Init, KeysInit
  <2>2. data \in [Inodes -> SUBSET Lines] /\ site \subseteq SiteLines
    BY <1>1, <2>1 DEF Init, KeysInit, Lines
  <2>. QED  BY <1>1, <2>2 DEF Init, KeysInit, KeysTypeOK
<1>3. SessionsTypeOK /\ SessionInv
  BY <1>1 DEF Init, SessionsInit, SessionsTypeOK, SessionInv, Told, NoCall, Calls, Operations,
              Stages, Drops
<1>4. NodeTypeOK
  <2>1. <<>> \in Seq(Files)
    OBVIOUS
  <2>2. /\ file \in [Files -> {"absent", "empty", "full"}]
        /\ target \in [Requests -> Hosts \cup {"none"}]
    BY <1>1 DEF Init
  <2>3. restarts \in 0..MaxRestarts /\ asked \in 0..MaxRequests
    BY <1>1, NodeAssumption DEF Init
  <2>4. /\ todo \in Seq(Files) /\ creating \in BOOLEAN /\ known \subseteq Names
        /\ revoked \subseteq Hosts /\ phase \in Phases
    BY <1>1, <2>1 DEF Init, Phases
  <2>. QED  BY <1>1, <2>2, <2>3, <2>4 DEF Init, NodeTypeOK
<1>5. FilesInv /\ EditorsInv /\ HostKeysCurrent
  BY <1>1, NodeAssumption DEF Init, KeysInit, FilesInv, EditorsInv, HostKeysCurrent, Files,
                              Present
<1>6. KeptInv
  <2>1. authorized # NoInode => site \subseteq data[authorized]
    BY <1>1 DEF Init, KeysInit
  <2>. QED  BY <1>1, <2>1 DEF Init, KeysInit, KeptInv, Sound, Read, Content,
                                   Behind, Writing, UnderWay, Busy
<1>7. RevokedInv
  BY <1>1, NodeAssumption DEF Init, KeysInit, RevokedInv, RevocationsHold, UnderWay, Busy, Writing
<1>8. EditInv
  BY <1>1 DEF Init, KeysInit, EditInv, Behind, Writing
<1>9. CurrentInv
  BY <1>1, NodeAssumption DEF Init, KeysInit, CurrentInv, Keeping
<1>. QED  BY <1>2, <1>3, <1>4, <1>5, <1>6, <1>7, <1>8, <1>9 DEF NInv

LEMMA NextNInv == NInv /\ [Next]_vars => NInv'
<1>1. SUFFICES ASSUME NInv, [Next]_vars PROVE NInv'
  OBVIOUS
<1>2. KeysStep /\ SessionStep
  BY <1>1, KeysActions, SessionActions DEF NInv
<1>3. KeysTypeOK' /\ SessionsTypeOK' /\ NodeTypeOK'
  BY <1>1, <1>2, KeysStepTypes, SessionStepTypes, NodeStepTypes DEF NInv
<1>4. FilesInv' /\ EditorsInv' /\ HostKeysCurrent'
  BY <1>1, FilesStep, EditorsStep, HostKeysStep DEF NInv
<1>5. SessionInv'
  BY <1>1, <1>2, <1>3, SessionStepKeeps DEF NInv
<1>6. KeptInv' /\ EditInv' /\ RevokedInv'
  BY <1>1, <1>2, KeysStepKeeps, KeysStepWhole, RevokedStep DEF NInv
<1>7. CurrentInv'
  BY <1>1, CurrentStep DEF NInv
<1>. QED  BY <1>3, <1>4, <1>5, <1>6, <1>7 DEF NInv

LEMMA NodeInvariance == Spec => []NInv
  BY InitNInv, NextNInv, PTL DEF Spec

\* Every variable keeps its type; in particular what is called revoked is the
\* name of a machine, whichever request revoked it.
THEOREM NodeTypeCorrect == Spec => []TypeOK
<1>1. NInv => TypeOK
  BY DEF NInv, NodeTypeOK, TypeOK
<1>. QED  BY <1>1, NodeInvariance, PTL

\* The lines of the site survive every edit of authorized_keys (_write) that
\* read them, any crash of it, and edits that overlap, whatever they share; what
\* the site appends between an edit's reading and its rename does not, and
\* nothing is said once an edit has failed while edits overlapped.
THEOREM SiteKept == Spec => []SiteLinesKept
<1>1. NInv => SiteLinesKept
  BY KeptMeansKept DEF NInv
<1>. QED  BY <1>1, NodeInvariance, PTL

\* What was revoked alone (authorized_keys.remove) stays revoked until a start
\* installs it again, with any number of edits and failures in between.
THEOREM Revoked == Spec => []RevocationsHold
<1>1. NInv => RevocationsHold
  BY DEF NInv, RevokedInv
<1>. QED  BY <1>1, NodeInvariance, PTL

\* Edits that read, write and rename implement edits that are made at once, of
\* the file as it was read (authorized_keys._write), except where edits overlap,
\* for any number of editors, files and lines.
THEOREM TrustFileImplemented == Spec => ImplementsTrustFile
<1>1. Init => File!Init
  BY InitNInv, ContentType DEF NInv, Init, KeysInit, File!Init
<1>2. NInv /\ NInv' /\ [Next]_vars => [File!Next]_(File!vars)
  BY KeysActions, FileSteps DEF NInv
<1>. QED  BY <1>1, <1>2, NodeInvariance, PTL DEF Spec, ImplementsTrustFile, File!Spec

\* What a start installed is what sshd reads (authorized_keys.install), after a
\* rename or a move, and through later edits that overlap, as long as none of
\* those fails.
THEOREM Installs == Spec => []InstalledIsCurrent
<1>1. NInv => InstalledIsCurrent
  BY CurrentMeansInstalled DEF NInv
<1>. QED  BY <1>1, NodeInvariance, PTL

\* A node whose files were made without interruption starts and reports its
\* trust (ensure_key_pair, ensure_tls_material, TrustService.relations).
THEOREM UntornServes == Spec => []UntornNodeServes
<1>1. NInv => UntornNodeServes
  BY FilesMeanServes DEF NInv
<1>. QED  BY <1>1, NodeInvariance, PTL

\* A service that answers records its host key under the machine's names as
\* they are (known_hosts.ensure_local).
THEOREM HostKeysHold == Spec => []HostKeysCurrent
<1>1. NInv => HostKeysCurrent
  BY DEF NInv
<1>. QED  BY <1>1, NodeInvariance, PTL

\* Only a request with the token of an administrator's session edits the keys
\* (CsrfMiddleware, require_admin), for any number of requests that expire,
\* delete and create sessions around it.
THEOREM OnlyGenuineEdits == Spec => []OnlyGenuineRequestsEdit
<1>1. NInv => OnlyGenuineRequestsEdit
  BY DEF NInv, EditorsInv, Editing, SessionInv, Told, OnlyGenuineRequestsEdit
<1>. QED  BY <1>1, NodeInvariance, PTL

\* A request whose session lives never meets the KeyError of a second deletion
\* (SessionStore.get, _purge).
THEOREM LiveSessionsUnhurt == Spec => []LiveSessionsNeverErr
<1>1. NInv => LiveSessionsNeverErr
  BY DEF NInv, SessionInv, Told, LiveSessionsNeverErr
<1>. QED  BY <1>1, NodeInvariance, PTL

=============================================================================
