--------------------------- MODULE AuthorizedKeys ---------------------------
(***************************************************************************)
(* Editing the authorized_keys of an account that belongs to somebody      *)
(* else: read the lines, open a temporary file whose name every edit       *)
(* shares, write, set its mode, rename it over the target.  Editors are    *)
(* the start of the service, which installs a line, and the requests,      *)
(* which remove one; nothing serialises them.                              *)
(*                                                                         *)
(* A file is the set of its lines: their order, which an edit keeps, and   *)
(* their text are abstracted.  A name leads to an inode, because an editor *)
(* that opened the temporary file goes on writing to it after another has  *)
(* renamed it.  Mode and owner are not modelled.                           *)
(***************************************************************************)
EXTENDS Naturals, FiniteSets

CONSTANTS
  Editors,     \* who may edit: the start of the service, and requests
  Hosts,       \* names the machine may have, one comment each
  Addresses,   \* addresses it may have, for the from= clause
  SiteLines,   \* lines that are not the service's
  Inodes, NoInode

\* The key of the pair, that of a pair this machine had before, or none when
\* the public half was empty as the line was rendered.
Keys == {"pair", "former", "blank"}
OwnLines == [comment : Hosts, key : Keys, from : Addresses]
Lines == SiteLines \cup OwnLines

ASSUME AuthorizedKeysAssumption ==
  SiteLines \cap OwnLines = {} /\ NoInode \notin Inodes

VARIABLES
  data,        \* the lines of each inode
  authorized,  \* the inode authorized_keys names, if any
  temporary,   \* the inode .authorized_keys.seapath-webui names, if any
  at,          \* where each editor is in its edit
  plan,        \* the lines it is going to write
  handle,      \* the inode it opened
  site,        \* history: the lines of the site the service answers for
  missed,      \* history: those the site appended since an edit under way read
  shared,      \* history: two of the edits under way have overlapped
  harmed       \* history: a failure met edits that overlapped

fileVars == <<data, authorized, temporary>>
editVars == <<at, plan, handle>>
siteVars == <<site, missed>>
keyVars  == <<fileVars, editVars, siteVars, shared, harmed>>

Writing == {"opened", "written", "owned"}
Busy    == {"planned", "failing"} \cup Writing
Over    == {"changed", "unchanged", "raised"}

UnderWay(e) == at[e] \in Busy
Quiet == \A e \in Editors : ~UnderWay(e)
Others(e) == \E f \in Editors \ {e} : UnderWay(f)

\* It has read the file and may still rename over it.
Behind(e) == at[e] \in {"planned"} \cup Writing

Content == IF authorized = NoInode THEN {} ELSE data[authorized]

Blob(line) == IF line.key = "blank" THEN {} ELSE {line.key}

\* Mutant: a line that carries the key under another name is kept.
InstalledByComment(lines, line) ==
  {l \in lines : l \notin OwnLines \/ l.comment # line.comment} \cup {line}

\* What install keeps of a file, and the line it ends it with.
Installed(lines, line) ==
  {l \in lines : l \notin OwnLines
                   \/ (l.comment # line.comment /\ line.key \notin Blob(l))}
    \cup {line}

Removed(lines, comment) ==
  {l \in lines : l \notin OwnLines \/ l.comment # comment}

\* The file as the image left it, with what an earlier life of the service
\* may have left in it, or no file at all.
KeysInit ==
  /\ authorized \in Inodes \cup {NoInode}
  /\ site \in SUBSET SiteLines /\ (authorized = NoInode => site = {})
  /\ \E former \in SUBSET {l \in OwnLines : l.key = "former"} :
       /\ Cardinality(former) <= 1
       /\ data = [i \in Inodes |-> IF i = authorized THEN site \cup former ELSE {}]
  /\ temporary = NoInode
  /\ at = [e \in Editors |-> "idle"]
  /\ plan = [e \in Editors |-> {}]
  /\ handle = [e \in Editors |-> NoInode]
  /\ missed = {} /\ shared = FALSE /\ harmed = FALSE

KeysTypeOK ==
  /\ data \in [Inodes -> SUBSET Lines]
  /\ authorized \in Inodes \cup {NoInode}
  /\ temporary \in Inodes \cup {NoInode}
  /\ at \in [Editors -> {"idle"} \cup Busy \cup Over]
  /\ plan \in [Editors -> SUBSET Lines]
  /\ handle \in [Editors -> Inodes \cup {NoInode}]
  /\ site \subseteq SiteLines /\ missed \subseteq SiteLines
  /\ shared \in BOOLEAN /\ harmed \in BOOLEAN

-----------------------------------------------------------------------------
\* An inode without a name and without a handle is gone, and its lines are.
Reclaim ==
  data' = [i \in Inodes |->
             IF i \in {authorized', temporary'} \cup {handle'[e] : e \in Editors}
               THEN data[i] ELSE {}]

\* Once no edit is under way, the lines that were appended behind one and are
\* gone are lost: the service no longer answers for them.  For those that are
\* still there it does, and for every other line.
Forgive ==
  /\ site' = site \ (missed \ Content')
  /\ missed' = {}

Settle(e) == IF Others(e) THEN UNCHANGED siteVars ELSE Forgive

\* The edits that overlap are over when the last of them is.
Leave(e, outcome) ==
  /\ at' = [at EXCEPT ![e] = outcome]
  /\ plan' = [plan EXCEPT ![e] = {}]
  /\ handle' = [handle EXCEPT ![e] = NoInode]
  /\ shared' = (shared /\ Others(e))

\* _read, and the lines the edit is going to write; a file that needs none
\* is left alone.  An own line that is not the last one is moved to the end,
\* so an installation that changes no line may still write.
Begin(e, lines, needed) ==
  /\ at[e] = "idle"
  /\ IF needed
       THEN /\ at' = [at EXCEPT ![e] = "planned"]
            /\ plan' = [plan EXCEPT ![e] = lines]
            /\ shared' = (shared \/ Others(e))
            /\ UNCHANGED handle
       ELSE Leave(e, "unchanged")
  /\ UNCHANGED <<fileVars, siteVars, harmed>>

Install(e, line) ==
  LET lines == Installed(Content, line)
  IN \E needed \in BOOLEAN : (lines # Content => needed) /\ Begin(e, lines, needed)

Remove(e, comment) ==
  LET lines == Removed(Content, comment)
  IN Begin(e, lines, lines # Content)

\* Mutant: without O_TRUNC, what a crash left in the temporary file stays.
OpenKeeping(e) ==
  /\ at[e] = "planned"
  /\ \E i \in Inodes :
       /\ IF temporary = NoInode
            THEN i # authorized /\ \A f \in Editors : handle[f] # i
            ELSE i = temporary
       /\ temporary' = i
       /\ handle' = [handle EXCEPT ![e] = i]
  /\ at' = [at EXCEPT ![e] = "opened"]
  /\ UNCHANGED <<data, authorized, plan, siteVars, shared, harmed>>

\* os.open with O_CREAT and O_TRUNC: a temporary file that is there already,
\* left by a crash or open in another editor, is emptied and shared.
Open(e) ==
  /\ at[e] = "planned"
  /\ \E i \in Inodes :
       /\ IF temporary = NoInode
            THEN i # authorized /\ \A f \in Editors : handle[f] # i
            ELSE i = temporary
       /\ temporary' = i
       /\ data' = [data EXCEPT ![i] = {}]
       /\ handle' = [handle EXCEPT ![e] = i]
  /\ at' = [at EXCEPT ![e] = "opened"]
  /\ UNCHANGED <<authorized, plan, siteVars, shared, harmed>>

\* A failure to open raises before the handler that unlinks.
OpenFails(e) ==
  /\ at[e] = "planned"
  /\ Leave(e, "raised")
  /\ UNCHANGED <<fileVars, harmed>>
  /\ Settle(e)

\* The write and the fsync.  Two editors of one inode both start at offset
\* 0: what the first wrote past the end of the second's text stays.
Write(e) ==
  /\ at[e] = "opened"
  /\ \E rest \in SUBSET data[handle[e]] :
       data' = [data EXCEPT ![handle[e]] = plan[e] \cup rest]
  /\ at' = [at EXCEPT ![e] = "written"]
  /\ UNCHANGED <<authorized, temporary, plan, handle, siteVars, shared, harmed>>

\* Mutant: the exception of the write is swallowed.
WriteFailsUnseen(e) ==
  /\ at[e] = "opened"
  /\ \E part \in SUBSET plan[e] : data' = [data EXCEPT ![handle[e]] = part]
  /\ at' = [at EXCEPT ![e] = "written"]
  /\ harmed' = (harmed \/ shared)
  /\ UNCHANGED <<authorized, temporary, plan, handle, siteVars, shared>>

\* A full disk: part of the text is there, and the handler unlinks.
WriteFails(e) ==
  /\ at[e] = "opened"
  /\ \E part \in SUBSET plan[e] : data' = [data EXCEPT ![handle[e]] = part]
  /\ at' = [at EXCEPT ![e] = "failing"]
  /\ harmed' = (harmed \/ shared)
  /\ UNCHANGED <<authorized, temporary, plan, handle, siteVars, shared>>

\* chmod and chown go by name, and find none once another editor renamed it.
Own(e) ==
  /\ at[e] = "written"
  /\ at' = [at EXCEPT ![e] = IF temporary = NoInode THEN "failing" ELSE "owned"]
  /\ UNCHANGED <<fileVars, plan, handle, siteVars, shared, harmed>>

\* os.replace goes by name too: it may move what another editor opened.
Replace(e) ==
  /\ at[e] = "owned"
  /\ IF temporary = NoInode
       THEN /\ at' = [at EXCEPT ![e] = "failing"]
            /\ UNCHANGED <<fileVars, plan, handle, siteVars, shared>>
       ELSE /\ authorized' = temporary
            /\ temporary' = NoInode
            /\ Leave(e, "changed")
            /\ Reclaim
            /\ Settle(e)
  /\ UNCHANGED harmed

\* Mutant: the name is moved over the target whatever happened before.
UnlinkReplaces(e) ==
  /\ at[e] = "failing"
  /\ authorized' = IF temporary = NoInode THEN authorized ELSE temporary
  /\ temporary' = NoInode
  /\ Leave(e, "raised")
  /\ UNCHANGED <<data, harmed>>
  /\ Settle(e)

\* The handler of OSError: unlink the name, whoever opened it, and raise.
Unlink(e) ==
  /\ at[e] = "failing"
  /\ temporary' = NoInode
  /\ Leave(e, "raised")
  /\ UNCHANGED <<authorized, harmed>>
  /\ Reclaim
  /\ Settle(e)

EditStep(e) ==
  \/ Open(e) \/ OpenFails(e) \/ Write(e) \/ WriteFails(e)
  \/ Own(e) \/ Replace(e) \/ Unlink(e)

\* The caller has its answer.
Collect(e) ==
  /\ at[e] \in Over
  /\ at' = [at EXCEPT ![e] = "idle"]
  /\ UNCHANGED <<fileVars, plan, handle, siteVars, shared, harmed>>

\* The site appends a line of its own.  An edit that has read the file and has
\* yet to rename knows nothing of it, and its rename takes it away.
SiteAppends(l) ==
  /\ authorized # NoInode /\ l \notin Content
  /\ site' = site \cup {l}
  /\ data' = [data EXCEPT ![authorized] = @ \cup {l}]
  /\ missed' = IF \E e \in Editors : Behind(e) THEN missed \cup {l} ELSE missed
  /\ UNCHANGED <<authorized, temporary, editVars, shared, harmed>>

\* The process dies: its handles close, the names stay.
KeysCrash ==
  /\ at' = [e \in Editors |-> "idle"]
  /\ plan' = [e \in Editors |-> {}]
  /\ handle' = [e \in Editors |-> NoInode]
  /\ shared' = FALSE
  /\ harmed' = (harmed \/ shared)
  /\ UNCHANGED <<authorized, temporary>>
  /\ Reclaim
  /\ Forgive

=============================================================================
