------------------------------ MODULE Sessions ------------------------------
(***************************************************************************)
(* The session table, which every request of the service reads and which   *)
(* login, logout and the expiry of a session change, on threads of a pool  *)
(* and in the middleware, without a lock.  A request passes the middleware *)
(* and the dependency of its route; what its handler does is its caller's. *)
(*                                                                         *)
(* The cookie is the identifier itself: its signature, and the random      *)
(* draws, are taken to be what they are for.  Passwords and groups are a   *)
(* choice of the environment, and the role goes with the identifier.       *)
(***************************************************************************)
EXTENDS Naturals

CONSTANTS
  Requests,   \* threads of the pool
  Ids,        \* bound: identifiers that may be drawn
  Admins,     \* the identifiers of administrators' sessions
  NoCookie

ASSUME SessionsAssumption == Admins \subseteq Ids /\ NoCookie \notin Ids

VARIABLES
  table,      \* the identifiers in the dictionary
  expired,    \* those whose time has passed
  drawn,      \* those that were given out
  stage,      \* where each request is
  call,       \* what it asks: operation, cookie, and whether its token is right
  doomed      \* what its purge found expired and has not deleted

sessionVars == <<table, expired, drawn, stage, call, doomed>>

Operations == {"login", "logout", "relations", "revoke"}
Unsafe     == {"login", "logout", "revoke"}
Lookups    == {"csrf", "role", "logout"}
Drops      == {"csrf_drop", "role_drop", "logout_drop"}
Stages == {"idle", "login", "purge", "handler", "key_error"} \cup Lookups \cup Drops

Calls == [op : Operations, cookie : Ids \cup {NoCookie}, token : BOOLEAN]
NoCall == [op |-> "relations", cookie |-> NoCookie, token |-> FALSE]

SessionsInit ==
  /\ table = {} /\ expired = {} /\ drawn = {}
  /\ stage = [r \in Requests |-> "idle"]
  /\ call = [r \in Requests |-> NoCall]
  /\ doomed = [r \in Requests |-> {}]

SessionsTypeOK ==
  /\ table \subseteq drawn /\ expired \subseteq drawn /\ drawn \subseteq Ids
  /\ stage \in [Requests -> Stages]
  /\ call \in [Requests -> Calls]
  /\ doomed \in [Requests -> SUBSET drawn]

-----------------------------------------------------------------------------
Goto(r, s) == stage' = [stage EXCEPT ![r] = s]

\* The answer is sent; nothing of the request stays.
Answer(r) ==
  /\ Goto(r, "idle")
  /\ call' = [call EXCEPT ![r] = NoCall]
  /\ doomed' = [doomed EXCEPT ![r] = {}]

\* What the route does first.
Route(op) == CASE op = "login"  -> "login"
               [] op = "logout" -> "logout"
               [] OTHER         -> "role"

\* Mutant: the middleware looks at login and logout only.
SendUnlooked(r, op, cookie, token) ==
  /\ stage[r] = "idle"
  /\ token => op \in Unsafe /\ cookie # NoCookie
  /\ call' = [call EXCEPT ![r] = [op |-> op, cookie |-> cookie, token |-> token]]
  /\ Goto(r, IF op \in {"login", "logout"} /\ cookie # NoCookie THEN "csrf"
             ELSE Route(op))
  /\ UNCHANGED <<table, expired, drawn, doomed>>

\* The middleware looks only at unsafe methods that carry a cookie; nothing
\* looks at the token of another.
Send(r, op, cookie, token) ==
  /\ stage[r] = "idle"
  /\ token => op \in Unsafe /\ cookie # NoCookie
  /\ call' = [call EXCEPT ![r] = [op |-> op, cookie |-> cookie, token |-> token]]
  /\ Goto(r, IF op \in Unsafe /\ cookie # NoCookie THEN "csrf" ELSE Route(op))
  /\ UNCHANGED <<table, expired, drawn, doomed>>

\* What the lookup of each stage does with the session it found.
Found(r) ==
  CASE stage[r] = "csrf" ->
         /\ IF call[r].token
              THEN Goto(r, Route(call[r].op)) /\ UNCHANGED <<call, doomed>>
              ELSE Answer(r)
         /\ UNCHANGED table
    [] stage[r] = "role" ->
         /\ IF call[r].op = "relations" \/ call[r].cookie \in Admins
              THEN Goto(r, "handler") /\ UNCHANGED <<call, doomed>>
              ELSE Answer(r)
         /\ UNCHANGED table
    [] stage[r] = "logout" ->
         /\ table' = table \ {call[r].cookie}
         /\ Answer(r)

\* Mutant: the route is called by the name of the operation.
NotFoundByName(r) ==
  IF stage[r] \in {"csrf", "csrf_drop"}
    THEN Goto(r, call[r].op) /\ UNCHANGED <<call, doomed>>
    ELSE Answer(r)

\* What it does without one: the middleware lets the request pass.
NotFound(r) ==
  IF stage[r] \in {"csrf", "csrf_drop"}
    THEN Goto(r, Route(call[r].op)) /\ UNCHANGED <<call, doomed>>
    ELSE Answer(r)

\* Mutant: the comparison with the clock is the other way round.
LookupInverted(r) ==
  /\ stage[r] \in Lookups
  /\ LET id == call[r].cookie
     IN IF id \notin table
          THEN NotFound(r) /\ UNCHANGED table
          ELSE IF id \in expired
            THEN Found(r)
            ELSE /\ Goto(r, CASE stage[r] = "csrf" -> "csrf_drop"
                              [] stage[r] = "role" -> "role_drop"
                              [] stage[r] = "logout" -> "logout_drop")
                 /\ UNCHANGED <<table, call, doomed>>
  /\ UNCHANGED <<expired, drawn>>

\* SessionStore.get, up to the deletion of an expired session.
Lookup(r) ==
  /\ stage[r] \in Lookups
  /\ LET id == call[r].cookie
     IN IF id \notin table
          THEN NotFound(r) /\ UNCHANGED table
          ELSE IF id \notin expired
            THEN Found(r)
            ELSE /\ Goto(r, CASE stage[r] = "csrf" -> "csrf_drop"
                              [] stage[r] = "role" -> "role_drop"
                              [] stage[r] = "logout" -> "logout_drop")
                 /\ UNCHANGED <<table, call, doomed>>
  /\ UNCHANGED <<expired, drawn>>

\* The deletion raises when another request was faster.
Drop(r) ==
  /\ stage[r] \in Drops
  /\ LET id == call[r].cookie
     IN IF id \in table
          THEN table' = table \ {id} /\ NotFound(r)
          ELSE Goto(r, "key_error") /\ UNCHANGED <<table, call, doomed>>
  /\ UNCHANGED <<expired, drawn>>

\* login: a wrong password, or no group, is answered at once.
LoginRefused(r) ==
  /\ stage[r] = "login"
  /\ Answer(r)
  /\ UNCHANGED <<table, expired, drawn>>

\* create, and the list its purge goes through.
LoginCreates(r, id) ==
  /\ stage[r] = "login" /\ id \notin drawn
  /\ table' = table \cup {id}
  /\ drawn' = drawn \cup {id}
  /\ doomed' = [doomed EXCEPT ![r] = table \cap expired]
  /\ Goto(r, "purge")
  /\ UNCHANGED <<expired, call>>

Purge(r, id) ==
  /\ stage[r] = "purge" /\ id \in doomed[r]
  /\ IF id \in table
       THEN /\ table' = table \ {id}
            /\ doomed' = [doomed EXCEPT ![r] = @ \ {id}]
            /\ UNCHANGED stage
       ELSE Goto(r, "key_error") /\ UNCHANGED <<table, doomed>>
  /\ UNCHANGED <<expired, drawn, call>>

LoginAnswers(r) ==
  /\ stage[r] = "purge" /\ doomed[r] = {}
  /\ Answer(r)
  /\ UNCHANGED <<table, expired, drawn>>

\* Nothing catches the exception: the client is answered with a 500.
ErrorAnswered(r) ==
  /\ stage[r] = "key_error"
  /\ Answer(r)
  /\ UNCHANGED <<table, expired, drawn>>

\* The clock passes the end of a session.
Expire(id) ==
  /\ id \in drawn \ expired
  /\ expired' = expired \cup {id}
  /\ UNCHANGED <<table, drawn, stage, call, doomed>>

RequestStep(r) ==
  \/ Lookup(r) \/ Drop(r) \/ LoginRefused(r) \/ LoginAnswers(r) \/ ErrorAnswered(r)
  \/ \E id \in Ids : LoginCreates(r, id) \/ Purge(r, id)

\* Sessions are memory: the process takes them with it.
SessionsCrash ==
  /\ table' = {}
  /\ stage' = [r \in Requests |-> "idle"]
  /\ call' = [r \in Requests |-> NoCall]
  /\ doomed' = [r \in Requests |-> {}]
  /\ UNCHANGED <<expired, drawn>>

=============================================================================
