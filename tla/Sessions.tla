------------------------------ MODULE Sessions ------------------------------
(***************************************************************************)
(* Registration, login, token refresh and logout of the auth module over   *)
(* the tables users and refresh_tokens.                                    *)
(*                                                                         *)
(* RefreshTokenRepository.transaction opens a transaction and then ignores *)
(* the connection it is given: revokeByTokenHash and insert run on the     *)
(* plain pool, each on a connection of its own and committed by itself,    *)
(* while the transaction only occupies one more connection.                *)
(*                                                                         *)
(* Creating a user is the subject of UserRegistration; here it is one step *)
(* with the outcomes that module shows.  An operator X_Y is a mutant of X. *)
(***************************************************************************)
EXTENDS FiniteSets, Integers

CONSTANTS
  Users, Tokens, Calls,
  None,            \* no token, no user
  PoolSize,        \* connections of the database pool
  Faults           \* what may fail: statements, the process

ASSUME PoolAssumption == PoolSize \in Nat \ {0}
ASSUME FaultsAssumption == Faults \subseteq {"query", "crash"}
ASSUME NoneAssumption == None \notin Users \cup Tokens

VARIABLES
  user,       \* the users row of each user
  status,     \* the refresh_tokens row of each token
  owner,      \* its userId
  parent,     \* the token it replaced, if a refresh issued it
  call        \* the executions of the four services

vars == <<user, status, owner, parent, call>>

Ops == {"register", "login", "refresh", "logout"}
Outcomes == {"ok", "refused", "threw", "lost"}
Ats == {"idle", "found", "verified", "open", "revoked", "issuing", "issued"} \cup Outcomes

\* "loggedOut" is a row revoked by revokeByUserId, "revoked" one revoked by
\* revokeByTokenHash; "gone" one deleted with its user.
TokenStates == {"free", "valid", "revoked", "loggedOut", "expired", "gone"}

TypeOK ==
  /\ user \in [Users -> {"absent", "present", "removed"}]
  /\ status \in [Tokens -> TokenStates]
  /\ owner \in [Tokens -> Users \cup {None}]
  /\ parent \in [Tokens -> Tokens \cup {None}]
  /\ call \in [Calls -> [op : Ops, at : Ats, user : Users,
                         old : Tokens \cup {None}, new : Tokens \cup {None}]]

Init ==
  /\ user = [u \in Users |-> "absent"]
  /\ status = [t \in Tokens |-> "free"]
  /\ owner = [t \in Tokens |-> None]
  /\ parent = [t \in Tokens |-> None]
  /\ call \in [Calls -> [op : Ops, at : {"idle"}, user : Users, old : {None}, new : {None}]]

-----------------------------------------------------------------------------
Go(c, at) == call' = [call EXCEPT ![c].at = at]
tables == <<user, status, owner, parent>>

\* A rotation's transaction keeps a connection that none of its statements use.
InRotation == {"open", "revoked", "issued"}
ConnectionFree == Cardinality({c \in Calls : call[c].at \in InRotation}) < PoolSize
GivesUp_Never == FALSE
GivesUp == ~ConnectionFree

\* The tokens a client can present: those some call returned to it.
Delivered == {call[c].new : c \in {d \in Calls : call[d].at = "ok"}} \ {None}

\* An access token comes with each of them and is checked by its signature and
\* age alone: it outlives the refresh token, and even the user.
Authenticated(u) == \E t \in Delivered : owner[t] = u

AfterRevoke_Nothing(s) == s
AfterRevoke(s) == IF s = "valid" THEN "revoked" ELSE s

-----------------------------------------------------------------------------
\* The first statement of a service finds no connection in time or fails.
FirstStepFails(c) ==
  /\ call[c].at = "idle"
  /\ call[c].op = "logout" => Authenticated(call[c].user)
  /\ GivesUp \/ "query" \in Faults
  /\ Go(c, "threw")
  /\ UNCHANGED tables

(* RegisterService.execute up to generateTokens: CreateUserCommand answers *)
(* with an id, for which there may be no row when a listener's error was   *)
(* swallowed, or with an error.                                            *)
Register(c) ==
  /\ call[c].op = "register" /\ call[c].at = "idle" /\ ConnectionFree
  /\ LET u == call[c].user IN
     \/ /\ user[u] = "absent"
        /\ user' = [user EXCEPT ![u] = "present"]
        /\ Go(c, "issuing")
     \/ /\ user[u] = "absent" /\ "query" \in Faults
        /\ Go(c, "issuing") /\ UNCHANGED user
     \/ /\ user[u] # "absent"
        /\ Go(c, "refused") /\ UNCHANGED user
  /\ UNCHANGED <<status, owner, parent>>

\* verify: the password is the one that was hashed, or not.
PasswordMatches == BOOLEAN

\* LoginService.execute up to generateTokens.  findOneByEmail uses pool.one,
\* which throws when there is no row.
Login(c) ==
  /\ call[c].op = "login" /\ call[c].at = "idle" /\ ConnectionFree
  /\ IF user[call[c].user] = "present"
     THEN \E verified \in PasswordMatches : Go(c, IF verified THEN "issuing" ELSE "refused")
     ELSE Go(c, "threw")
  /\ UNCHANGED tables

\* revokeByUserId.
RevokedByUser(u) == [t \in Tokens |-> IF owner[t] = u /\ status[t] = "valid"
                                     THEN "loggedOut" ELSE status[t]]

\* Logout, alone among the routes, is not @Public: the user is the one that
\* the access token names.
Logout(c) ==
  /\ call[c].op = "logout" /\ call[c].at = "idle" /\ ConnectionFree
  /\ Authenticated(call[c].user)
  /\ status' = RevokedByUser(call[c].user)
  /\ Go(c, "ok")
  /\ UNCHANGED <<user, owner, parent>>

\* The guard: no access token, or one whose time is over.
Unauthorized(c) ==
  /\ call[c].op = "logout" /\ call[c].at = "idle"
  /\ Go(c, "refused")
  /\ UNCHANGED tables

-----------------------------------------------------------------------------
(* RefreshTokenService.execute.                                            *)

\* findByTokenHash: neither revoked nor expired.
FindToken(c) ==
  /\ call[c].op = "refresh" /\ call[c].at = "idle" /\ ConnectionFree
  /\ \E t \in Delivered :
       IF status[t] = "valid"
       THEN call' = [call EXCEPT ![c].at = "found", ![c].old = t, ![c].user = owner[t]]
       ELSE Go(c, "refused")
  /\ UNCHANGED tables

FindUser(c) ==
  /\ call[c].at = "found" /\ ConnectionFree
  /\ Go(c, IF user[call[c].user] = "present" THEN "verified" ELSE "refused")
  /\ UNCHANGED tables

BeginRotation(c) ==
  /\ call[c].at = "verified" /\ ConnectionFree
  /\ Go(c, "open")
  /\ UNCHANGED tables

\* revokeByTokenHash does not look whether the token is still valid.
Revoke(c) ==
  /\ call[c].at = "open" /\ ConnectionFree
  /\ status' = [status EXCEPT ![call[c].old] = AfterRevoke(@)]
  /\ Go(c, "revoked")
  /\ UNCHANGED <<user, owner, parent>>

\* TokenService.generateTokens; the foreign key needs the user's row.
Issue(c) ==
  LET u == call[c].user IN
  /\ call[c].at \in {"issuing", "revoked"} /\ ConnectionFree
  /\ user[u] = "present"
  /\ \E t \in {s \in Tokens : status[s] = "free"} :
       /\ status' = [status EXCEPT ![t] = "valid"]
       /\ owner' = [owner EXCEPT ![t] = u]
       /\ parent' = [parent EXCEPT ![t] = call[c].old]
       /\ call' = [call EXCEPT ![c].new = t,
                               ![c].at = IF @ = "revoked" THEN "issued" ELSE "ok"]
  /\ UNCHANGED user

IssueViolatesKey(c) ==
  /\ call[c].at \in {"issuing", "revoked"} /\ ConnectionFree
  /\ user[call[c].user] # "present"
  /\ Go(c, "threw")
  /\ UNCHANGED tables

\* COMMIT of the empty transaction, and the answer.
EndRotation(c) ==
  /\ call[c].at = "issued"
  /\ Go(c, "ok")
  /\ UNCHANGED tables

\* A step finds no connection in time or its statement fails: the service
\* throws.  The ROLLBACK of a rotation undoes nothing.
StepFails(c) ==
  /\ call[c].at \in {"found", "verified", "open", "revoked", "issuing"}
  /\ GivesUp \/ "query" \in Faults
  /\ Go(c, "threw")
  /\ UNCHANGED tables

-----------------------------------------------------------------------------
(* The rest of the system.                                                 *)

\* DeleteUserService; refresh_tokens."userId" is ON DELETE CASCADE.
Cascade_None(u) == status
Cascade(u) == [t \in Tokens |-> IF owner[t] = u THEN "gone" ELSE status[t]]

DeleteUser(u) ==
  /\ user[u] = "present"
  /\ user' = [user EXCEPT ![u] = "removed"]
  /\ status' = Cascade(u)
  /\ UNCHANGED <<owner, parent, call>>

\* Seven days pass.
Expire(t) ==
  /\ status[t] = "valid"
  /\ status' = [status EXCEPT ![t] = "expired"]
  /\ UNCHANGED <<user, owner, parent, call>>

InFlight(c) == call[c].at \notin {"idle"} \cup Outcomes
Crash ==
  /\ "crash" \in Faults
  /\ \E c \in Calls : InFlight(c)
  /\ call' = [c \in Calls |-> IF InFlight(c) THEN [call[c] EXCEPT !.at = "lost"] ELSE call[c]]
  /\ UNCHANGED tables

-----------------------------------------------------------------------------
Serve(c) ==
  \/ FindUser(c) \/ BeginRotation(c) \/ Revoke(c) \/ Issue(c) \/ IssueViolatesKey(c)
  \/ EndRotation(c) \/ StepFails(c)

Next ==
  \/ \E c \in Calls : Register(c) \/ Login(c) \/ Logout(c) \/ Unauthorized(c)
                       \/ FindToken(c) \/ FirstStepFails(c) \/ Serve(c)
  \/ \E u \in Users : DeleteUser(u)
  \/ \E t \in Tokens : Expire(t)
  \/ Crash

Spec == Init /\ [][Next]_vars

\* Calls need not arrive; the event loop carries on one that did, and an
\* acquisition gets a connection or times out.  No fault is relied upon.
Proceeds(c) ==
  \/ FindUser(c) \/ BeginRotation(c) \/ Revoke(c) \/ Issue(c) \/ IssueViolatesKey(c)
  \/ EndRotation(c)
  \/ GivesUp /\ StepFails(c)

FairSpec == Spec /\ \A c \in Calls : WF_vars(Proceeds(c))

-----------------------------------------------------------------------------
(* Properties.                                                             *)

\* A token and the one that replaced it are never valid together, although
\* the two statements of a rotation are separate commits: the old token is
\* revoked before the new one is inserted, and nothing makes it valid again.
OneGenerationValid ==
  \A t \in Tokens : parent[t] # None => status[parent[t]] # "valid"

\* A valid token belongs to a user that exists, also when the user is deleted
\* between the lookups of a login or refresh and its insert.
ValidTokenHasUser ==
  \A t \in Tokens : status[t] = "valid" => owner[t] # None /\ user[owner[t]] = "present"

\* The inductive strengthening of the two: rows that were never inserted have
\* neither owner nor parent nor child, and a rotation that goes on to insert
\* has already revoked its token.
Lineage ==
  /\ \A t \in Tokens : status[t] = "free" =>
       /\ owner[t] = None /\ parent[t] = None
       /\ \A s \in Tokens : parent[s] # t
       /\ \A c \in Calls : call[c].old # t
  /\ \A c \in Calls : call[c].at \in {"revoked", "issued"} =>
       call[c].old # None /\ status[call[c].old] # "valid"
  /\ \A c \in Calls : call[c].at \in {"found", "verified", "open"} => call[c].old # None
  /\ \A c \in Calls : call[c].at \in {"idle", "issuing"} => call[c].old = None
  /\ \A c \in Calls : call[c].op # "refresh" => call[c].old = None

IInv == TypeOK /\ Lineage /\ OneGenerationValid /\ ValidTokenHasUser

\* A refresh that found its token is eventually answered, although every
\* rotation holds one connection while it waits for a second.
RefreshAnswered ==
  \A c \in Calls : call[c].at = "found" ~> call[c].at \in Outcomes
=============================================================================
