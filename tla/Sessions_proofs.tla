--------------------------- MODULE Sessions_proofs ---------------------------
(***************************************************************************)
(* Proofs about Sessions, for any number of users, tokens, calls and       *)
(* connections and any set of faults.                                      *)
(***************************************************************************)
EXTENDS Sessions, TLAPS

USE DEF Ops, Outcomes, Ats, TokenStates, tables

LEMMA InvInit == Init => IInv
  BY NoneAssumption DEF Init, IInv, TypeOK, Lineage, OneGenerationValid, ValidTokenHasUser

(* One step per action; the tokens' tables and the calls are disturbed     *)
(* together only by Issue, which starts a row nothing refers to yet.       *)
LEMMA InvStep == IInv /\ [Next]_vars => IInv'
<1> SUFFICES ASSUME IInv, [Next]_vars PROVE IInv'
  OBVIOUS
<1> USE NoneAssumption DEF IInv, TypeOK, Lineage, OneGenerationValid, ValidTokenHasUser
<1>1. ASSUME NEW c \in Calls, Register(c) PROVE IInv'
  BY <1>1 DEF Register, Go
<1>2. ASSUME NEW c \in Calls, Login(c) PROVE IInv'
  <2>1. PICK at \in {"issuing", "refused", "threw"} : Go(c, at)
    BY <1>2 DEF Login, PasswordMatches
  <2>2. /\ UNCHANGED tables /\ call[c].op = "login"
        /\ call[c].at = "idle" /\ call[c].old = None
    BY <1>2 DEF Login, PasswordMatches
  <2>3. /\ call' \in [Calls -> [op : Ops, at : Ats, user : Users,
                                old : Tokens \cup {None}, new : Tokens \cup {None}]]
        /\ \A d \in Calls \ {c} : call'[d] = call[d]
        /\ call'[c].at = at /\ call'[c].old = call[c].old /\ call'[c].op = call[c].op
    BY <2>1 DEF Go
  <2>4. TypeOK' /\ OneGenerationValid' /\ ValidTokenHasUser'
    BY <2>2, <2>3
  <2>5. Lineage'
    <3>1. \A d \in Calls : call'[d].old = call[d].old /\ call'[d].op = call[d].op
      BY <2>3
    <3>2. \A d \in Calls : call'[d].at = call[d].at \/ (d = c /\ call'[d].at = at)
      BY <2>3
    <3>3. UNCHANGED tables /\ call[c].old = None /\ at \in {"issuing", "refused", "threw"}
      BY <2>2
    <3> QED
      BY <3>1, <3>2, <3>3
  <2> QED
    BY <2>4, <2>5
<1>3. ASSUME NEW c \in Calls, Logout(c) PROVE IInv'
  BY <1>3 DEF Logout, RevokedByUser, Go
<1>4. ASSUME NEW c \in Calls, FindToken(c) PROVE IInv'
  <2>1. CASE Go(c, "refused")
    BY <1>4, <2>1 DEF FindToken, Go
  <2>2. ASSUME NEW t \in Tokens, status[t] = "valid",
               call' = [call EXCEPT ![c].at = "found", ![c].old = t, ![c].user = owner[t]]
        PROVE  IInv'
    <3>1. owner[t] \in Users /\ call[c].op = "refresh" /\ UNCHANGED tables
      BY <1>4, <2>2 DEF FindToken
    <3>2. /\ call' \in [Calls -> [op : Ops, at : Ats, user : Users,
                                  old : Tokens \cup {None}, new : Tokens \cup {None}]]
          /\ \A d \in Calls \ {c} : call'[d] = call[d]
          /\ call'[c].at = "found" /\ call'[c].old = t /\ call'[c].op = "refresh"
      <4>1. c \in Calls /\ call[c] \in [op : Ops, at : Ats, user : Users,
                                       old : Tokens \cup {None}, new : Tokens \cup {None}]
        OBVIOUS
      <4>2. call' = [call EXCEPT ![c] = [call[c] EXCEPT !.at = "found", !.old = t, !.user = owner[t]]]
        BY <2>2, Zenon
      <4> QED
        BY <3>1, <4>1, <4>2
    <3> QED
      BY <2>2, <3>1, <3>2
  <2>3. Delivered \subseteq Tokens
    BY DEF Delivered
  <2> QED
    BY <1>4, <2>1, <2>2, <2>3 DEF FindToken
<1>5. ASSUME NEW c \in Calls, FindUser(c) PROVE IInv'
  BY <1>5 DEF FindUser, Go
<1>6. ASSUME NEW c \in Calls, BeginRotation(c) PROVE IInv'
  BY <1>6 DEF BeginRotation, Go
<1>7. ASSUME NEW c \in Calls, Revoke(c) PROVE IInv'
  <2>1. call[c].old \in Tokens /\ call[c].at = "open" /\ status[call[c].old] # "free"
    BY <1>7 DEF Revoke
  <2>2. \A t \in Tokens :
          \/ status'[t] = status[t]
          \/ status[t] = "valid" /\ status'[t] = "revoked"
    BY <1>7, <2>1 DEF Revoke, AfterRevoke
  <2>3. status' \in [Tokens -> TokenStates] /\ status'[call[c].old] # "valid"
    BY <1>7, <2>1 DEF Revoke, AfterRevoke
  <2>4. UNCHANGED <<user, owner, parent>> /\ call' = [call EXCEPT ![c].at = "revoked"]
    BY <1>7 DEF Revoke, Go
  <2> QED
    BY <2>1, <2>2, <2>3, <2>4
<1>8. ASSUME NEW c \in Calls, Issue(c) PROVE IInv'
  BY <1>8 DEF Issue, Go
<1>9. ASSUME NEW c \in Calls, IssueViolatesKey(c) PROVE IInv'
  BY <1>9 DEF IssueViolatesKey, Go
<1>10. ASSUME NEW c \in Calls, EndRotation(c) PROVE IInv'
  BY <1>10 DEF EndRotation, Go
<1>11. ASSUME NEW c \in Calls, StepFails(c) PROVE IInv'
  BY <1>11 DEF StepFails, Go
<1>12. ASSUME NEW u \in Users, DeleteUser(u) PROVE IInv'
  BY <1>12 DEF DeleteUser, Cascade
<1>13. ASSUME NEW t \in Tokens, Expire(t) PROVE IInv'
  BY <1>13 DEF Expire
<1>14. CASE Crash
  BY <1>14 DEF Crash, InFlight
<1>15. ASSUME NEW c \in Calls, FirstStepFails(c) PROVE IInv'
  BY <1>15 DEF FirstStepFails, Go
<1>16. ASSUME NEW c \in Calls, Unauthorized(c) PROVE IInv'
  BY <1>16 DEF Unauthorized, Go
<1>17. CASE UNCHANGED vars
  BY <1>17 DEF vars
<1> QED
  BY <1>1, <1>2, <1>3, <1>4, <1>5, <1>6, <1>7, <1>8, <1>9, <1>10, <1>11, <1>12, <1>13, <1>14,
     <1>15, <1>16, <1>17 DEF Next, Serve

(* Types and lineage hold in every reachable state.                        *)
THEOREM Invariant == Spec => []IInv
<1> QED
  BY InvInit, InvStep, PTL DEF Spec

(* A rotation never leaves both generations valid (OneGenerationValid),    *)
(* whatever rotations, logouts, deletions and failures interleave.         *)
THEOREM RotationReplaces == Spec => []OneGenerationValid
<1>1. IInv => OneGenerationValid
  BY DEF IInv
<1> QED
  BY <1>1, Invariant, PTL

(* Valid tokens belong to users that exist (ValidTokenHasUser).            *)
THEOREM TokensHaveUsers == Spec => []ValidTokenHasUser
<1>1. IInv => ValidTokenHasUser
  BY DEF IInv
<1> QED
  BY <1>1, Invariant, PTL

(* What is spent stays spent: a token that was revoked, logged out, expired *)
(* or deleted is never valid again, whatever call still works on it; no row *)
(* changes its user or its predecessor; and an answer is final.             *)
THEOREM SpentForGood ==
  Spec => [][/\ \A t \in Tokens : status[t] # "free" =>
                   /\ status'[t] # "free" /\ owner'[t] = owner[t] /\ parent'[t] = parent[t]
                   /\ status[t] # "valid" => status'[t] # "valid"
             /\ \A c \in Calls : call[c].at \in Outcomes => call'[c] = call[c]]_vars
<1> DEFINE Spent == \A t \in Tokens : status[t] # "free" =>
                      /\ status'[t] # "free" /\ owner'[t] = owner[t] /\ parent'[t] = parent[t]
                      /\ status[t] # "valid" => status'[t] # "valid"
           Final == \A c \in Calls : call[c].at \in Outcomes => call'[c] = call[c]
<1>1. IInv /\ [Next]_vars => [Spent /\ Final]_vars
  <2> SUFFICES ASSUME TypeOK, Next PROVE Spent /\ Final
    BY DEF IInv
  <2> USE DEF TypeOK
  <2>1. ASSUME NEW c \in Calls, NEW at, call[c].at \notin Outcomes, Go(c, at) PROVE Final
    BY <2>1 DEF Go
  <2>2. ASSUME UNCHANGED tables PROVE Spent
    BY <2>2
  <2>3. ASSUME NEW c \in Calls,
               Login(c) \/ FindUser(c) \/ BeginRotation(c) \/ IssueViolatesKey(c)
                 \/ EndRotation(c) \/ StepFails(c) \/ FirstStepFails(c) \/ Unauthorized(c)
        PROVE  Spent /\ Final
    <3>1. call[c].at \notin Outcomes /\ UNCHANGED tables /\ \E at : Go(c, at)
      BY <2>3 DEF Login, FindUser, BeginRotation, IssueViolatesKey, EndRotation, StepFails,
                  FirstStepFails, Unauthorized
    <3> QED
      BY <2>1, <2>2, <3>1
  <2>4. ASSUME NEW c \in Calls, Register(c) PROVE Spent /\ Final
    BY <2>1, <2>4 DEF Register
  <2>5. ASSUME NEW c \in Calls, Logout(c) PROVE Spent /\ Final
    BY <2>1, <2>5 DEF Logout, RevokedByUser
  <2>6. ASSUME NEW c \in Calls, FindToken(c) PROVE Spent /\ Final
    <3>1. call[c].at = "idle" /\ UNCHANGED tables /\ \A d \in Calls \ {c} : call'[d] = call[d]
      BY <2>6 DEF FindToken, Go
    <3> QED
      BY <2>2, <3>1
  <2>7. ASSUME NEW c \in Calls, Revoke(c) PROVE Spent /\ Final
    <3>1. Final
      BY <2>1, <2>7 DEF Revoke
    <3>2. \A t \in Tokens :
            \/ status'[t] = status[t]
            \/ status[t] = "valid" /\ status'[t] = "revoked"
      BY <2>7 DEF Revoke, AfterRevoke
    <3> QED
      BY <2>7, <3>1, <3>2 DEF Revoke
  <2>8. ASSUME NEW c \in Calls, Issue(c) PROVE Spent /\ Final
    BY <2>8 DEF Issue
  <2>9. ASSUME NEW u \in Users, DeleteUser(u) PROVE Spent /\ Final
    BY <2>9 DEF DeleteUser, Cascade
  <2>10. ASSUME NEW t \in Tokens, Expire(t) PROVE Spent /\ Final
    BY <2>10 DEF Expire
  <2>11. CASE Crash
    BY <2>11 DEF Crash, InFlight
  <2> QED
    BY <2>3, <2>4, <2>5, <2>6, <2>7, <2>8, <2>9, <2>10, <2>11 DEF Next, Serve
<1> QED
  BY <1>1, Invariant, PTL DEF Spec
=============================================================================
