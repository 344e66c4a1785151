------------------------------ MODULE Accounts ------------------------------
(***************************************************************************)
(* What creating and deleting users promises about the two tables that     *)
(* make up an account, whatever runs concurrently or fails: the user row   *)
(* and its wallet row appear in one step, no two users share an e-mail     *)
(* address, and a deletion takes the user row alone.                       *)
(***************************************************************************)
CONSTANTS
  Ids,       \* identifiers of the users that may ever be created
  Emails     \* e-mail addresses

VARIABLES
  emailOf,   \* the address a user is created with, chosen once and for all
  users,     \* ids with a row in the users table
  wallets,   \* ids of the users that have a row in the wallets table
  removed    \* ids of the users that were deleted

vars == <<emailOf, users, wallets, removed>>

Init ==
  /\ emailOf \in [Ids -> Emails]
  /\ users = {}
  /\ wallets = {}
  /\ removed = {}

\* A user and its wallet come into being together, once.
Open(u) ==
  /\ u \notin users \cup removed
  /\ \A v \in users : emailOf[v] # emailOf[u]
  /\ users' = users \cup {u}
  /\ wallets' = wallets \cup {u}
  /\ UNCHANGED <<emailOf, removed>>

\* A deletion leaves the wallet behind.
Remove(u) ==
  /\ u \in users
  /\ users' = users \ {u}
  /\ removed' = removed \cup {u}
  /\ UNCHANGED <<emailOf, wallets>>

Next == \E u \in Ids : Open(u) \/ Remove(u)

Spec == Init /\ [][Next]_vars
=============================================================================
