---------------------------- MODULE AtLeastOnce ----------------------------
(***************************************************************************)
(* What a store of events that polls and redelivers promises: an event it  *)
(* accepted may be handled any number of times, and is retired only after  *)
(* its listeners handled it.                                               *)
(***************************************************************************)
CONSTANT Events

VARIABLES
  accepted,   \* events the store has taken over
  handled,    \* events whose listeners ran to completion at least once
  retired     \* events the store will not deliver again

vars == <<accepted, handled, retired>>

Init == accepted = {} /\ handled = {} /\ retired = {}

Accept(e) ==
  /\ e \notin accepted
  /\ accepted' = accepted \cup {e}
  /\ UNCHANGED <<handled, retired>>

Handle(e) ==
  /\ e \in accepted
  /\ handled' = handled \cup {e}
  /\ UNCHANGED <<accepted, retired>>

Retire(S) ==
  /\ S \subseteq handled
  /\ retired' = retired \cup S
  /\ UNCHANGED <<accepted, handled>>

Next ==
  \/ \E e \in Events : Accept(e) \/ Handle(e)
  \/ \E S \in SUBSET Events : Retire(S)

Spec == Init /\ [][Next]_vars
=============================================================================
