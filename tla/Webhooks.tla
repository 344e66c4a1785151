------------------------------ MODULE Webhooks ------------------------------
(***************************************************************************)
(* Outgoing webhooks.  WebhookDispatcher.dispatch looks the active         *)
(* subscriptions of an event up and delivers to all of them concurrently:  *)
(* each delivery inserts a row with status pending, sends the POST, reads  *)
(* the body of the answer and records the outcome in the row.  Whatever    *)
(* one delivery throws is swallowed by Promise.allSettled.                 *)
(*                                                                         *)
(* The module follows one execution of dispatch: executions share neither  *)
(* rows nor promises.                                                      *)
(*                                                                         *)
(* `accepted` and `arrived` are what the subscribers saw: they exist for   *)
(* the properties.  An operator X_Y is a mutant of X.                      *)
(***************************************************************************)
EXTENDS FiniteSets

CONSTANTS
  Subscriptions,
  Faults           \* what may fail: statements, the process

ASSUME FaultsAssumption == Faults \subseteq {"query", "crash"}

VARIABLES
  dispatch,    \* where the execution of dispatch is
  delivery,    \* where its delivery to each subscription is
  row,         \* the webhook_deliveries row of that delivery
  arrived,     \* deliveries whose POST reached the subscriber
  accepted     \* deliveries that the subscriber answered with a 2xx

vars == <<dispatch, delivery, row, arrived, accepted>>

Waiting == {"inserting", "posting", "ok", "refused", "succeeding", "failing", "threw"}
Ended == {"recorded", "rejected"}     \* the two ways a delivery's promise settles

TypeOK ==
  /\ dispatch \in {"idle", "delivering", "done", "failed", "lost"}
  /\ delivery \in [Subscriptions -> {"off", "lost"} \cup Waiting \cup Ended]
  /\ row \in [Subscriptions -> {"absent", "pending", "success", "failed"}]
  /\ arrived \subseteq Subscriptions
  /\ accepted \subseteq Subscriptions

Init ==
  /\ dispatch = "idle"
  /\ delivery = [s \in Subscriptions |-> "off"]
  /\ row = [s \in Subscriptions |-> "absent"]
  /\ arrived = {}
  /\ accepted = {}

-----------------------------------------------------------------------------
(* dispatch.                                                               *)

\* Every delivery makes and signs the body first, and is rejected before its
\* insert if there is no JSON of the payload.
Prepared(serializable) == IF serializable THEN "inserting" ELSE "rejected"

\* findActiveByEvent: any set of subscriptions may be active for the event;
\* with none dispatch returns at once.
FindActive(S, serializable) ==
  /\ dispatch = "idle"
  /\ dispatch' = IF S = {} THEN "done" ELSE "delivering"
  /\ delivery' = [s \in Subscriptions |->
                    IF s \in S THEN Prepared(serializable) ELSE "off"]
  /\ UNCHANGED <<row, arrived, accepted>>

FindActiveFails ==
  /\ dispatch = "idle"
  /\ "query" \in Faults
  /\ dispatch' = "failed"
  /\ UNCHANGED <<delivery, row, arrived, accepted>>

\* Promise.allSettled waits for every delivery, whatever the others do.
Settled_Any == \E s \in Subscriptions : delivery[s] \in Ended
Settled == \A s \in Subscriptions : delivery[s] \notin Waiting

Return ==
  /\ dispatch = "delivering"
  /\ Settled
  /\ dispatch' = "done"
  /\ UNCHANGED <<delivery, row, arrived, accepted>>

-----------------------------------------------------------------------------
(* deliverToSubscription.                                                  *)

Step(s, from, to) ==
  /\ delivery[s] = from
  /\ delivery' = [delivery EXCEPT ![s] = to]
  /\ UNCHANGED dispatch

InsertDelivery(s) ==
  /\ Step(s, "inserting", "posting")
  /\ row' = [row EXCEPT ![s] = "pending"]
  /\ UNCHANGED <<arrived, accepted>>

\* Mutant: a delivery that could not be recorded is sent all the same.
AfterInsertFailed_Posts == "posting"
AfterInsertFailed == "rejected"

InsertDeliveryFails(s) ==
  /\ "query" \in Faults
  /\ Step(s, "inserting", AfterInsertFailed)
  /\ UNCHANGED <<row, arrived, accepted>>

\* The status line of the answer: response.ok.
Post(s, ok) ==
  /\ Step(s, "posting", IF ok THEN "ok" ELSE "refused")
  /\ arrived' = arrived \cup {s}
  /\ accepted' = IF ok THEN accepted \cup {s} ELSE accepted
  /\ UNCHANGED row

\* The connection fails or the AbortController fires, before or after the
\* request reached the subscriber.
PostThrows_NoTimeout(s) == FALSE
PostThrows(s) ==
  /\ Step(s, "posting", "threw")
  /\ arrived' \in {arrived, arrived \cup {s}}
  /\ UNCHANGED <<row, accepted>>

\* Which status the body's arrival leads to.
Verdict(at) == IF at = "ok" THEN "succeeding" ELSE "failing"

ReadBody(s) ==
  /\ delivery[s] \in {"ok", "refused"}
  /\ Step(s, delivery[s], Verdict(delivery[s]))
  /\ UNCHANGED <<row, arrived, accepted>>

\* The timeout is cleared before the body is read, so nothing of the dispatcher
\* ends the wait for it.  A connection that breaks in the body, or a gap in it
\* that is too long for fetch, lands in the catch; a body that keeps coming in
\* small pieces does neither.
ReadBodyThrows(s) ==
  /\ delivery[s] \in {"ok", "refused"}
  /\ Step(s, delivery[s], "threw")
  /\ UNCHANGED <<row, arrived, accepted>>

\* updateDelivery, in the try and in the catch.
UpdateDelivery(s) ==
  /\ delivery[s] \in {"succeeding", "failing", "threw"}
  /\ Step(s, delivery[s], "recorded")
  /\ row' = [row EXCEPT ![s] = IF delivery[s] = "succeeding" THEN "success" ELSE "failed"]
  /\ UNCHANGED <<arrived, accepted>>

\* An update that fails in the try goes to the catch, which records the
\* delivery as failed; one that fails there rejects the delivery.
AfterUpdateFailed(at) == IF at = "threw" THEN "rejected" ELSE "threw"

UpdateDeliveryFails(s) ==
  /\ "query" \in Faults
  /\ delivery[s] \in {"succeeding", "failing", "threw"}
  /\ Step(s, delivery[s], AfterUpdateFailed(delivery[s]))
  /\ UNCHANGED <<row, arrived, accepted>>

-----------------------------------------------------------------------------
\* The process dies with everything in flight; nothing resumes a delivery.
Crash ==
  /\ "crash" \in Faults
  /\ dispatch = "delivering"
  /\ dispatch' = "lost"
  /\ delivery' = [s \in Subscriptions |->
                    IF delivery[s] \in Waiting THEN "lost" ELSE delivery[s]]
  /\ UNCHANGED <<row, arrived, accepted>>

Proceeds(s) ==
  \/ InsertDelivery(s) \/ InsertDeliveryFails(s)
  \/ \E ok \in BOOLEAN : Post(s, ok)
  \/ PostThrows(s) \/ ReadBody(s) \/ ReadBodyThrows(s)
  \/ UpdateDelivery(s) \/ UpdateDeliveryFails(s)

Next ==
  \/ \E S \in SUBSET Subscriptions, serializable \in BOOLEAN : FindActive(S, serializable)
  \/ FindActiveFails \/ Return
  \/ \E s \in Subscriptions : Proceeds(s)
  \/ Crash

Spec == Init /\ [][Next]_vars

\* Statements end, and the AbortController gives a subscriber up that does not
\* answer with a status line.  Nothing of the kind is assumed of the body.
FairSpec ==
  /\ Spec
  /\ WF_vars(Return)
  /\ \A s \in Subscriptions :
       WF_vars(InsertDelivery(s) \/ UpdateDelivery(s)) /\ WF_vars(PostThrows(s))

-----------------------------------------------------------------------------
(* Properties.                                                             *)

\* A row says success only if the subscriber answered the POST with a 2xx.
SuccessWasAccepted == \A s \in Subscriptions : row[s] = "success" => s \in accepted

\* Whatever reached a subscriber has its row: the row is written first, so a
\* crash or a failing statement cannot leave a delivery without a trace.
ArrivalsAreRecorded == \A s \in arrived : row[s] # "absent"

\* When dispatch has returned, the outcome of every delivery it began is
\* recorded, unless one of that delivery's own statements failed or there was
\* no body to send: no subscriber and no other delivery can cause a lasting
\* pending row.
ReturnLeavesNoPending ==
  dispatch = "done" =>
    \A s \in Subscriptions :
      row[s] \in {"absent", "pending"} => delivery[s] \in {"off", "rejected"}

\* Every dispatch returns, even if no subscriber ever answers, provided that
\* every answer that begins also ends: a body is the one thing that can hold
\* dispatch up for ever.
BodiesEnd == \A s \in Subscriptions : []<>(delivery[s] \notin {"ok", "refused"})
DispatchReturns == BodiesEnd => (dispatch = "delivering" ~> dispatch \in {"done", "lost"})

\* The inductive strengthening: what each stage of a delivery already knows.
StagesKnow ==
  \A s \in Subscriptions :
    /\ delivery[s] \in {"off", "inserting"} => row[s] = "absent" /\ s \notin arrived
    /\ delivery[s] \in {"posting", "ok", "refused", "succeeding", "failing", "threw"}
          => row[s] = "pending"
    /\ delivery[s] \in {"ok", "succeeding"} => s \in accepted
    /\ delivery[s] = "recorded" => row[s] \in {"success", "failed"}

ReturnedIsSettled ==
  \A s \in Subscriptions :
    /\ dispatch \in {"idle", "failed"} => delivery[s] = "off"
    /\ dispatch = "done" => delivery[s] \in {"off"} \cup Ended
    /\ delivery[s] = "lost" => dispatch = "lost"

IInv ==
  /\ TypeOK
  /\ StagesKnow
  /\ ReturnedIsSettled
  /\ SuccessWasAccepted
  /\ ArrivalsAreRecorded
=============================================================================
