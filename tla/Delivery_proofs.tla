--------------------------- MODULE Delivery_proofs ---------------------------
(***************************************************************************)
(* Proofs about the three parts that bring an event to those who wait for  *)
(* it: DeadLetter, Outbox and Webhooks.  They hold for any number of       *)
(* events, overlapping runs and subscriptions, any limits and any faults,  *)
(* and whether or not the emitter swallows the errors of listeners where a *)
(* theorem does not say so.                                                *)
(*                                                                         *)
(* DeadLetter is extended; Outbox and Webhooks are instances with          *)
(* constants and variables of their own.                                   *)
(***************************************************************************)
EXTENDS DeadLetter, TLAPS

-----------------------------------------------------------------------------
(* DeadLetter.                                                             *)

USE MaxAssumption DEF Settled, MaxRetries, MaxColumn

LEMMA IdleIsRunner == Idle \in Runners /\ Idle.at = "idle" /\ Idle.left = {}
<1>1. (CHOOSE e \in Events : TRUE) \in Events
  BY EventsAssumption
<1> QED
  BY <1>1 DEF Idle, Runners

LEMMA InvInit == Init => IInv
  BY IdleIsRunner DEF Init, IInv, TypeOK, RunsAreSound, PendingCounts, ResolvedWasHandled,
     RetriesCovered, AloneOnPending, ExhaustedAfterRetries

(* A run that takes an event in hand keeps what it read and what is left.  *)
LEMMA TakesEffect ==
  ASSUME TypeOK, NEW p \in Runs, NEW e \in Events, NEW at \in {"handled", "failed"},
         Takes(p, e, at)
  PROVE  /\ run' \in [Runs -> Runners]
         /\ retries' \in [Events -> 0 .. MaxRetries]
         /\ \A f \in Events \ {e} : retries'[f] = retries[f]
         /\ retries'[e] = IF retries[e] < MaxRetries THEN retries[e] + 1 ELSE retries[e]
         /\ \A q \in Runs \ {p} : run'[q] = run[q]
         /\ run'[p].at = at /\ run'[p].event = e
         /\ run'[p].left = run[p].left \ {e} /\ run'[p].read = run[p].read
         /\ run[p].at = "next" /\ e \in run[p].left
<1>1. /\ retries' \in [Events -> 0 .. MaxRetries]
      /\ \A f \in Events \ {e} : retries'[f] = retries[f]
      /\ retries'[e] = IF retries[e] < MaxRetries THEN retries[e] + 1 ELSE retries[e]
  BY DEF Takes, TypeOK
<1>2. run[p] \in Runners
  BY DEF TypeOK
<1>3. run' = [run EXCEPT ![p] = [run[p] EXCEPT !.at = at, !.event = e, !.left = @ \ {e}]]
  BY Zenon DEF Takes
<1>4. [run[p] EXCEPT !.at = at, !.event = e, !.left = @ \ {e}] \in Runners
  BY <1>2 DEF Runners
<1> QED
  BY <1>1, <1>2, <1>3, <1>4 DEF Takes, TypeOK, Runners

(* Go changes where a run is, and nothing else about any run.              *)
LEMMA GoEffect ==
  ASSUME TypeOK, NEW p \in Runs, NEW at \in {"idle", "next", "handled", "failed"}, Go(p, at)
  PROVE  /\ run' \in [Runs -> Runners]
         /\ run'[p].at = at
         /\ \A q \in Runs \ {p} : run'[q].at = run[q].at
         /\ \A q \in Runs : /\ run'[q].event = run[q].event
                            /\ run'[q].left = run[q].left
                            /\ run'[q].read = run[q].read
<1>1. run[p] \in Runners /\ run \in [Runs -> Runners]
  BY DEF TypeOK
<1>2. run' = [run EXCEPT ![p] = [run[p] EXCEPT !.at = at]]
  BY Zenon DEF Go
<1>3. [run[p] EXCEPT !.at = at] \in Runners
  BY <1>1 DEF Runners
<1>4. run' \in [Runs -> Runners] /\ \A q \in Runs \ {p} : run'[q] = run[q]
  BY <1>1, <1>2, <1>3
<1>5. run'[p] = [run[p] EXCEPT !.at = at]
  BY <1>1, <1>2
<1>6. /\ run'[p].at = at /\ run'[p].event = run[p].event
      /\ run'[p].left = run[p].left /\ run'[p].read = run[p].read
  BY <1>1, <1>5 DEF Runners
<1> QED
  BY <1>4, <1>6

(* A run takes an event in hand and emits it: the retry is counted, and    *)
(* what the run will resolve was handled or the error swallowed.           *)
LEMMA TakesKeeps ==
  ASSUME IInv, NEW p \in Runs, NEW e \in Events, NEW at \in {"handled", "failed"},
         Takes(p, e, at), UNCHANGED <<row, overlaps>>,
         handled \subseteq handled', handled' \in SUBSET Events,
         at = "handled" => SuppressErrors \/ e \in handled'
  PROVE  IInv'
<1> USE DEF IInv, row
<1>t. TypeOK
  OBVIOUS
<1>1. TypeOK'
  BY TakesEffect DEF TypeOK
<1>2. RunsAreSound'
  BY TakesEffect, SuppressAssumption DEF RunsAreSound
<1>3. PendingCounts' /\ (SuppressErrors \/ ResolvedWasHandled)'
  BY SuppressAssumption DEF PendingCounts, ResolvedWasHandled
<1>4. retries[e] \in 0 .. MaxRetries /\ run[p].read[e] \in 1 .. MaxRetries
  <2>1. run[p].read[e] \in 1 .. retries[e] + 1 /\ run[p].read[e] < MaxColumn
    BY TakesEffect DEF RunsAreSound, RetriesCovered
  <2> QED
    BY <2>1 DEF TypeOK
<1>5. \A f \in Events : retries[f] \in Nat /\ retries'[f] \in Nat /\ retries[f] <= retries'[f]
  BY TakesEffect DEF TypeOK
<1>6. RetriesCovered'
  <2>1. \A f \in Events : status'[f] # "absent" => attempts'[f] \in 1 .. retries'[f] + 1
    BY <1>5 DEF RetriesCovered
  <2>2. \A q \in Runs \ {p} : run'[q] = run[q]
    BY TakesEffect
  <2>3. \A q \in Runs : run[q].left \subseteq Events /\ run[q].event \in Events
    BY DEF TypeOK, Runners
  <2>4. \A q \in Runs : \A f \in run'[q].left : run'[q].read[f] \in 1 .. retries'[f] + 1
    BY <1>5, <2>2, <2>3, TakesEffect DEF RetriesCovered
  <2>5. run'[p].event = e /\ run'[p].read[e] \in 1 .. retries'[e]
    <3>1. run[p].read[e] \in 1 .. retries[e] + 1
      BY TakesEffect DEF RetriesCovered
    <3> QED
      BY <1>4, <3>1, TakesEffect
  <2>6. \A q \in Runs \ {p} : run'[q].at \in {"handled", "failed"} =>
              run'[q].read[run'[q].event] \in 1 .. retries'[run'[q].event]
    BY <1>5, <2>2, <2>3 DEF RetriesCovered
  <2> QED
    BY <2>1, <2>4, <2>5, <2>6 DEF RetriesCovered
<1>7. AloneOnPending'
  BY TakesEffect DEF AloneOnPending
<1>8. ExhaustedAfterRetries'
  BY <1>5 DEF ExhaustedAfterRetries
<1> QED
  BY <1>1, <1>2, <1>3, <1>6, <1>7, <1>8

LEMMA InvStep == IInv /\ [Next]_vars => IInv'
<1> SUFFICES ASSUME IInv, [Next]_vars PROVE IInv'
  OBVIOUS
<1> USE DEF IInv, RunsAreSound, PendingCounts, ResolvedWasHandled, RetriesCovered,
            AloneOnPending, ExhaustedAfterRetries
<1>1. ASSUME NEW e \in Events, RecordFailure(e) PROVE IInv'
  BY <1>1 DEF RecordFailure, Insert, TypeOK, Runners
<1>2. ASSUME NEW e \in Events, BecomeDue(e) PROVE IInv'
  BY <1>2 DEF BecomeDue, TypeOK, Runners
<1>3. ASSUME NEW p \in Runs, FindPendingRetries(p) PROVE IInv'
  <2>1. \A e \in PendingRetries : /\ e \in Events /\ status[e] = "pending_retry"
                                  /\ attempts[e] < MaxColumn
    BY DEF PendingRetries, TypeOK
  <2>2. run[p] \in Runners /\ attempts \in [Events -> 0 .. MaxColumn] /\ PendingRetries \in SUBSET Events
    BY <2>1 DEF TypeOK
  <2>3. run' = [run EXCEPT ![p] = [run[p] EXCEPT !.at = "next", !.left = PendingRetries,
                                                 !.read = attempts]]
    BY <1>3, Zenon DEF FindPendingRetries
  <2>4. [run[p] EXCEPT !.at = "next", !.left = PendingRetries, !.read = attempts] \in Runners
    BY <2>2 DEF Runners
  <2>5. /\ run' \in [Runs -> Runners] /\ \A q \in Runs \ {p} : run'[q] = run[q]
        /\ run'[p].at = "next" /\ run'[p].left = PendingRetries /\ run'[p].read = attempts
    BY <2>2, <2>3, <2>4 DEF TypeOK, Runners
  <2>6. /\ UNCHANGED <<status, attempts, due, handled, retries, overlaps>>
        /\ run[p].at = "idle" /\ (overlaps \/ \A q \in Runs : run[q].at = "idle")
    BY <1>3 DEF FindPendingRetries, row
  <2>t. TypeOK'
    BY <2>5, <2>6 DEF TypeOK
  <2>7. /\ PendingCounts' /\ ExhaustedAfterRetries'
        /\ ~SuppressErrors => ResolvedWasHandled'
    BY <2>6
  <2>8. RunsAreSound'
    BY <2>1, <2>5, <2>6
  <2>9. RetriesCovered'
    BY <2>1, <2>5, <2>6
  <2>10. AloneOnPending'
    BY <2>1, <2>5, <2>6
  <2> QED
    BY <2>t, <2>7, <2>8, <2>9, <2>10
<1>4. ASSUME NEW p \in Runs, NEW e \in Events, EmitHandled(p, e) PROVE IInv'
  BY <1>4, TakesKeeps DEF EmitHandled, TypeOK, row
<1>5. ASSUME NEW p \in Runs, NEW e \in Events, EmitThrows(p, e) PROVE IInv'
  <2>1. PICK at \in {"handled", "failed"} :
          Takes(p, e, at) /\ (at = "handled" => SuppressErrors)
    BY <1>5, SuppressAssumption DEF EmitThrows, AfterThrow
  <2> QED
    BY <1>5, <2>1, TakesKeeps DEF EmitThrows, TypeOK, row
<1>6. ASSUME NEW p \in Runs, MarkResolved(p) PROVE IInv'
  <2> DEFINE e == run[p].event
  <2>1. /\ e \in Events /\ (SuppressErrors \/ e \in handled) /\ status[e] # "absent"
        /\ status' = [status EXCEPT ![e] = "resolved"]
        /\ due' = [due EXCEPT ![e] = FALSE]
        /\ attempts' = attempts /\ handled' = handled /\ retries' = retries
        /\ overlaps' = overlaps
        /\ run[p].at = "handled"
    BY <1>6 DEF MarkResolved, TypeOK, Runners
  <2>a. ~overlaps => e \notin run[p].left
    BY <2>1
  <2>b. ~overlaps => \A q \in Runs \ {p} : run[q].at = "idle"
    BY <2>1
  <2> HIDE DEF e
  <2>2. Go(p, "next")
    BY <1>6 DEF MarkResolved
  <2>3. TypeOK'
    BY <2>1, <2>2, GoEffect DEF TypeOK
  <2>4. RunsAreSound'
    <3>1. \A f \in Events : status[f] # "absent" => status'[f] # "absent"
      BY <2>1 DEF TypeOK
    <3>2. \A q \in Runs : run[q].left \subseteq Events /\ run[q].event \in Events
      BY DEF TypeOK, Runners
    <3> QED
      BY <2>1, <2>2, <3>1, <3>2, GoEffect
  <2>5. PendingCounts' /\ ExhaustedAfterRetries' /\ (SuppressErrors \/ ResolvedWasHandled)'
    BY <2>1, SuppressAssumption DEF TypeOK
  <2>6. RetriesCovered'
    <3>1. \A f \in Events : status'[f] # "absent" => status[f] # "absent"
      BY <2>1 DEF TypeOK
    <3>2. /\ run'[p].at = "next"
          /\ \A q \in Runs : /\ q # p => run'[q].at = run[q].at
                             /\ run'[q].event = run[q].event
                             /\ run'[q].left = run[q].left /\ run'[q].read = run[q].read
      BY <2>2, GoEffect
    <3>3. RetriesCovered
      BY DEF IInv
    <3> HIDE DEF IInv, TypeOK, RunsAreSound, PendingCounts, AloneOnPending,
                 ResolvedWasHandled, ExhaustedAfterRetries
    <3> QED
      BY <2>1, <3>1, <3>2, <3>3 DEF RetriesCovered
  <2>7. AloneOnPending'
    BY <2>1, <2>2, <2>a, <2>b, GoEffect DEF TypeOK, Runners
  <2> QED
    BY <2>3, <2>4, <2>5, <2>6, <2>7 DEF IInv
<1>7. ASSUME NEW p \in Runs, MarkResolvedFails(p) PROVE IInv'
  <2>1. /\ Go(p, "failed") /\ run[p].at = "handled"
        /\ UNCHANGED <<status, attempts, due, handled, retries, overlaps>>
    BY <1>7 DEF MarkResolvedFails, row
  <2> QED
    BY <2>1, GoEffect DEF TypeOK
<1>8. ASSUME NEW p \in Runs, UpdateStatus(p) PROVE IInv'
  <2> DEFINE e == run[p].event
             n == NewAttempts(p)
             s == IF Exhausts(n) THEN "exhausted" ELSE "pending_retry"
  <2>1. run[p] \in Runners /\ run[p].read[e] < MaxColumn
    BY <1>8 DEF UpdateStatus, TypeOK
  <2>2. e \in Events /\ n \in 1 .. MaxColumn
    BY <2>1 DEF Runners, NewAttempts
  <2>3. /\ status' = [status EXCEPT ![e] = s]
        /\ attempts' = [attempts EXCEPT ![e] = n]
        /\ due' = [due EXCEPT ![e] = FALSE]
        /\ handled' = handled /\ retries' = retries /\ overlaps' = overlaps
    BY <1>8 DEF UpdateStatus
  <2>a. /\ run[p].at = "failed" /\ n - 1 \in 1 .. retries[e] /\ retries[e] \in Nat
        /\ ~overlaps => e \notin run[p].left
        /\ ~overlaps => \A q \in Runs \ {p} : run[q].at = "idle"
    BY <1>8, <2>1, <2>2 DEF UpdateStatus, NewAttempts, TypeOK
  <2>4. s \in {"exhausted", "pending_retry"} /\ (s = "pending_retry" => n < MaxAttempts)
        /\ (s = "exhausted" => n >= MaxAttempts)
    BY <2>2 DEF Exhausts
  <2> HIDE DEF s, n, e
  <2>5. /\ run' \in [Runs -> Runners]
        /\ \A q \in Runs : run'[q].event = run[q].event /\ run'[q].left = run[q].left
                          /\ run'[q].read = run[q].read
        /\ run'[p].at = "next" /\ \A q \in Runs \ {p} : run'[q].at = run[q].at
    BY <1>8, GoEffect DEF UpdateStatus
  <2>6. TypeOK'
    BY <2>2, <2>3, <2>4, <2>5 DEF TypeOK
  <2>7. RunsAreSound'
    BY <2>2, <2>3, <2>4, <2>5 DEF TypeOK, Runners
  <2>8. PendingCounts' /\ ExhaustedAfterRetries' /\ (SuppressErrors \/ ResolvedWasHandled)'
    BY <2>2, <2>3, <2>4, <2>a, SuppressAssumption DEF TypeOK
  <2>9. RetriesCovered'
    <3>1. /\ attempts'[e] = n
          /\ \A f \in Events \ {e} : attempts'[f] = attempts[f] /\ status'[f] = status[f]
      BY <2>2, <2>3 DEF TypeOK
    <3>2. n \in 1 .. retries[e] + 1
      BY <2>2, <2>a
    <3>3. RetriesCovered
      BY DEF IInv
    <3> HIDE DEF IInv, TypeOK, RunsAreSound, PendingCounts, AloneOnPending,
                 ResolvedWasHandled, ExhaustedAfterRetries
    <3> QED
      BY <2>3, <2>5, <3>1, <3>2, <3>3 DEF RetriesCovered
  <2>10. AloneOnPending'
    <3>1. \A f \in Events \ {e} : status'[f] = status[f]
      BY <2>3 DEF TypeOK
    <3>2. run[p].left \subseteq Events
      BY <2>1 DEF Runners
    <3> QED
      BY <2>3, <2>5, <2>a, <3>1, <3>2
  <2> QED
    BY <2>6, <2>7, <2>8, <2>9, <2>10 DEF IInv
<1>9. ASSUME NEW p \in Runs, UpdateStatusFails(p) \/ EndRun(p) PROVE IInv'
  <2>1. /\ run' \in [Runs -> Runners] /\ \A q \in Runs \ {p} : run'[q] = run[q]
        /\ run'[p].at = "idle" /\ run'[p].left = {}
    BY <1>9, IdleIsRunner DEF UpdateStatusFails, EndRun, TypeOK
  <2> QED
    BY <1>9, <2>1 DEF UpdateStatusFails, EndRun, TypeOK, row
<1>10. CASE Crash
  <2>1. \A p \in Runs : run'[p] = Idle
    BY <1>10 DEF Crash
  <2> QED
    BY <1>10, <2>1, IdleIsRunner DEF Crash, TypeOK, row
<1>11. CASE UNCHANGED vars
  BY <1>11 DEF vars, TypeOK
<1> QED
  BY <1>1, <1>2, <1>3, <1>4, <1>5, <1>6, <1>7, <1>8, <1>9, <1>10, <1>11
  DEF Next, Progress

(* The inductive invariant holds in every reachable state.                 *)
THEOREM Invariant == Spec => []IInv
<1> QED
  BY InvInit, InvStep, PTL DEF Spec

(* Resolved events were handled (ResolvedWasHandled), although runs overlap*)
(* and write what they computed from a stale read.                         *)
THEOREM NothingDropped == ~SuppressErrors => (Spec => []ResolvedWasHandled)
<1> SUFFICES ASSUME ~SuppressErrors PROVE Spec => []ResolvedWasHandled
  OBVIOUS
<1>1. IInv => ResolvedWasHandled
  BY DEF IInv
<1> QED
  BY <1>1, Invariant, PTL

(* No event is given up early (ExhaustedAfterRetries): a run's update      *)
(* counts a retry that was made, although runs overlap and the update      *)
(* writes a count that others may have raised since.                       *)
THEOREM NotGivenUpEarly == Spec => []ExhaustedAfterRetries
<1>1. IInv => ExhaustedAfterRetries
  BY DEF IInv
<1> QED
  BY <1>1, Invariant, PTL

(* Without overlapping runs the dead letters implement at-least-once       *)
(* delivery (ImplementsAtLeastOnce): recordFailure accepts, an emission    *)
(* handles, markResolved retires; no other update touches a resolved row.  *)
THEOREM RefinesAtLeastOnce == ~SuppressErrors => (Spec => ImplementsAtLeastOnce)
<1> SUFFICES ASSUME ~SuppressErrors PROVE Spec => ImplementsAtLeastOnce
  OBVIOUS
<1> DEFINE accepted == Exclusive({e \in Events : status[e] # "absent"})
           done == Exclusive(handled)
           retired == Exclusive({e \in Events : status[e] = "resolved"})
<1>1. Init => Store!Init
  BY DEF Init, Store!Init, Exclusive
<1>2. IInv /\ [Next]_vars => [Store!Next]_(Store!vars)
  <2> SUFFICES ASSUME IInv, [Next]_vars
               PROVE  Store!Next \/ UNCHANGED <<accepted, done, retired>>
    BY DEF Store!vars
  <2> USE DEF Exclusive
  <2>t. TypeOK
    BY DEF IInv
  <2>1. CASE UNCHANGED <<status, handled, overlaps>>
    BY <2>1
  <2>2. CASE overlaps /\ UNCHANGED overlaps
    BY <2>2
  <2>3. UNCHANGED overlaps
    BY DEF Next, Progress, RecordFailure, Insert, BecomeDue, FindPendingRetries, EmitHandled, EmitThrows,
           MarkResolved, MarkResolvedFails, UpdateStatus, UpdateStatusFails, EndRun, Crash, vars
  <2> SUFFICES ASSUME ~overlaps
               PROVE  Store!Next \/ UNCHANGED <<accepted, done, retired>>
    BY <2>2, <2>3 DEF TypeOK
  <2>4. ASSUME NEW e \in Events, RecordFailure(e) PROVE Store!Next
    <3>1. /\ e \notin accepted /\ accepted' = accepted \cup {e}
          /\ UNCHANGED <<done, retired>>
      BY <2>3, <2>4, <2>t DEF RecordFailure, Insert, TypeOK
    <3> QED
      BY <3>1 DEF Store!Next, Store!Accept
  <2>5. ASSUME NEW p \in Runs, NEW e \in Events, EmitHandled(p, e) PROVE Store!Next
    <3>1. status[e] # "absent"
      BY <2>5 DEF EmitHandled, Takes, IInv, RunsAreSound
    <3>2. e \in accepted /\ UNCHANGED <<accepted, retired>> /\ done' = done \cup {e}
      BY <2>3, <2>5, <3>1 DEF EmitHandled, row
    <3> QED
      BY <3>2 DEF Store!Next, Store!Handle
  <2>6. ASSUME NEW p \in Runs, MarkResolved(p) PROVE Store!Next
    <3> DEFINE e == run[p].event
    <3>1. e \in Events /\ e \in done /\ status[e] # "absent"
      BY <2>6, <2>t DEF MarkResolved, IInv, RunsAreSound, TypeOK, Runners
    <3>2. status' = [status EXCEPT ![e] = "resolved"] /\ handled' = handled
      BY <2>6 DEF MarkResolved
    <3> HIDE DEF e
    <3>3. retired' = retired \cup {e} /\ UNCHANGED <<accepted, done>>
      BY <2>3, <2>t, <3>1, <3>2 DEF TypeOK
    <3> QED
      BY <3>1, <3>3 DEF Store!Next, Store!Retire
  <2>7. ASSUME NEW p \in Runs, UpdateStatus(p) PROVE UNCHANGED <<accepted, done, retired>>
    <3> DEFINE e == run[p].event
    <3>1. e \in Events /\ status[e] = "pending_retry"
      BY <2>7, <2>t DEF UpdateStatus, IInv, AloneOnPending, TypeOK, Runners
    <3>2. PICK to \in {"exhausted", "pending_retry"} : status' = [status EXCEPT ![e] = to]
      BY <2>7 DEF UpdateStatus
    <3>3. handled' = handled
      BY <2>7 DEF UpdateStatus
    <3> QED
      BY <2>3, <2>t, <3>1, <3>2, <3>3 DEF TypeOK
  <2>8. ASSUME NEW p \in Runs,
               \/ FindPendingRetries(p) \/ MarkResolvedFails(p) \/ UpdateStatusFails(p)
               \/ EndRun(p) \/ \E e \in Events : EmitThrows(p, e)
        PROVE  UNCHANGED <<status, handled, overlaps>>
    BY <2>8 DEF FindPendingRetries, MarkResolvedFails, UpdateStatusFails, EndRun, EmitThrows, row
  <2>9. ASSUME NEW e \in Events, BecomeDue(e) PROVE UNCHANGED <<status, handled, overlaps>>
    BY <2>9 DEF BecomeDue
  <2>10. CASE Crash
    BY <2>1, <2>10 DEF Crash, row
  <2>11. CASE UNCHANGED vars
    BY <2>1, <2>11 DEF vars
  <2> QED
    BY <2>1, <2>4, <2>5, <2>6, <2>7, <2>8, <2>9, <2>10, <2>11 DEF Next, Progress
<1> QED
  BY <1>1, <1>2, Invariant, PTL DEF Spec, ImplementsAtLeastOnce, Store!Spec

-----------------------------------------------------------------------------
(* Outbox.                                                                 *)

CONSTANTS NumEvents, Jobs, Limit, Poison, OutSuppresses, OutFaults
VARIABLES outRow, outRun, outHandled

Out == INSTANCE Outbox WITH
  Runs <- Jobs, SuppressErrors <- OutSuppresses, Faults <- OutFaults,
  row <- outRow, run <- outRun, handled <- outHandled

LEMMA OutboxInit == Out!Init => Out!IInv
  BY DEF Out!Init, Out!IInv, Out!TypeOK, Out!RunsAreSound, Out!PublishedWasHandled, Out!NotRunning

LEMMA OutboxStep == ~OutSuppresses /\ Out!IInv /\ [Out!Next]_(Out!vars) => Out!IInv'
<1> SUFFICES ASSUME ~OutSuppresses, Out!IInv, [Out!Next]_(Out!vars) PROVE Out!IInv'
  OBVIOUS
<1> USE DEF Out!IInv, Out!TypeOK, Out!RunsAreSound, Out!PublishedWasHandled
<1>1. ASSUME NEW e \in Out!Events, Out!Insert(e) PROVE Out!IInv'
  BY <1>1 DEF Out!Insert
<1>2. ASSUME NEW p \in Jobs, Out!Poll(p) PROVE Out!IInv'
  <2>1. /\ Out!Oldest(Out!Unpublished) \in SUBSET Out!Events
        /\ \A e \in Out!Oldest(Out!Unpublished) : outRow[e] = "pending"
    BY DEF Out!Oldest, Out!Unpublished
  <2> QED
    BY <1>2, <2>1 DEF Out!Poll
<1>3. ASSUME NEW p \in Jobs, NEW e \in Out!Events, Out!EmitHandled(p, e) PROVE Out!IInv'
  <2>1. /\ outRun' \in [Jobs -> [busy : BOOLEAN, todo : SUBSET Out!Events,
                              publishedIds : SUBSET Out!Events]]
        /\ \A q \in Jobs : outRun'[q].publishedIds \subseteq outRun[q].publishedIds \cup {e}
        /\ \A q \in Jobs : outRun'[q].todo \subseteq outRun[q].todo
    BY <1>3 DEF Out!EmitHandled
  <2>2. outRow[e] # "absent" /\ outRow' = outRow /\ outHandled' = outHandled \cup {e}
    BY <1>3 DEF Out!EmitHandled, Out!Emitting
  <2> QED
    BY <2>1, <2>2
<1>4. ASSUME NEW p \in Jobs, NEW e \in Out!Events, Out!EmitThrows(p, e) PROVE Out!IInv'
  <2>1. /\ outRun' \in [Jobs -> [busy : BOOLEAN, todo : SUBSET Out!Events,
                              publishedIds : SUBSET Out!Events]]
        /\ \A q \in Jobs : outRun'[q].publishedIds = outRun[q].publishedIds
        /\ \A q \in Jobs : outRun'[q].todo \subseteq outRun[q].todo
    BY <1>4 DEF Out!EmitThrows, Out!PublishedIds
  <2> QED
    BY <1>4, <2>1 DEF Out!EmitThrows
<1>5. ASSUME NEW p \in Jobs, Out!Mark(p) PROVE Out!IInv'
  BY <1>5 DEF Out!Mark, Out!NotRunning
<1>6. ASSUME NEW p \in Jobs, Out!MarkFails(p) PROVE Out!IInv'
  BY <1>6 DEF Out!MarkFails, Out!NotRunning
<1>7. CASE Out!Crash
  BY <1>7 DEF Out!Crash, Out!NotRunning
<1>8. CASE UNCHANGED Out!vars
  BY <1>8 DEF Out!vars
<1> QED
  BY <1>1, <1>2, <1>3, <1>4, <1>5, <1>6, <1>7, <1>8 DEF Out!Next, Out!Progress

(* The inductive invariant holds in every reachable state.                 *)
THEOREM OutboxInvariant == ~OutSuppresses => (Out!Spec => []Out!IInv)
<1> SUFFICES ASSUME ~OutSuppresses PROVE Out!Spec => []Out!IInv
  OBVIOUS
<1>1. Out!IInv /\ [Out!Next]_(Out!vars) => Out!IInv'
  BY OutboxStep
<1> QED
  BY <1>1, OutboxInit, PTL DEF Out!Spec

(* Marked events were handled (PublishedWasHandled), with overlapping runs *)
(* and crashes between the emission and the mark.                          *)
THEOREM OutboxNothingLost == ~OutSuppresses => (Out!Spec => []Out!PublishedWasHandled)
<1> SUFFICES ASSUME ~OutSuppresses PROVE Out!Spec => []Out!PublishedWasHandled
  OBVIOUS
<1>1. Out!IInv => Out!PublishedWasHandled
  BY DEF Out!IInv
<1> QED
  BY <1>1, OutboxInvariant, PTL

(* The outbox implements at-least-once delivery (ImplementsAtLeastOnce):   *)
(* Insert accepts, an emission handles, and Mark retires a whole batch.    *)
THEOREM OutboxRefines == ~OutSuppresses => (Out!Spec => Out!ImplementsAtLeastOnce)
<1> SUFFICES ASSUME ~OutSuppresses PROVE Out!Spec => Out!ImplementsAtLeastOnce
  OBVIOUS
<1> DEFINE accepted == {e \in Out!Events : outRow[e] # "absent"}
           retired == {e \in Out!Events : outRow[e] = "published"}
<1>1. Out!Init => Out!Store!Init
  BY DEF Out!Init, Out!Store!Init
<1>2. Out!IInv /\ [Out!Next]_(Out!vars) => [Out!Store!Next]_(Out!Store!vars)
  <2> SUFFICES ASSUME Out!IInv, [Out!Next]_(Out!vars)
               PROVE  Out!Store!Next \/ UNCHANGED <<accepted, outHandled, retired>>
    BY DEF Out!Store!vars
  <2> USE DEF Out!IInv, Out!TypeOK, Out!RunsAreSound
  <2>1. ASSUME NEW e \in Out!Events, Out!Insert(e) PROVE Out!Store!Next
    <3>1. /\ e \notin accepted /\ accepted' = accepted \cup {e}
          /\ UNCHANGED <<outHandled, retired>>
      BY <2>1 DEF Out!Insert
    <3> QED
      BY <3>1 DEF Out!Store!Next, Out!Store!Accept
  <2>2. ASSUME NEW p \in Jobs, NEW e \in Out!Events, Out!EmitHandled(p, e) PROVE Out!Store!Next
    <3>1. e \in accepted /\ UNCHANGED <<accepted, retired>> /\ outHandled' = outHandled \cup {e}
      BY <2>2 DEF Out!EmitHandled, Out!Emitting
    <3> QED
      BY <3>1 DEF Out!Store!Next, Out!Store!Handle
  <2>3. ASSUME NEW p \in Jobs, Out!Mark(p) PROVE Out!Store!Next
    <3> DEFINE S == outRun[p].publishedIds
    <3>1. S \subseteq outHandled /\ S \in SUBSET Out!Events /\ \A e \in S : outRow[e] # "absent"
      BY <2>3
    <3>2. /\ retired' = retired \cup S
          /\ UNCHANGED <<accepted, outHandled>>
      BY <2>3, <3>1 DEF Out!Mark
    <3> QED
      BY <3>1, <3>2 DEF Out!Store!Next, Out!Store!Retire
  <2>4. CASE UNCHANGED <<outRow, outHandled>>
    BY <2>4
  <2>5. ASSUME NEW p \in Jobs, \/ Out!Poll(p) \/ Out!MarkFails(p)
                               \/ \E e \in Out!Events : Out!EmitThrows(p, e)
        PROVE  UNCHANGED <<outRow, outHandled>>
    BY <2>5 DEF Out!Poll, Out!MarkFails, Out!EmitThrows
  <2>6. CASE Out!Crash
    BY <2>4, <2>6 DEF Out!Crash
  <2>7. CASE UNCHANGED Out!vars
    BY <2>4, <2>7 DEF Out!vars
  <2> QED
    BY <2>1, <2>2, <2>3, <2>4, <2>5, <2>6, <2>7 DEF Out!Next, Out!Progress
<1> QED
  BY <1>1, <1>2, OutboxInvariant, PTL DEF Out!Spec, Out!ImplementsAtLeastOnce, Out!Store!Spec

-----------------------------------------------------------------------------
(* Webhooks.                                                               *)

CONSTANTS Subscriptions, HookFaults
VARIABLES dispatch, delivery, hookRow, arrived, accepted

Hook == INSTANCE Webhooks WITH Faults <- HookFaults, row <- hookRow

\* IInv is inductive.  A step of one delivery changes that delivery alone, so
\* each part of the invariant is re-established at one subscription.
LEMMA WebhooksStep == Hook!IInv /\ [Hook!Next]_(Hook!vars) => Hook!IInv'
<1> SUFFICES ASSUME Hook!IInv, [Hook!Next]_(Hook!vars) PROVE Hook!IInv'
  OBVIOUS
<1> USE DEF Hook!IInv, Hook!TypeOK, Hook!Waiting, Hook!Ended, Hook!StagesKnow,
            Hook!ReturnedIsSettled, Hook!SuccessWasAccepted, Hook!ArrivalsAreRecorded
<1>1. ASSUME NEW S \in SUBSET Subscriptions, NEW serializable \in BOOLEAN,
             Hook!FindActive(S, serializable)
      PROVE  Hook!IInv'
  BY <1>1 DEF Hook!FindActive, Hook!Prepared
<1>2. CASE Hook!FindActiveFails \/ Hook!Return
  BY <1>2 DEF Hook!FindActiveFails, Hook!Return, Hook!Settled
<1>3. ASSUME NEW s \in Subscriptions, Hook!Proceeds(s) PROVE Hook!IInv'
  <2>1. CASE Hook!InsertDelivery(s)
    BY <2>1 DEF Hook!InsertDelivery, Hook!Step
  <2>2. CASE Hook!InsertDeliveryFails(s)
    BY <2>2 DEF Hook!InsertDeliveryFails, Hook!AfterInsertFailed, Hook!Step
  <2>3. ASSUME NEW ok \in BOOLEAN, Hook!Post(s, ok) PROVE Hook!IInv'
    BY <2>3 DEF Hook!Post, Hook!Step
  <2>4. CASE Hook!PostThrows(s)
    BY <2>4 DEF Hook!PostThrows, Hook!Step
  <2>5. CASE Hook!ReadBody(s) \/ Hook!ReadBodyThrows(s)
    BY <2>5 DEF Hook!ReadBody, Hook!ReadBodyThrows, Hook!Verdict, Hook!Step
  <2>6. CASE Hook!UpdateDelivery(s)
    BY <2>6 DEF Hook!UpdateDelivery, Hook!Step
  <2>7. CASE Hook!UpdateDeliveryFails(s)
    BY <2>7 DEF Hook!UpdateDeliveryFails, Hook!AfterUpdateFailed, Hook!Step
  <2> QED
    BY <1>3, <2>1, <2>2, <2>3, <2>4, <2>5, <2>6, <2>7 DEF Hook!Proceeds
<1>4. CASE Hook!Crash
  BY <1>4 DEF Hook!Crash
<1>5. CASE UNCHANGED Hook!vars
  BY <1>5 DEF Hook!vars
<1> QED
  BY <1>1, <1>2, <1>3, <1>4, <1>5 DEF Hook!Next

\* The types and the inductive invariant.
THEOREM WebhooksInvariant == Hook!Spec => []Hook!IInv
<1>1. Hook!Init => Hook!IInv
  BY DEF Hook!Init, Hook!IInv, Hook!TypeOK, Hook!Waiting, Hook!Ended, Hook!StagesKnow, Hook!ReturnedIsSettled,
         Hook!SuccessWasAccepted, Hook!ArrivalsAreRecorded
<1> QED
  BY <1>1, WebhooksStep, PTL DEF Hook!Spec

\* updateDelivery("success") is reached only behind response.ok.
THEOREM WebhooksSuccess == Hook!Spec => []Hook!SuccessWasAccepted
<1>1. Hook!IInv => Hook!SuccessWasAccepted
  BY DEF Hook!IInv
<1> QED
  BY <1>1, WebhooksInvariant, PTL

\* insertDelivery precedes the POST, whatever fails.
THEOREM WebhooksTraced == Hook!Spec => []Hook!ArrivalsAreRecorded
<1>1. Hook!IInv => Hook!ArrivalsAreRecorded
  BY DEF Hook!IInv
<1> QED
  BY <1>1, WebhooksInvariant, PTL

\* allSettled waits for every delivery and isolates them from one another.
THEOREM WebhooksSettle == Hook!Spec => []Hook!ReturnLeavesNoPending
<1>1. Hook!IInv => Hook!ReturnLeavesNoPending
  BY DEF Hook!IInv, Hook!StagesKnow, Hook!ReturnedIsSettled, Hook!ReturnLeavesNoPending, Hook!Ended
<1> QED
  BY <1>1, WebhooksInvariant, PTL
=============================================================================
