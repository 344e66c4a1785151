----------------------------- MODULE DeadLetter -----------------------------
(***************************************************************************)
(* Dead letters: DeadLetterRepository, DeadLetterService and the job of    *)
(* CleanupScheduler that retries failed events every five minutes.         *)
(*                                                                         *)
(* A run reads all the events that are due, and works on what it read:     *)
(* attempts is the value of the time of that read.  Runs overlap when one  *)
(* takes longer than the interval or several instances share the table,    *)
(* and both updates address the row by its id alone.  An operator X_Y is a *)
(* mutant of X.                                                            *)
(***************************************************************************)
EXTENDS FiniteSets, Integers

CONSTANTS
  Events,
  Runs,            \* runs of the job that can be under way together
  MaxAttempts,     \* DeadLetterOptions.maxAttempts
  SuppressErrors,  \* whether the event emitter swallows a listener's error
  Faults           \* what may fail: a listener, a statement, the process

ASSUME EventsAssumption == Events # {}
ASSUME MaxAssumption == MaxAttempts \in Nat \ {0}
ASSUME SuppressAssumption == SuppressErrors \in BOOLEAN
ASSUME FaultsAssumption == Faults \subseteq {"listener", "query", "crash"}

VARIABLES
  status,     \* the failed_events row of each event
  attempts,   \* its attempts column
  due,        \* whether its nextRetryAt has passed
  run,        \* what each run read, the events left and the one in hand
  handled,    \* events whose listeners ran to completion at least once
  retries,    \* how often each event was emitted again, capped
  overlaps    \* whether a run may start while another one is under way

vars == <<status, attempts, due, run, handled, retries, overlaps>>

Settled == {"resolved", "exhausted"}
MaxColumn == IF MaxAttempts = 1 THEN 2 ELSE MaxAttempts
MaxRetries == MaxColumn - 1                \* the cap of retries

Runners == [at : {"idle", "next", "handled", "failed"},
            left : SUBSET Events,
            event : Events,
            read : [Events -> 0 .. MaxColumn]]

Idle == [at |-> "idle", left |-> {}, event |-> CHOOSE e \in Events : TRUE,
         read |-> [e \in Events |-> 0]]

TypeOK ==
  /\ status \in [Events -> {"absent", "pending_retry"} \cup Settled]
  /\ attempts \in [Events -> 0 .. MaxColumn]
  /\ due \in [Events -> BOOLEAN]
  /\ run \in [Runs -> Runners]
  /\ handled \in SUBSET Events
  /\ retries \in [Events -> 0 .. MaxRetries]
  /\ overlaps \in BOOLEAN

Init ==
  /\ status = [e \in Events |-> "absent"]
  /\ attempts = [e \in Events |-> 0]
  /\ due = [e \in Events |-> FALSE]
  /\ run = [p \in Runs |-> Idle]
  /\ handled = {}
  /\ retries = [e \in Events |-> 0]
  /\ overlaps \in BOOLEAN

-----------------------------------------------------------------------------
row == <<status, attempts, due>>

Insert(e, state, n) ==
  /\ status' = [status EXCEPT ![e] = state]
  /\ attempts' = [attempts EXCEPT ![e] = n]

\* recordFailure: the first, failed delivery counts as an attempt.
RecordFailure(e) ==
  /\ status[e] = "absent"
  /\ Insert(e, "pending_retry", 1)
  /\ UNCHANGED <<due, run, handled, retries, overlaps>>

\* The back-off of an event is over.
BecomeDue(e) ==
  /\ status[e] = "pending_retry" /\ ~due[e]
  /\ due' = [due EXCEPT ![e] = TRUE]
  /\ UNCHANGED <<status, attempts, run, handled, retries, overlaps>>

PendingRetries == {e \in Events : status[e] = "pending_retry" /\ due[e]}

FindPendingRetries(p) ==
  /\ run[p].at = "idle"
  /\ PendingRetries # {}
  /\ overlaps \/ \A q \in Runs : run[q].at = "idle"
  /\ run' = [run EXCEPT ![p].at = "next", ![p].left = PendingRetries, ![p].read = attempts]
  /\ UNCHANGED <<row, handled, retries, overlaps>>

\* The events come in the order of nextRetryAt, which is left open here.
Takes(p, e, at) ==
  /\ run[p].at = "next" /\ e \in run[p].left
  /\ run' = [run EXCEPT ![p].at = at, ![p].event = e, ![p].left = @ \ {e}]
  /\ retries' = [retries EXCEPT ![e] = IF @ < MaxRetries THEN @ + 1 ELSE @]

EmitHandled(p, e) ==
  /\ Takes(p, e, "handled")
  /\ handled' = handled \cup {e}
  /\ UNCHANGED <<row, overlaps>>

\* Where a listener that threw leads; the emitter may swallow the error.
AfterThrow_Resolved == "handled"
AfterThrow == IF SuppressErrors THEN "handled" ELSE "failed"

EmitThrows(p, e) ==
  /\ "listener" \in Faults
  /\ Takes(p, e, AfterThrow)
  /\ UNCHANGED <<row, handled, overlaps>>

Go(p, at) == run' = [run EXCEPT ![p].at = at]

MarkResolved(p) ==
  /\ run[p].at = "handled"
  /\ status' = [status EXCEPT ![run[p].event] = "resolved"]
  /\ due' = [due EXCEPT ![run[p].event] = FALSE]
  /\ Go(p, "next")
  /\ UNCHANGED <<attempts, handled, retries, overlaps>>

\* markResolved is inside the try: when it fails, the event counts as failed.
MarkResolvedFails(p) ==
  /\ run[p].at = "handled"
  /\ "query" \in Faults
  /\ Go(p, "failed")
  /\ UNCHANGED <<row, handled, retries, overlaps>>

NewAttempts_Stuck(p) == run[p].read[run[p].event]
NewAttempts(p) == run[p].read[run[p].event] + 1
Exhausts_Late(n) == n > MaxAttempts
Exhausts_Early(n) == n >= MaxAttempts - 1
Exhausts(n) == n >= MaxAttempts

UpdateStatus(p) ==
  LET e == run[p].event IN
  /\ run[p].at = "failed"
  /\ status' = [status EXCEPT ![e] =
                  IF Exhausts(NewAttempts(p)) THEN "exhausted" ELSE "pending_retry"]
  /\ attempts' = [attempts EXCEPT ![e] = NewAttempts(p)]
  /\ due' = [due EXCEPT ![e] = FALSE]
  /\ Go(p, "next")
  /\ UNCHANGED <<handled, retries, overlaps>>

\* updateStatus is in the catch: its error ends the run, the rest is left.
UpdateStatusFails(p) ==
  /\ run[p].at = "failed"
  /\ "query" \in Faults
  /\ run' = [run EXCEPT ![p] = Idle]
  /\ UNCHANGED <<row, handled, retries, overlaps>>

EndRun(p) ==
  /\ run[p].at = "next" /\ run[p].left = {}
  /\ run' = [run EXCEPT ![p] = Idle]
  /\ UNCHANGED <<row, handled, retries, overlaps>>

Crash ==
  /\ "crash" \in Faults
  /\ \E p \in Runs : run[p].at # "idle"
  /\ run' = [p \in Runs |-> Idle]
  /\ UNCHANGED <<row, handled, retries, overlaps>>

-----------------------------------------------------------------------------
Progress(p) ==
  \/ FindPendingRetries(p) \/ EndRun(p)
  \/ \E e \in Events : EmitHandled(p, e) \/ EmitThrows(p, e)
  \/ MarkResolved(p) \/ MarkResolvedFails(p) \/ UpdateStatus(p) \/ UpdateStatusFails(p)

Next ==
  \/ \E e \in Events : RecordFailure(e) \/ BecomeDue(e)
  \/ \E p \in Runs : Progress(p)
  \/ Crash

Spec == Init /\ [][Next]_vars

\* Time passes, and the job fires for ever.  Listeners may always fail; a
\* crash or a failing statement may recur, but does not hit the same step of
\* an event every time.
Deliver(e) == \E p \in Runs : EmitHandled(p, e) \/ EmitThrows(p, e)
Settle(e) == \E p \in Runs : run[p].event = e /\ (MarkResolved(p) \/ UpdateStatus(p))

FairSpec ==
  /\ Spec
  /\ \A p \in Runs : WF_vars(Progress(p))
  /\ \A e \in Events :
       WF_vars(BecomeDue(e)) /\ SF_vars(Deliver(e)) /\ SF_vars(Settle(e))

-----------------------------------------------------------------------------
(* Properties.                                                             *)

\* When listeners' errors reach the service, an event is resolved only after
\* its listeners handled it, with overlapping runs, stale reads and crashes.
ResolvedWasHandled == \A e \in Events : status[e] = "resolved" => e \in handled

\* The inductive strengthening: what a run is about to resolve was handled,
\* and what it has read is in the table.
RunsAreSound ==
  \A p \in Runs :
    /\ run[p].at = "handled" => SuppressErrors \/ run[p].event \in handled
    /\ run[p].at \in {"handled", "failed"} => status[run[p].event] # "absent"
    /\ run[p].at \in {"handled", "failed"} =>
          run[p].read[run[p].event] < MaxColumn
    /\ \A e \in run[p].left : status[e] # "absent" /\ run[p].read[e] < MaxColumn

PendingCounts ==
  \A e \in Events :
    status[e] = "pending_retry" => attempts[e] = 1 \/ attempts[e] < MaxAttempts

\* Every attempt in the column but the first was a retry; a run that has an
\* event in hand has added the retry that its update will count.
RetriesCovered ==
  /\ \A e \in Events : status[e] # "absent" => attempts[e] \in 1 .. retries[e] + 1
  /\ \A p \in Runs :
        /\ \A e \in run[p].left : run[p].read[e] \in 1 .. retries[e] + 1
        /\ run[p].at \in {"handled", "failed"} =>
              run[p].read[run[p].event] \in 1 .. retries[run[p].event]

\* A run that has the table for itself works on pending events only.
AloneOnPending ==
  ~overlaps =>
    \A p \in Runs : run[p].at # "idle" =>
      /\ \A q \in Runs \ {p} : run[q].at = "idle"
      /\ \A e \in run[p].left : status[e] = "pending_retry"
      /\ run[p].at \in {"handled", "failed"} =>
            status[run[p].event] = "pending_retry" /\ run[p].event \notin run[p].left

\* No event is given up early: an exhausted event was retried MaxAttempts - 1
\* times, at least once.  (The failed first delivery counts as an attempt.)
ExhaustedAfterRetries ==
  \A e \in Events : status[e] = "exhausted" => retries[e] >= MaxAttempts - 1 /\ retries[e] > 0

IInv ==
  /\ TypeOK
  /\ RunsAreSound
  /\ PendingCounts
  /\ RetriesCovered
  /\ AloneOnPending
  /\ SuppressErrors \/ ResolvedWasHandled
  /\ ExhaustedAfterRetries

\* Where runs do not overlap the store implements at-least-once delivery and
\* no resolved event is taken up again.
Exclusive(S) == IF overlaps THEN {} ELSE S
Store == INSTANCE AtLeastOnce WITH
  accepted <- Exclusive({e \in Events : status[e] # "absent"}),
  handled <- Exclusive(handled),
  retired <- Exclusive({e \in Events : status[e] = "resolved"})
ImplementsAtLeastOnce == Store!Spec

\* Every recorded event is eventually resolved or exhausted, however often
\* its listeners fail and runs overlap.
EventuallySettled ==
  \A e \in Events : status[e] = "pending_retry" ~> status[e] \in Settled
=============================================================================
