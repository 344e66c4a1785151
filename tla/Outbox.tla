------------------------------- MODULE Outbox -------------------------------
(***************************************************************************)
(* The transactional outbox: OutboxRepository and OutboxPublisher.         *)
(*                                                                         *)
(* A cron job polls the oldest unpublished events every ten seconds, emits *)
(* them one after the other and marks the emitted ones in one statement at *)
(* the end.  A run that takes longer than the interval overlaps the next   *)
(* one, and several instances of the application poll the same table.  An  *)
(* operator X_Y is a mutant of X.                                          *)
(***************************************************************************)
EXTENDS FiniteSets, Integers

CONSTANTS
  NumEvents,       \* events, numbered by their createdAt
  Runs,            \* runs of the cron job that can be under way together
  Limit,           \* LIMIT of findUnpublished
  Poison,          \* events whose listener always throws
  SuppressErrors,  \* whether the event emitter swallows a listener's error
  Faults           \* what may fail: a listener, a statement, the process

Events == 1 .. NumEvents

ASSUME NumAssumption == NumEvents \in Nat
ASSUME LimitAssumption == Limit \in Nat \ {0}
ASSUME SuppressAssumption == SuppressErrors \in BOOLEAN
ASSUME PoisonAssumption == Poison \subseteq Events
ASSUME FaultsAssumption == Faults \subseteq {"listener", "query", "crash"}

VARIABLES
  row,        \* the outbox row of each event
  run,        \* what each run still has to emit and what it will mark
  handled     \* events whose listeners ran to completion at least once

vars == <<row, run, handled>>

TypeOK ==
  /\ row \in [Events -> {"absent", "pending", "published"}]
  /\ run \in [Runs -> [busy : BOOLEAN, todo : SUBSET Events, publishedIds : SUBSET Events]]
  /\ handled \in SUBSET Events

NotRunning == [busy |-> FALSE, todo |-> {}, publishedIds |-> {}]

Init ==
  /\ row = [e \in Events |-> "absent"]
  /\ run = [p \in Runs |-> NotRunning]
  /\ handled = {}

-----------------------------------------------------------------------------
\* insertEvent.  Transactions commit in another order than that of the
\* createdAt of their events.
Insert(e) ==
  /\ row[e] = "absent"
  /\ row' = [row EXCEPT ![e] = "pending"]
  /\ UNCHANGED <<run, handled>>

Unpublished == {e \in Events : row[e] = "pending"}
Oldest_One(S) == {e \in S : \A f \in S : e <= f}
Oldest(S) == {e \in S : Cardinality({f \in S : f < e}) < Limit}

Poll(p) ==
  /\ ~run[p].busy
  /\ Unpublished # {}
  /\ run' = [run EXCEPT ![p] = [busy |-> TRUE, todo |-> Oldest(Unpublished),
                                publishedIds |-> {}]]
  /\ UNCHANGED <<row, handled>>

Emitting(p, e) == e \in run[p].todo /\ \A f \in run[p].todo : e <= f

\* emitAsync resolves: the event joins publishedIds.
EmitHandled(p, e) ==
  /\ Emitting(p, e) /\ e \notin Poison
  /\ handled' = handled \cup {e}
  /\ run' = [run EXCEPT ![p].todo = @ \ {e}, ![p].publishedIds = @ \cup {e}]
  /\ UNCHANGED row

\* A listener throws.  The publisher logs and goes on; an emitter that
\* swallows the error makes it take the event for published.
PublishedIds_All(ids, e) == ids \cup {e}
PublishedIds(ids, e) == IF SuppressErrors THEN ids \cup {e} ELSE ids

EmitThrows(p, e) ==
  /\ Emitting(p, e) /\ (e \in Poison \/ "listener" \in Faults)
  /\ run' = [run EXCEPT ![p].todo = @ \ {e},
                        ![p].publishedIds = PublishedIds(@, e)]
  /\ UNCHANGED <<row, handled>>

\* markPublished, when there is anything to mark.
Mark(p) ==
  /\ run[p].busy /\ run[p].todo = {}
  /\ row' = [e \in Events |-> IF e \in run[p].publishedIds THEN "published" ELSE row[e]]
  /\ run' = [run EXCEPT ![p] = NotRunning]
  /\ UNCHANGED handled

MarkFails(p) ==
  /\ run[p].busy /\ run[p].todo = {} /\ run[p].publishedIds # {}
  /\ "query" \in Faults
  /\ run' = [run EXCEPT ![p] = NotRunning]
  /\ UNCHANGED <<row, handled>>

Crash ==
  /\ "crash" \in Faults
  /\ \E p \in Runs : run[p].busy
  /\ run' = [p \in Runs |-> NotRunning]
  /\ UNCHANGED <<row, handled>>

-----------------------------------------------------------------------------
Progress(p) ==
  \/ Poll(p)
  \/ \E e \in Events : EmitHandled(p, e) \/ EmitThrows(p, e)
  \/ Mark(p) \/ MarkFails(p)

Next ==
  \/ \E e \in Events : Insert(e)
  \/ \E p \in Runs : Progress(p)
  \/ Crash

Spec == Init /\ [][Next]_vars

\* The cron job fires for ever and a run goes on until it ends.  Crashes,
\* failing statements and failing listeners may recur, but none hits the same
\* step every time, except that a poisonous event always fails.
FairSpec ==
  /\ Spec
  /\ \A p \in Runs :
       /\ WF_vars(Progress(p))
       /\ SF_vars(run[p].publishedIds # {} /\ Mark(p))
       /\ \A e \in Events : IF e \in Poison THEN SF_vars(EmitThrows(p, e))
                                              ELSE SF_vars(EmitHandled(p, e))

-----------------------------------------------------------------------------
(* Properties.                                                             *)

\* When listeners' errors reach the publisher the outbox is a store with
\* at-least-once delivery, with overlapping runs and crashes between the
\* emission and the mark.
Store == INSTANCE AtLeastOnce WITH
  accepted <- {e \in Events : row[e] # "absent"},
  retired <- {e \in Events : row[e] = "published"}
ImplementsAtLeastOnce == Store!Spec

\* An event is marked only if its listeners handled it once.
PublishedWasHandled == \A e \in Events : row[e] = "published" => e \in handled

\* The inductive strengthening: what a run will mark was handled, and what it
\* handles is in the table.
RunsAreSound ==
  \A p \in Runs :
    /\ run[p].publishedIds \subseteq handled
    /\ \A e \in run[p].todo \cup run[p].publishedIds : row[e] # "absent"

IInv == TypeOK /\ RunsAreSound /\ PublishedWasHandled

\* Every event whose listener works is eventually handled, as long as fewer
\* poisonous events than one batch holds block the table's front.
EventuallyHandled ==
  \A e \in Events \ Poison : row[e] = "pending" ~> e \in handled
=============================================================================
