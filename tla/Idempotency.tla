----------------------------- MODULE Idempotency -----------------------------
(***************************************************************************)
(* Idempotency keys: IdempotencyInterceptor, IdempotencyRepository and the *)
(* hourly job of CleanupScheduler.                                         *)
(*                                                                         *)
(* The interceptor looks the key up, runs the handler and stores what it   *)
(* returned, with nothing reserved in between; it stores in a tap whose    *)
(* promise nobody awaits, so the answer and the store race.  An operator   *)
(* X_Y is a mutant of X.                                                   *)
(***************************************************************************)
EXTENDS FiniteSets, Integers

CONSTANTS
  Keys, Calls,
  None,            \* no key, no stored response
  Faults           \* what may fail: a handler, a statement, the process

ASSUME NoneAssumption == None \notin Keys \cup Calls
ASSUME FaultsAssumption == Faults \subseteq {"handler", "query", "crash"}

VARIABLES
  row,        \* the idempotency_keys row: the call whose response it holds
  fresh,      \* whether its expiresAt is yet to come
  call,       \* each call: its key, progress, response and the storing of it
  executed,   \* calls whose handler completed its work
  excused     \* keys that met an overlap, an expiry or a failed store

vars == <<row, fresh, call, executed, excused>>

\* A GET, a DELETE or a call without the header has the key None.
Records == [key : Keys \cup {None},
            at : {"new", "running", "done", "answered", "failed", "lost"},
            body : Calls \cup {None},
            save : {"none", "pending", "saved", "failed"}]

TypeOK ==
  /\ row \in [Keys -> Calls \cup {None}]
  /\ fresh \in [Keys -> BOOLEAN]
  /\ call \in [Calls -> Records]
  /\ executed \in SUBSET Calls
  /\ excused \in SUBSET Keys

Init ==
  /\ row = [k \in Keys |-> None]
  /\ fresh = [k \in Keys |-> FALSE]
  /\ call \in [Calls -> [key : Keys \cup {None}, at : {"new"}, body : {None}, save : {"none"}]]
  /\ executed = {}
  /\ excused = {}

-----------------------------------------------------------------------------
Keyed(c) == call[c].key \in Keys
InFlight(c) == call[c].at = "running" \/ call[c].save = "pending"
Set(c, r) == call' = [call EXCEPT ![c] = r]
Excuse(c) == excused' = excused \cup ({call[c].key} \cap Keys)

PassThrough(c) ==
  /\ call[c].at = "new" /\ ~Keyed(c)
  /\ Set(c, [call[c] EXCEPT !.at = "running"])
  /\ UNCHANGED <<row, fresh, executed, excused>>

\* findByKey: SELECT ... AND "expiresAt" > NOW()
Finds(k) == row[k] # None /\ fresh[k]

Replay(c) ==
  /\ call[c].at = "new" /\ Keyed(c)
  /\ Finds(call[c].key)
  /\ Set(c, [call[c] EXCEPT !.at = "answered", !.body = row[call[c].key]])
  /\ UNCHANGED <<row, fresh, executed, excused>>

Miss(c) ==
  /\ call[c].at = "new" /\ Keyed(c)
  /\ ~Finds(call[c].key)
  /\ Set(c, [call[c] EXCEPT !.at = "running"])
  /\ IF \E d \in Calls \ {c} : call[d].key = call[c].key /\ InFlight(d)
     THEN Excuse(c) ELSE UNCHANGED excused
  /\ UNCHANGED <<row, fresh, executed>>

FindFails(c) ==
  /\ call[c].at = "new" /\ Keyed(c)
  /\ "query" \in Faults
  /\ Set(c, [call[c] EXCEPT !.at = "failed"])
  /\ UNCHANGED <<row, fresh, executed, excused>>

\* The handler returns: tap starts to store, the response goes out.
HandlerReturns(c) ==
  /\ call[c].at = "running"
  /\ Set(c, [call[c] EXCEPT !.at = "done", !.body = c,
                            !.save = IF Keyed(c) THEN "pending" ELSE "none"])
  /\ executed' = executed \cup {c}
  /\ UNCHANGED <<row, fresh, excused>>

\* tap does not see an error, so nothing is stored.
StoresErrors_Finalize(c) == Keyed(c)
StoresErrors(c) == FALSE

HandlerThrows(c) ==
  /\ call[c].at = "running"
  /\ "handler" \in Faults
  /\ Set(c, [call[c] EXCEPT !.at = "failed",
                            !.save = IF StoresErrors(c) THEN "pending" ELSE "none"])
  /\ UNCHANGED <<row, fresh, executed, excused>>

Respond(c) ==
  /\ call[c].at = "done"
  /\ Set(c, [call[c] EXCEPT !.at = "answered"])
  /\ UNCHANGED <<row, fresh, executed, excused>>

\* save: INSERT ... ON CONFLICT (key) DO UPDATE
Save(c) ==
  /\ call[c].save = "pending"
  /\ Set(c, [call[c] EXCEPT !.save = "saved"])
  /\ row' = [row EXCEPT ![call[c].key] = c]
  /\ fresh' = [fresh EXCEPT ![call[c].key] = TRUE]
  /\ UNCHANGED <<executed, excused>>

\* The error is logged; the response has gone or goes out all the same.
SaveFails(c) ==
  /\ call[c].save = "pending"
  /\ "query" \in Faults
  /\ Set(c, [call[c] EXCEPT !.save = "failed"])
  /\ Excuse(c)
  /\ UNCHANGED <<row, fresh, executed>>

Expire(k) ==
  /\ Finds(k)
  /\ fresh' = [fresh EXCEPT ![k] = FALSE]
  /\ excused' = excused \cup {k}
  /\ UNCHANGED <<row, call, executed>>

Deletable_All(k) == row[k] # None
Deletable(k) == row[k] # None /\ ~fresh[k]

\* A failed cleanup is logged and leaves the table as it is.
CleanupExpiredKeys ==
  /\ \E k \in Keys : Deletable(k)
  /\ row' = [k \in Keys |-> IF Deletable(k) THEN None ELSE row[k]]
  /\ UNCHANGED <<fresh, call, executed, excused>>

\* The process stops: running handlers roll back, pending stores are lost.
Crash ==
  /\ "crash" \in Faults
  /\ \E c \in Calls : call[c].at \in {"running", "done"} \/ call[c].save = "pending"
  /\ call' = [c \in Calls |->
       [call[c] EXCEPT !.at = IF @ \in {"running", "done"} THEN "lost" ELSE @,
                       !.save = IF @ = "pending" THEN "failed" ELSE @]]
  /\ excused' = excused \cup
       {k \in Keys : \E c \in Calls : call[c].key = k /\ call[c].save = "pending"}
  /\ UNCHANGED <<row, fresh, executed>>

-----------------------------------------------------------------------------
Handle(c) ==
  \/ PassThrough(c) \/ Replay(c) \/ Miss(c) \/ FindFails(c)
  \/ HandlerReturns(c) \/ HandlerThrows(c) \/ Respond(c)
  \/ Save(c) \/ SaveFails(c)

Next ==
  \/ \E c \in Calls : Handle(c)
  \/ \E k \in Keys : Expire(k)
  \/ CleanupExpiredKeys
  \/ Crash

Spec == Init /\ [][Next]_vars

-----------------------------------------------------------------------------
(* Properties.                                                             *)

\* Unless calls with the key overlapped, its row expired or a store failed,
\* the work of a key is done at most once.
OneExecutionPerKey ==
  \A c, d \in executed :
    c # d /\ call[c].key = call[d].key /\ Keyed(c) => call[c].key \in excused

\* A replayed answer is the response of an execution that completed under
\* the same key, never an error and never a response of another key.
ReplayIsGenuine ==
  \A c \in Calls :
    call[c].at = "answered" =>
      call[c].body \in executed /\ call[call[c].body].key = call[c].key

\* The inductive strengthening.  Of a key that is not excused: one call is in
\* flight at most, and only while nothing is stored; an execution is in
\* flight or its response is stored and fresh.
CallsAreSound ==
  \A c \in Calls :
    /\ call[c].save = "pending" => c \in executed /\ Keyed(c)
    /\ call[c].at \in {"done", "answered"} => call[c].body \in executed
    /\ call[c].at = "done" => call[c].body = c
    /\ call[c].at \in {"new", "running"} => c \notin executed /\ call[c].save = "none"

RowsAreGenuine ==
  \A k \in Keys : row[k] # None => row[k] \in executed /\ call[row[k]].key = k

UnexcusedKeys ==
  \A k \in Keys \ excused :
    /\ row[k] # None => fresh[k]
    /\ \A c \in Calls : call[c].key = k /\ InFlight(c) =>
         /\ row[k] = None
         /\ \A d \in Calls : call[d].key = k /\ InFlight(d) => c = d
         /\ \A d \in executed : call[d].key = k => c = d
    /\ \A c \in executed : call[c].key = k => call[c].save = "pending" \/ row[k] = c

IInv ==
  /\ TypeOK /\ CallsAreSound /\ RowsAreGenuine /\ UnexcusedKeys
  /\ OneExecutionPerKey /\ ReplayIsGenuine
=============================================================================
