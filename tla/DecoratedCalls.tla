--------------------------- MODULE DecoratedCalls ---------------------------
(***************************************************************************)
(* A method that reads a row, under the decorators Cacheable, Retryable    *)
(* and UseCircuitBreaker (any of them, in this order), while the row is    *)
(* changed and its key invalidated.                                        *)
(*                                                                         *)
(* The row is its version; version 0 is no row, for which the method       *)
(* returns null.  Calls have the same arguments and so one cache key.  An  *)
(* attempt is one execution of the method; what opossum abandons after its *)
(* timeout runs on.  An operator X_Y is a mutant of X.                     *)
(***************************************************************************)
EXTENDS Integers, FiniteSets

CONSTANTS
  Calls,
  MaxRetries,   \* RetryableOptions.maxRetries
  MaxVersion,   \* bounds the changes of the row
  None,
  Faults        \* what may fail: the method, the cache

ASSUME BoundsAssumption == MaxRetries \in Nat /\ MaxVersion \in Nat
ASSUME FaultsAssumption == Faults \subseteq {"business", "technical", "cache"}

VARIABLES
  decorators,    \* those on the method whose services are there
  version,       \* the row
  entry,         \* what the cache holds under the key
  invalidation,  \* the invalidation under way
  floor,         \* the version that the last completed invalidation followed
  breaker,       \* the circuit
  call,          \* each call
  running        \* its executions: the version at the start of each, by attempt

vars == <<decorators, version, entry, invalidation, floor, breaker, call, running>>
row == <<decorators, version, invalidation, floor>>

Versions == 0 .. MaxVersion
Attempts == 0 .. MaxRetries

\* raced, technical and business are history: whether an invalidation began
\* since the attempt did, and the failures that the decorators saw.
Records ==
  [at : {"idle", "get", "fire", "running", "delay", "set", "ok", "failed"},
   attempt : Attempts, result : Versions, raced : BOOLEAN,
   technical : 0 .. MaxRetries + 1, business : BOOLEAN]

TypeOK ==
  /\ decorators \subseteq {"Cacheable", "Retryable", "UseCircuitBreaker"}
  /\ version \in Versions /\ floor \in Versions
  /\ entry \in {None} \cup [value : Versions, raced : BOOLEAN]
  /\ invalidation \in {None} \cup [version : Versions, deletes : BOOLEAN]
  /\ breaker \in {"closed", "open", "halfOpen", "trial"}
  /\ call \in [Calls -> Records]
  /\ running \in [Calls -> [Attempts -> Versions \cup {None}]]

Init ==
  /\ decorators \in SUBSET {"Cacheable", "Retryable", "UseCircuitBreaker"}
  /\ version = 0 /\ floor = 0
  /\ entry = None
  /\ invalidation = None
  /\ breaker = "closed"
  /\ call = [c \in Calls |-> [at |-> "idle", attempt |-> 0, result |-> 0, raced |-> FALSE,
                              technical |-> 0, business |-> FALSE]]
  /\ running = [c \in Calls |-> [a \in Attempts |-> None]]

-----------------------------------------------------------------------------
(* Cacheable.                                                              *)

Call(c) ==
  /\ call[c].at = "idle"
  /\ call' = [call EXCEPT ![c].at = IF "Cacheable" \in decorators THEN "get" ELSE "fire"]
  /\ UNCHANGED <<row, entry, breaker, running>>

Answers(c, value) == call' = [call EXCEPT ![c].at = "ok", ![c].result = value]

\* Only the Redis adapter ever fails, which the options must ask for.
CacheMayFail == "cache" \in Faults

Hits == entry # None /\ entry.value # 0      \* a cached null is a miss

GetHit(c) ==
  /\ call[c].at = "get" /\ Hits
  /\ Answers(c, entry.value)
  /\ UNCHANGED <<row, entry, breaker, running>>

\* No entry, or an error of the cache, which is swallowed.
GetMiss(c) ==
  /\ call[c].at = "get" /\ (~Hits \/ CacheMayFail)
  /\ call' = [call EXCEPT ![c].at = "fire"]
  /\ UNCHANGED <<row, entry, breaker, running>>

Set(c) ==
  /\ call[c].at = "set"
  /\ entry' = [value |-> call[c].result, raced |-> call[c].raced]
  /\ Answers(c, call[c].result)
  /\ UNCHANGED <<row, breaker, running>>

AfterSetFailed_Throws == "failed"
AfterSetFailed == "ok"

\* The error is swallowed; the entry may be written all the same.
SetFails(c) ==
  /\ call[c].at = "set" /\ CacheMayFail
  /\ call' = [call EXCEPT ![c].at = AfterSetFailed]
  /\ \/ entry' = [value |-> call[c].result, raced |-> call[c].raced]
     \/ UNCHANGED entry
  /\ UNCHANGED <<row, breaker, running>>

-----------------------------------------------------------------------------
(* UseCircuitBreaker around one execution; opossum counts every error.     *)

Breaks == "UseCircuitBreaker" \in decorators

\* The rolling error rate is left open.
Succeeds == breaker' = IF Breaks /\ breaker \in {"halfOpen", "trial"} THEN "closed" ELSE breaker
Counts ==
  IF ~Breaks THEN UNCHANGED breaker
  ELSE \/ breaker' = "open"
       \/ breaker = "closed" /\ UNCHANGED breaker

Start(c) ==
  /\ running' = [running EXCEPT ![c][call[c].attempt] = version]
  /\ call' = [call EXCEPT ![c].at = "running", ![c].raced = FALSE]

Fire(c) ==
  /\ call[c].at = "fire"
  /\ Breaks => breaker \in {"closed", "halfOpen"}
  /\ Start(c)
  /\ breaker' = IF Breaks /\ breaker = "halfOpen" THEN "trial" ELSE breaker
  /\ UNCHANGED <<row, entry>>

ResetTimeout ==
  /\ breaker = "open"
  /\ breaker' = "halfOpen"
  /\ UNCHANGED <<row, entry, call, running>>

Ends(c) == running' = [running EXCEPT ![c][call[c].attempt] = None]

\* The method saw the row at some time of its execution.
Return(c) ==
  /\ call[c].at = "running"
  /\ \E seen \in running[c][call[c].attempt] .. version :
       IF "Cacheable" \in decorators
       THEN call' = [call EXCEPT ![c].at = "set", ![c].result = seen]
       ELSE Answers(c, seen)
  /\ Ends(c)
  /\ Succeeds
  /\ UNCHANGED <<row, entry>>

-----------------------------------------------------------------------------
(* Retryable.                                                              *)

LastAttempt == IF "Retryable" \in decorators THEN MaxRetries ELSE 0

MayRetry_Late(c, kind) == kind = "technical" /\ call[c].attempt <= LastAttempt
MayRetry(c, kind) == kind = "technical" /\ call[c].attempt < LastAttempt

Fails(c, kind) ==
  call' = [call EXCEPT
    ![c].at = IF MayRetry(c, kind) THEN "delay" ELSE "failed",
    ![c].technical = IF kind = "technical" THEN @ + 1 ELSE @,
    ![c].business = @ \/ kind = "business"]

Throw(c, kind) ==
  /\ call[c].at = "running"
  /\ kind \in Faults
  /\ Fails(c, kind)
  /\ Ends(c)
  /\ Counts
  /\ UNCHANGED <<row, entry>>

\* The timer of opossum rejects; the execution goes on.
TimesOut_Without(c) == FALSE
TimesOut(c) == Breaks /\ call[c].at = "running"

Timeout(c) ==
  /\ TimesOut(c)
  /\ Fails(c, "technical")
  /\ Counts
  /\ UNCHANGED <<row, entry, running>>

\* Its end, later, is ignored.
AbandonedEnds(c) ==
  /\ \E a \in Attempts :
       /\ running[c][a] # None
       /\ call[c].at = "running" => a # call[c].attempt
       /\ running' = [running EXCEPT ![c][a] = None]
  /\ UNCHANGED <<row, entry, breaker, call>>

\* An open circuit rejects with an error that is no ExceptionBase.
Reject(c) ==
  /\ call[c].at = "fire"
  /\ Breaks /\ breaker \in {"open", "trial"}
  /\ Fails(c, "technical")
  /\ UNCHANGED <<row, entry, breaker, running>>

DelayEnds(c) ==
  /\ call[c].at = "delay"
  /\ call' = [call EXCEPT ![c].at = "fire", ![c].attempt = @ + 1]
  /\ UNCHANGED <<row, entry, breaker, running>>

-----------------------------------------------------------------------------
(* The row, and the cache adapters.                                        *)

Update ==
  /\ version < MaxVersion
  /\ version' = version + 1
  /\ UNCHANGED <<decorators, entry, invalidation, floor, breaker, call, running>>

\* An invalidation begins after an update: del deletes whatever is there,
\* invalidatePattern the keys that KEYS found (one step in the memory adapter).
Raced == [c \in Calls |-> [call[c] EXCEPT !.raced = @ \/ call[c].at \in {"running", "set"}]]

Invalidate ==
  /\ invalidation = None /\ floor < version
  /\ \E deletes \in {TRUE, entry # None} :
       invalidation' = [version |-> version, deletes |-> deletes]
  /\ call' = Raced
  /\ UNCHANGED <<decorators, version, entry, floor, breaker, running>>

Deletes_Never == FALSE
Deletes == invalidation.deletes

Delete ==
  /\ invalidation # None
  /\ entry' = IF Deletes THEN None ELSE entry
  /\ floor' = invalidation.version
  /\ invalidation' = None
  /\ UNCHANGED <<decorators, version, breaker, call, running>>

DeleteFails ==
  /\ invalidation # None /\ CacheMayFail
  /\ invalidation' = None
  /\ UNCHANGED <<decorators, version, entry, floor, breaker, call, running>>

Expire ==
  /\ entry # None
  /\ entry' = None
  /\ UNCHANGED <<row, breaker, call, running>>

-----------------------------------------------------------------------------
Kinds == {"business", "technical"}

Progress(c) ==
  \/ GetHit(c) \/ GetMiss(c) \/ Set(c) \/ SetFails(c)
  \/ Fire(c) \/ Reject(c) \/ Timeout(c) \/ DelayEnds(c)

Next ==
  \/ \E c \in Calls : Call(c) \/ Progress(c) \/ Return(c) \/ AbandonedEnds(c)
  \/ \E c \in Calls, kind \in Kinds : Throw(c, kind)
  \/ ResetTimeout
  \/ Update \/ Invalidate \/ Delete \/ DeleteFails \/ Expire

Spec == Init /\ [][Next]_vars

\* Timers fire and the cache answers or fails; that the method ever ends is
\* not assumed.
FairSpec == Spec /\ \A c \in Calls : WF_vars(Progress(c))

-----------------------------------------------------------------------------
(* Properties.                                                             *)

\* An entry older than the last completed invalidation was computed by an
\* execution that the invalidation overlapped: it overtakes the deletion and
\* lives until it expires; nothing else makes an entry stale.
StaleOnlyByRace == entry # None /\ entry.value < floor => entry.raced

\* Retryable runs the method again only after a technical failure, never
\* after a business error, and beside an execution that is still going on
\* only if the circuit breaker gave that one up.  A call fails because of a
\* business error, or after as many technical failures as Retryable allows:
\* neither the cache nor a retry too few makes it fail.
Executions(c) == {a \in Attempts : running[c][a] # None}
Awaited(c) == IF call[c].at = "running" THEN {call[c].attempt} ELSE {}

Genuine(c) ==
  /\ call[c].attempt <= call[c].technical
  /\ call[c].business => call[c].at = "failed"
  /\ Executions(c) \ Awaited(c) # {} => Breaks /\ call[c].technical > 0
  /\ call[c].at = "failed" => call[c].business \/ call[c].technical = LastAttempt + 1

RetriesAreGenuine == \A c \in Calls : Genuine(c)

\* The strengthening: how the counters of a call stand at each of its stages,
\* and that an awaited execution is running.
Agree(c) ==
  /\ call[c].attempt <= LastAttempt
  /\ call[c].at \notin {"delay", "failed"} => call[c].technical = call[c].attempt
  /\ call[c].at = "delay" => /\ call[c].technical = call[c].attempt + 1
                             /\ call[c].attempt < LastAttempt
  /\ call[c].at = "failed" => \/ call[c].business /\ call[c].technical = call[c].attempt
                              \/ /\ call[c].technical = call[c].attempt + 1
                                 /\ call[c].attempt = LastAttempt
  /\ call[c].at = "running" => running[c][call[c].attempt] \in Versions

CountsAgree == \A c \in Calls : Agree(c)

\* What was computed without a race is as new as every invalidation that
\* began, unless the one under way will delete it.
AsNew(v) == v >= floor /\ (invalidation # None => v >= invalidation.version)

FreshCall(c) ==
  ~call[c].raced => /\ call[c].at = "running" => AsNew(running[c][call[c].attempt])
                    /\ call[c].at = "set" => AsNew(call[c].result)

FreshEntry ==
  entry # None /\ ~entry.raced =>
    AsNew(entry.value) \/ (entry.value >= floor /\ invalidation # None /\ invalidation.deletes)

FreshUnlessRaced ==
  /\ AsNew(version)
  /\ invalidation # None => floor <= invalidation.version
  /\ \A c \in Calls : FreshCall(c)
  /\ FreshEntry

IInv == TypeOK /\ CountsAgree /\ FreshUnlessRaced /\ StaleOnlyByRace /\ RetriesAreGenuine

\* Behind a circuit breaker every call is answered, even if the method hangs.
Answered ==
  \A c \in Calls :
    Breaks /\ call[c].at # "idle" ~> call[c].at \in {"ok", "failed"}
=============================================================================
