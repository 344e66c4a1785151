------------------------ MODULE DecoratedCalls_proofs ------------------------
(***************************************************************************)
(* Proofs about DecoratedCalls, for any number of calls, retries and       *)
(* changes of the row, any subset of the decorators and any faults.        *)
(***************************************************************************)
EXTENDS DecoratedCalls, TLAPS

USE BoundsAssumption DEF Versions, Attempts, Records

-----------------------------------------------------------------------------
(* What a step leaves of its call and of its executions.                   *)
Turns(c, at, attempt, result, raced, technical, business) ==
  /\ call' \in [Calls -> Records]
  /\ \A d \in Calls \ {c} : call'[d] = call[d]
  /\ call'[c].at = at /\ call'[c].attempt = attempt
  /\ call'[c].result = result /\ call'[c].raced = raced
  /\ call'[c].technical = technical /\ call'[c].business = business

Goes(c, to) ==
  Turns(c, to, call[c].attempt, call[c].result, call[c].raced,
        call[c].technical, call[c].business)

Results(c, to, value) ==
  Turns(c, to, call[c].attempt, value, call[c].raced, call[c].technical, call[c].business)

Failed(c, kind) ==
  Turns(c, IF MayRetry(c, kind) THEN "delay" ELSE "failed", call[c].attempt, call[c].result,
        call[c].raced, call[c].technical + IF kind = "technical" THEN 1 ELSE 0,
        call[c].business \/ kind = "business")

Runs(c, what) ==
  /\ running' \in [Calls -> [Attempts -> Versions \cup {None}]]
  /\ \A d \in Calls \ {c} : running'[d] = running[d]
  /\ running'[c][call[c].attempt] = what
  /\ \A a \in Attempts \ {call[c].attempt} : running'[c][a] = running[c][a]

LEMMA GoEffect ==
  ASSUME TypeOK, NEW c \in Calls,
         NEW to \in {"get", "fire", "ok"}, call' = [call EXCEPT ![c].at = to]
  PROVE  Goes(c, to)
  BY DEF TypeOK, Goes, Turns

LEMMA ResultEffect ==
  ASSUME TypeOK, NEW c \in Calls, NEW to \in {"set", "ok"}, NEW value \in Versions,
         call' = [call EXCEPT ![c].at = to, ![c].result = value]
  PROVE  Results(c, to, value)
<1> DEFINE new == [call[c] EXCEPT !.at = to, !.result = value]
<1>1. call' = [call EXCEPT ![c] = new]
  BY Zenon
<1>2. call[c] \in Records /\ new \in Records
  BY DEF TypeOK
<1> QED
  BY <1>1, <1>2 DEF TypeOK, Results, Turns

LEMMA StartEffect ==
  ASSUME TypeOK, NEW c \in Calls, Start(c)
  PROVE  /\ Turns(c, "running", call[c].attempt, call[c].result, FALSE,
                  call[c].technical, call[c].business)
         /\ Runs(c, version)
<1> DEFINE new == [call[c] EXCEPT !.at = "running", !.raced = FALSE]
<1>1. call' = [call EXCEPT ![c] = new]
  BY Zenon DEF Start
<1>2. call[c] \in Records /\ new \in Records
  BY DEF TypeOK, Start
<1> QED
  BY <1>1, <1>2 DEF TypeOK, Start, Turns, Runs

LEMMA EndsEffect ==
  ASSUME TypeOK, NEW c \in Calls, Ends(c)
  PROVE  Runs(c, None)
  BY DEF TypeOK, Ends, Runs

LEMMA FailsEffect ==
  ASSUME TypeOK, CountsAgree, NEW c \in Calls, NEW kind \in Kinds, Fails(c, kind),
         call[c].at \in {"fire", "running"}
  PROVE  Failed(c, kind)
<1> DEFINE at == IF MayRetry(c, kind) THEN "delay" ELSE "failed"
           technical == IF kind = "technical" THEN call[c].technical + 1 ELSE call[c].technical
           business == call[c].business \/ kind = "business"
           new == [call[c] EXCEPT !.at = at, !.technical = technical, !.business = business]
<1>1. call' = [call EXCEPT ![c] = new]
  BY Zenon DEF Fails
<1>2. call[c] \in Records /\ technical \in 0 .. MaxRetries + 1 /\ business \in BOOLEAN
  BY DEF TypeOK, CountsAgree, Agree, LastAttempt
<1>3. at \in {"delay", "failed"}
  OBVIOUS
<1> HIDE DEF at, technical, business
<1>4. new \in Records
  BY <1>2, <1>3
<1>5. /\ call' \in [Calls -> Records]
      /\ \A d \in Calls \ {c} : call'[d] = call[d]
      /\ call'[c] = new
  BY <1>1, <1>4 DEF TypeOK
<1>6. /\ call'[c].at = at /\ call'[c].technical = technical /\ call'[c].business = business
      /\ call'[c].attempt = call[c].attempt /\ call'[c].result = call[c].result
      /\ call'[c].raced = call[c].raced
  BY <1>2, <1>5
<1>7. technical = call[c].technical + IF kind = "technical" THEN 1 ELSE 0
  BY <1>2 DEF technical
<1> QED
  BY <1>5, <1>6, <1>7 DEF at, business, Failed, Turns

LEMMA DelayEffect ==
  ASSUME TypeOK, CountsAgree, NEW c \in Calls, DelayEnds(c)
  PROVE  Turns(c, "fire", call[c].attempt + 1, call[c].result, call[c].raced,
               call[c].technical, call[c].business)
<1> DEFINE new == [call[c] EXCEPT !.at = "fire", !.attempt = call[c].attempt + 1]
<1>1. call' = [call EXCEPT ![c] = new]
  BY Zenon DEF DelayEnds
<1>2. call[c] \in Records /\ call[c].attempt + 1 \in Attempts
  BY DEF TypeOK, CountsAgree, Agree, DelayEnds, LastAttempt
<1>3. new \in Records
  BY <1>2
<1> QED
  BY <1>1, <1>2, <1>3 DEF TypeOK, Turns

LEMMA RacedEffect ==
  ASSUME TypeOK, call' = Raced
  PROVE  /\ call' \in [Calls -> Records]
         /\ \A c \in Calls :
              /\ call'[c].raced = (call[c].raced \/ call[c].at \in {"running", "set"})
              /\ call'[c].at = call[c].at /\ call'[c].attempt = call[c].attempt
              /\ call'[c].result = call[c].result
              /\ call'[c].technical = call[c].technical
              /\ call'[c].business = call[c].business
<1> SUFFICES ASSUME NEW c \in Calls
    PROVE  /\ call'[c] \in Records
           /\ call'[c].raced = (call[c].raced \/ call[c].at \in {"running", "set"})
           /\ call'[c].at = call[c].at /\ call'[c].attempt = call[c].attempt
           /\ call'[c].result = call[c].result
           /\ call'[c].technical = call[c].technical
           /\ call'[c].business = call[c].business
  BY DEF Raced
<1> DEFINE raced == call[c].raced \/ call[c].at \in {"running", "set"}
<1>1. call'[c] = [call[c] EXCEPT !.raced = raced]
  BY DEF Raced
<1>2. call[c] \in Records /\ raced \in BOOLEAN
  BY DEF TypeOK
<1> HIDE DEF raced
<1>3. /\ call'[c] \in Records
      /\ call'[c].raced = raced
      /\ call'[c].at = call[c].at /\ call'[c].attempt = call[c].attempt
      /\ call'[c].result = call[c].result
      /\ call'[c].technical = call[c].technical
      /\ call'[c].business = call[c].business
  BY <1>1, <1>2
<1> QED
  BY <1>3 DEF raced

LEMMA ReturnEffect ==
  ASSUME TypeOK, CountsAgree, NEW c \in Calls, Return(c)
  PROVE  /\ \E seen \in running[c][call[c].attempt] .. version :
              /\ seen \in Versions
              /\ \E to \in {"set", "ok"} : Results(c, to, seen)
         /\ Runs(c, None)
<1>1. running[c][call[c].attempt] \in Versions
  BY DEF Return, CountsAgree, Agree
<1>2. PICK seen \in running[c][call[c].attempt] .. version, to \in {"set", "ok"} :
        call' = [call EXCEPT ![c].at = to, ![c].result = seen]
  BY DEF Return, Answers
<1>3. seen \in Versions
  BY <1>1, <1>2 DEF TypeOK
<1>4. Results(c, to, seen)
  BY <1>2, <1>3, ResultEffect
<1> QED
  BY <1>2, <1>3, <1>4, EndsEffect DEF Return

-----------------------------------------------------------------------------
(* Every step keeps the types: the counters stay below what Retryable      *)
(* allows, and an answer is a version of the row.                          *)
LEMMA TypeStep == TypeOK /\ CountsAgree /\ [Next]_vars => TypeOK'
<1> SUFFICES ASSUME TypeOK, CountsAgree, [Next]_vars PROVE TypeOK'
  OBVIOUS
<1> USE DEF TypeOK, row
<1>1. ASSUME NEW c \in Calls, Call(c) PROVE TypeOK'
  <2>1. PICK to \in {"get", "fire"} : Goes(c, to)
    BY <1>1, GoEffect DEF Call
  <2> QED
    BY <1>1, <2>1 DEF Call, Turns, Goes
<1>2. ASSUME NEW c \in Calls, GetHit(c) PROVE TypeOK'
  <2>1. entry.value \in Versions /\ Results(c, "ok", entry.value)
    BY <1>2, ResultEffect DEF TypeOK, GetHit, Hits, Answers
  <2> QED
    BY <1>2, <2>1 DEF GetHit, Turns, Results
<1>3. ASSUME NEW c \in Calls, GetMiss(c) PROVE TypeOK'
  <2>1. Goes(c, "fire")
    BY <1>3, GoEffect DEF GetMiss
  <2> QED
    BY <1>3, <2>1 DEF GetMiss, Turns, Goes
<1>4. ASSUME NEW c \in Calls, Set(c) PROVE TypeOK'
  <2>1. call[c].result \in Versions /\ Results(c, "ok", call[c].result)
    BY <1>4, ResultEffect DEF TypeOK, Set, Answers
  <2> QED
    BY <1>4, <2>1 DEF Set, Turns, Results
<1>5. ASSUME NEW c \in Calls, SetFails(c) PROVE TypeOK'
  <2>1. Goes(c, "ok")
    BY <1>5, GoEffect DEF SetFails, AfterSetFailed
  <2> QED
    BY <1>5, <2>1 DEF SetFails, Turns, Goes
<1>6. ASSUME NEW c \in Calls, Fire(c) PROVE TypeOK'
  <2>1. /\ Turns(c, "running", call[c].attempt, call[c].result, FALSE,
                  call[c].technical, call[c].business)
        /\ Runs(c, version)
    BY <1>6, StartEffect DEF Fire
  <2> QED
    BY <1>6, <2>1 DEF Fire, Start, Turns, Runs
<1>7. ASSUME NEW c \in Calls, Reject(c) PROVE TypeOK'
  <2>1. Failed(c, "technical")
    BY <1>7, FailsEffect DEF Reject, Kinds
  <2> QED
    BY <1>7, <2>1 DEF Reject, Turns, Failed, MayRetry
<1>8. ASSUME NEW c \in Calls, Timeout(c) PROVE TypeOK'
  <2>1. Failed(c, "technical")
    BY <1>8, FailsEffect DEF Timeout, TimesOut, Kinds
  <2> QED
    BY <1>8, <2>1 DEF Timeout, TimesOut, Counts, Turns, Failed, MayRetry
<1>9. ASSUME NEW c \in Calls, DelayEnds(c) PROVE TypeOK'
  <2>1. Turns(c, "fire", call[c].attempt + 1, call[c].result, call[c].raced,
               call[c].technical, call[c].business)
    BY <1>9, DelayEffect
  <2> QED
    BY <1>9, <2>1 DEF DelayEnds, Turns
<1>10. ASSUME NEW c \in Calls, Return(c) PROVE TypeOK'
  <2>1. /\ Runs(c, None)
        /\ \E seen \in running[c][call[c].attempt] .. version, to \in {"set", "ok"} :
             seen \in Versions /\ Results(c, to, seen)
    BY <1>10, ReturnEffect
  <2> QED
    BY <1>10, <2>1 DEF Return, Succeeds, Turns, Results, Runs
<1>11. ASSUME NEW c \in Calls, AbandonedEnds(c) PROVE TypeOK'
  BY <1>11 DEF AbandonedEnds
<1>12. ASSUME NEW c \in Calls, NEW kind \in Kinds, Throw(c, kind) PROVE TypeOK'
  <2>1. Failed(c, kind) /\ Runs(c, None)
    BY <1>12, FailsEffect, EndsEffect DEF Throw
  <2> QED
    BY <1>12, <2>1 DEF Throw, Counts, Turns, Failed, MayRetry, Runs
<1>13. CASE ResetTimeout
  BY <1>13 DEF ResetTimeout
<1>14. CASE Update
  BY <1>14 DEF Update
<1>15. CASE Invalidate
  <2>1. PICK deletes \in BOOLEAN : invalidation' = [version |-> version, deletes |-> deletes]
    BY <1>15 DEF Invalidate
  <2>2. invalidation' \in [version : Versions, deletes : BOOLEAN]
    BY <2>1
  <2> QED
    BY <1>15, <2>2, RacedEffect DEF Invalidate
<1>16. CASE Delete
  BY <1>16 DEF Delete, Deletes
<1>17. CASE DeleteFails
  BY <1>17 DEF DeleteFails
<1>18. CASE Expire
  BY <1>18 DEF Expire
<1>19. CASE UNCHANGED vars
  BY <1>19 DEF vars
<1> QED
  BY <1>1, <1>2, <1>3, <1>4, <1>5, <1>6, <1>7, <1>8, <1>9, <1>10,
     <1>11, <1>12, <1>13, <1>14, <1>15, <1>16, <1>17, <1>18, <1>19
  DEF Next, Progress

(* A step of one call leaves the others' counters alone.                   *)
LEMMA AgreeKept ==
  ASSUME CountsAgree, NEW c \in Calls, decorators' = decorators, Agree(c)',
         \A d \in Calls \ {c} : call'[d] = call[d] /\ running'[d] = running[d]
  PROVE  CountsAgree'
  BY DEF CountsAgree, Agree, LastAttempt

(* Attempts and technical failures keep step.                              *)
LEMMA CountsStep == TypeOK /\ CountsAgree /\ [Next]_vars => CountsAgree'
<1> SUFFICES ASSUME TypeOK, CountsAgree, [Next]_vars PROVE CountsAgree'
  OBVIOUS
<1>0. ASSUME NEW c \in Calls PROVE /\ Agree(c) /\ call[c] \in Records /\ version \in Versions
                                   /\ LastAttempt \in Nat
  BY DEF TypeOK, CountsAgree, LastAttempt
<1> USE <1>0 DEF Agree, LastAttempt, row
<1>1. ASSUME NEW c \in Calls, Call(c) PROVE CountsAgree'
  <2>1. PICK to \in {"get", "fire"} : Goes(c, to)
    BY <1>1, GoEffect DEF Call
  <2>2. Agree(c)'
    BY <1>1, <2>1 DEF Call, Turns, Goes
  <2> QED
    BY <1>1, <2>1, <2>2, AgreeKept DEF Call, Turns, Goes
<1>2. ASSUME NEW c \in Calls, GetHit(c) PROVE CountsAgree'
  <2>1. entry.value \in Versions /\ Results(c, "ok", entry.value)
    BY <1>2, ResultEffect DEF TypeOK, GetHit, Hits, Answers
  <2>2. Agree(c)'
    BY <1>2, <2>1 DEF GetHit, Turns, Results
  <2> QED
    BY <1>2, <2>1, <2>2, AgreeKept DEF GetHit, Turns, Results
<1>3. ASSUME NEW c \in Calls, GetMiss(c) PROVE CountsAgree'
  <2>1. Goes(c, "fire")
    BY <1>3, GoEffect DEF GetMiss
  <2>2. Agree(c)'
    BY <1>3, <2>1 DEF GetMiss, Turns, Goes
  <2> QED
    BY <1>3, <2>1, <2>2, AgreeKept DEF GetMiss, Turns, Goes
<1>4. ASSUME NEW c \in Calls, Set(c) PROVE CountsAgree'
  <2>1. call[c].result \in Versions /\ Results(c, "ok", call[c].result)
    BY <1>4, ResultEffect DEF TypeOK, Set, Answers
  <2>2. Agree(c)'
    BY <1>4, <2>1 DEF Set, Turns, Results
  <2> QED
    BY <1>4, <2>1, <2>2, AgreeKept DEF Set, Turns, Results
<1>5. ASSUME NEW c \in Calls, SetFails(c) PROVE CountsAgree'
  <2>1. Goes(c, "ok")
    BY <1>5, GoEffect DEF SetFails, AfterSetFailed
  <2>2. Agree(c)'
    BY <1>5, <2>1 DEF SetFails, Turns, Goes
  <2> QED
    BY <1>5, <2>1, <2>2, AgreeKept DEF SetFails, Turns, Goes
<1>6. ASSUME NEW c \in Calls, Fire(c) PROVE CountsAgree'
  <2>1. /\ Turns(c, "running", call[c].attempt, call[c].result, FALSE,
                  call[c].technical, call[c].business)
        /\ Runs(c, version)
    BY <1>6, StartEffect DEF Fire
  <2>2. Agree(c)'
    BY <1>6, <2>1 DEF Fire, Start, Turns, Runs
  <2> QED
    BY <1>6, <2>1, <2>2, AgreeKept DEF Fire, Start, Turns, Runs
<1>7. ASSUME NEW c \in Calls, Reject(c) PROVE CountsAgree'
  <2>1. Failed(c, "technical")
    BY <1>7, FailsEffect DEF Reject, Kinds
  <2>2. Agree(c)'
    BY <1>7, <2>1 DEF Reject, Turns, Failed, MayRetry
  <2> QED
    BY <1>7, <2>1, <2>2, AgreeKept DEF Reject, Turns, Failed, MayRetry
<1>8. ASSUME NEW c \in Calls, Timeout(c) PROVE CountsAgree'
  <2>1. Failed(c, "technical")
    BY <1>8, FailsEffect DEF Timeout, TimesOut, Kinds
  <2>2. Agree(c)'
    BY <1>8, <2>1 DEF Timeout, TimesOut, Counts, Turns, Failed, MayRetry
  <2> QED
    BY <1>8, <2>1, <2>2, AgreeKept DEF Timeout, TimesOut, Counts, Turns, Failed, MayRetry
<1>9. ASSUME NEW c \in Calls, DelayEnds(c) PROVE CountsAgree'
  <2>1. Turns(c, "fire", call[c].attempt + 1, call[c].result, call[c].raced,
               call[c].technical, call[c].business)
    BY <1>9, DelayEffect
  <2>2. Agree(c)'
    BY <1>9, <2>1 DEF DelayEnds, Turns
  <2> QED
    BY <1>9, <2>1, <2>2, AgreeKept DEF DelayEnds, Turns
<1>10. ASSUME NEW c \in Calls, Return(c) PROVE CountsAgree'
  <2>1. /\ Runs(c, None)
        /\ \E seen \in running[c][call[c].attempt] .. version, to \in {"set", "ok"} :
             seen \in Versions /\ Results(c, to, seen)
    BY <1>10, ReturnEffect
  <2>2. Agree(c)'
    BY <1>10, <2>1 DEF Return, Succeeds, Turns, Results, Runs
  <2> QED
    BY <1>10, <2>1, <2>2, AgreeKept DEF Return, Succeeds, Turns, Results, Runs
<1>11. ASSUME NEW c \in Calls, AbandonedEnds(c) PROVE CountsAgree'
  <2>1. Agree(c)'
    BY <1>11 DEF AbandonedEnds
  <2>2. \A d \in Calls \ {c} : call'[d] = call[d] /\ running'[d] = running[d]
    BY <1>11 DEF AbandonedEnds
  <2> QED
    BY <1>11, <2>1, <2>2, AgreeKept DEF AbandonedEnds
<1>12. ASSUME NEW c \in Calls, NEW kind \in Kinds, Throw(c, kind) PROVE CountsAgree'
  <2>1. Failed(c, kind) /\ Runs(c, None)
    BY <1>12, FailsEffect, EndsEffect DEF Throw
  <2>2. CASE kind = "technical"
    <3>1. Agree(c)'
      BY <1>12, <2>1, <2>2 DEF Throw, Turns, Failed, MayRetry
    <3> QED
      BY <1>12, <2>1, <3>1, AgreeKept DEF Throw, Turns, Failed, Runs
  <2>3. CASE kind = "business"
    <3>1. Agree(c)'
      BY <1>12, <2>1, <2>3 DEF Throw, Turns, Failed, MayRetry
    <3> QED
      BY <1>12, <2>1, <3>1, AgreeKept DEF Throw, Turns, Failed, Runs
  <2> QED
    BY <2>2, <2>3 DEF Kinds
<1>13. CASE ResetTimeout
  BY <1>13 DEF ResetTimeout, CountsAgree
<1>14. CASE Update
  BY <1>14 DEF Update, CountsAgree
<1>15. CASE Invalidate
  BY <1>15, RacedEffect DEF Invalidate, CountsAgree
<1>16. CASE Delete
  BY <1>16 DEF Delete, Deletes, CountsAgree
<1>17. CASE DeleteFails
  BY <1>17 DEF DeleteFails, CountsAgree
<1>18. CASE Expire
  BY <1>18 DEF Expire, CountsAgree
<1>19. CASE UNCHANGED vars
  BY <1>19 DEF vars, CountsAgree
<1> QED
  BY <1>1, <1>2, <1>3, <1>4, <1>5, <1>6, <1>7, <1>8, <1>9, <1>10,
     <1>11, <1>12, <1>13, <1>14, <1>15, <1>16, <1>17, <1>18, <1>19
  DEF Next, Progress

(* A step of one call, when no row changes, leaves the others as fresh.    *)
LEMMA FreshKept ==
  ASSUME FreshUnlessRaced, NEW c \in Calls, UNCHANGED row, FreshCall(c)', FreshEntry',
         \A d \in Calls \ {c} : call'[d] = call[d] /\ running'[d] = running[d]
  PROVE  FreshUnlessRaced'
  BY DEF FreshUnlessRaced, FreshCall, AsNew, row

(* An execution that no invalidation overlapped is as new as all of them.  *)
LEMMA FreshStep ==
  TypeOK /\ CountsAgree /\ FreshUnlessRaced /\ [Next]_vars => FreshUnlessRaced'
<1> SUFFICES ASSUME TypeOK, CountsAgree, FreshUnlessRaced, [Next]_vars PROVE FreshUnlessRaced'
  OBVIOUS
<1>0. ASSUME NEW c \in Calls
      PROVE  /\ FreshCall(c) /\ call[c] \in Records
             /\ FreshEntry /\ AsNew(version) /\ Agree(c)
             /\ version \in Int /\ floor \in Int
             /\ invalidation # None => invalidation.version \in Int
  BY DEF TypeOK, FreshUnlessRaced, CountsAgree
<1> USE <1>0 DEF FreshCall, FreshEntry, AsNew, Agree, row
<1>1. ASSUME NEW c \in Calls, Call(c) PROVE FreshUnlessRaced'
  <2>1. PICK to \in {"get", "fire"} : Goes(c, to)
    BY <1>1, GoEffect DEF Call
  <2>2. FreshEntry' /\ FreshCall(c)'
    BY <1>1, <2>1 DEF Call, Turns, Goes
  <2> QED
    BY <1>1, <2>1, <2>2, FreshKept DEF Call, Turns, Goes
<1>2. ASSUME NEW c \in Calls, GetHit(c) PROVE FreshUnlessRaced'
  <2>1. entry.value \in Versions /\ Results(c, "ok", entry.value)
    BY <1>2, ResultEffect DEF TypeOK, GetHit, Hits, Answers
  <2>2. FreshEntry' /\ FreshCall(c)'
    BY <1>2, <2>1 DEF GetHit, Turns, Results
  <2> QED
    BY <1>2, <2>1, <2>2, FreshKept DEF GetHit, Turns, Results
<1>3. ASSUME NEW c \in Calls, GetMiss(c) PROVE FreshUnlessRaced'
  <2>1. Goes(c, "fire")
    BY <1>3, GoEffect DEF GetMiss
  <2>2. FreshEntry' /\ FreshCall(c)'
    BY <1>3, <2>1 DEF GetMiss, Turns, Goes
  <2> QED
    BY <1>3, <2>1, <2>2, FreshKept DEF GetMiss, Turns, Goes
<1>4. ASSUME NEW c \in Calls, Set(c) PROVE FreshUnlessRaced'
  <2>1. call[c].result \in Versions /\ Results(c, "ok", call[c].result)
    BY <1>4, ResultEffect DEF TypeOK, Set, Answers
  <2>2. FreshEntry' /\ FreshCall(c)'
    BY <1>4, <2>1 DEF Set, Turns, Results
  <2> QED
    BY <1>4, <2>1, <2>2, FreshKept DEF Set, Turns, Results
<1>5. ASSUME NEW c \in Calls, SetFails(c) PROVE FreshUnlessRaced'
  <2>1. Goes(c, "ok")
    BY <1>5, GoEffect DEF SetFails, AfterSetFailed
  <2>2. FreshEntry' /\ FreshCall(c)'
    BY <1>5, <2>1 DEF SetFails, Turns, Goes
  <2> QED
    BY <1>5, <2>1, <2>2, FreshKept DEF SetFails, Turns, Goes
<1>6. ASSUME NEW c \in Calls, Fire(c) PROVE FreshUnlessRaced'
  <2>1. /\ Turns(c, "running", call[c].attempt, call[c].result, FALSE,
                  call[c].technical, call[c].business)
        /\ Runs(c, version)
    BY <1>6, StartEffect DEF Fire
  <2>2. FreshEntry' /\ FreshCall(c)'
    BY <1>6, <2>1 DEF Fire, Start, Turns, Runs
  <2> QED
    BY <1>6, <2>1, <2>2, FreshKept DEF Fire, Start, Turns, Runs
<1>7. ASSUME NEW c \in Calls, Reject(c) PROVE FreshUnlessRaced'
  <2>1. Failed(c, "technical")
    BY <1>7, FailsEffect DEF Reject, Kinds
  <2>2. FreshEntry' /\ FreshCall(c)'
    BY <1>7, <2>1 DEF Reject, Turns, Failed, MayRetry
  <2> QED
    BY <1>7, <2>1, <2>2, FreshKept DEF Reject, Turns, Failed, MayRetry
<1>8. ASSUME NEW c \in Calls, Timeout(c) PROVE FreshUnlessRaced'
  <2>1. Failed(c, "technical")
    BY <1>8, FailsEffect DEF Timeout, TimesOut, Kinds
  <2>2. FreshEntry' /\ FreshCall(c)'
    BY <1>8, <2>1 DEF Timeout, TimesOut, Counts, Turns, Failed, MayRetry
  <2> QED
    BY <1>8, <2>1, <2>2, FreshKept DEF Timeout, TimesOut, Counts, Turns, Failed, MayRetry
<1>9. ASSUME NEW c \in Calls, DelayEnds(c) PROVE FreshUnlessRaced'
  <2>1. Turns(c, "fire", call[c].attempt + 1, call[c].result, call[c].raced,
               call[c].technical, call[c].business)
    BY <1>9, DelayEffect
  <2>2. FreshEntry' /\ FreshCall(c)'
    BY <1>9, <2>1 DEF DelayEnds, Turns
  <2> QED
    BY <1>9, <2>1, <2>2, FreshKept DEF DelayEnds, Turns
<1>10. ASSUME NEW c \in Calls, Return(c) PROVE FreshUnlessRaced'
  <2>1. PICK seen \in running[c][call[c].attempt] .. version, to \in {"set", "ok"} :
          seen \in Versions /\ Results(c, to, seen)
    BY <1>10, ReturnEffect
  <2>2. Runs(c, None)
    BY <1>10, ReturnEffect
  <2>3. running[c][call[c].attempt] \in Versions /\ seen >= running[c][call[c].attempt]
    BY <1>10, <2>1 DEF Return
  <2>4. AsNew(seen)' \/ call[c].raced
    BY <1>10, <2>1, <2>3 DEF Return
  <2>5. FreshEntry' /\ FreshCall(c)'
    BY <1>10, <2>1, <2>4 DEF Return, Turns, Results
  <2> QED
    BY <1>10, <2>1, <2>2, <2>5, FreshKept DEF Return, Turns, Results, Runs
<1>11. ASSUME NEW c \in Calls, AbandonedEnds(c) PROVE FreshUnlessRaced'
  <2>1. FreshEntry' /\ FreshCall(c)'
    BY <1>11 DEF AbandonedEnds
  <2>2. \A d \in Calls \ {c} : call'[d] = call[d] /\ running'[d] = running[d]
    BY <1>11 DEF AbandonedEnds
  <2> QED
    BY <1>11, <2>1, <2>2, FreshKept DEF AbandonedEnds
<1>12. ASSUME NEW c \in Calls, NEW kind \in Kinds, Throw(c, kind) PROVE FreshUnlessRaced'
  <2>1. Failed(c, kind) /\ Runs(c, None)
    BY <1>12, FailsEffect, EndsEffect DEF Throw
  <2>2. FreshEntry' /\ FreshCall(c)'
    BY <1>12, <2>1 DEF Throw, Counts, Turns, Failed, MayRetry, Runs
  <2> QED
    BY <1>12, <2>1, <2>2, FreshKept DEF Throw, Counts, Turns, Failed, MayRetry, Runs
<1>13. CASE ResetTimeout
  BY <1>13 DEF ResetTimeout, TypeOK, FreshUnlessRaced
<1>14. CASE Update
  BY <1>14 DEF Update, TypeOK, FreshUnlessRaced
<1>15. CASE Invalidate
  <2>1. PICK deletes \in {TRUE, entry # None} :
          invalidation' = [version |-> version, deletes |-> deletes]
    BY <1>15 DEF Invalidate
  <2>2. /\ invalidation = None /\ floor <= version
        /\ UNCHANGED <<version, floor, entry, running>>
        /\ call' = Raced
    BY <1>15, TypeOK DEF Invalidate, TypeOK
  <2>3. AsNew(version)' /\ (invalidation' # None => floor' <= invalidation'.version)
    BY <2>1, <2>2, TypeOK DEF TypeOK
  <2>4. ASSUME NEW c \in Calls PROVE FreshCall(c)'
    <3>1. ~call'[c].raced => call'[c].at \notin {"running", "set"}
      BY <2>2, RacedEffect
    <3> QED
      BY <3>1
  <2>5. FreshEntry'
    <3>1. CASE entry = None
      BY <2>2, <3>1
    <3>2. CASE entry # None
      <4>1. invalidation'.deletes /\ invalidation'.version = version
        BY <2>1, <3>2
      <4>2. entry.value \in Versions
        BY <3>2, TypeOK DEF TypeOK
      <4> QED
        BY <2>1, <2>2, <3>2, <4>1, <4>2, FreshUnlessRaced DEF FreshUnlessRaced
    <3> QED
      BY <3>1, <3>2
  <2> QED
    BY <2>3, <2>4, <2>5 DEF FreshUnlessRaced
<1>16. CASE Delete
  BY <1>16 DEF Delete, Deletes, TypeOK, FreshUnlessRaced
<1>17. CASE DeleteFails
  BY <1>17 DEF DeleteFails, TypeOK, FreshUnlessRaced
<1>18. CASE Expire
  BY <1>18 DEF Expire, TypeOK, FreshUnlessRaced
<1>19. CASE UNCHANGED vars
  BY <1>19 DEF vars, TypeOK, FreshUnlessRaced
<1> QED
  BY <1>1, <1>2, <1>3, <1>4, <1>5, <1>6, <1>7, <1>8, <1>9, <1>10,
     <1>11, <1>12, <1>13, <1>14, <1>15, <1>16, <1>17, <1>18, <1>19
  DEF Next, Progress

LEMMA GenuineKept ==
  ASSUME RetriesAreGenuine, NEW c \in Calls, decorators' = decorators, Genuine(c)',
         \A d \in Calls \ {c} : call'[d] = call[d] /\ running'[d] = running[d]
  PROVE  RetriesAreGenuine'
  BY DEF RetriesAreGenuine, Genuine, Executions, Awaited, Breaks, LastAttempt

(* Only the breaker's timer leaves an execution behind.                    *)
LEMMA RetriesStep ==
  TypeOK /\ CountsAgree /\ RetriesAreGenuine /\ [Next]_vars => RetriesAreGenuine'
<1> SUFFICES ASSUME TypeOK, CountsAgree, RetriesAreGenuine, [Next]_vars PROVE RetriesAreGenuine'
  OBVIOUS
<1>0. ASSUME NEW c \in Calls
      PROVE  /\ Genuine(c) /\ call[c] \in Records /\ Agree(c) /\ LastAttempt \in Nat
  BY DEF TypeOK, RetriesAreGenuine, CountsAgree, LastAttempt
<1> USE <1>0 DEF Genuine, Agree, Executions, Awaited, Breaks, LastAttempt, row
<1>1. ASSUME NEW c \in Calls, Call(c) PROVE RetriesAreGenuine'
  <2>1. PICK to \in {"get", "fire"} : Goes(c, to)
    BY <1>1, GoEffect DEF Call
  <2>2. Genuine(c)'
    BY <1>1, <2>1 DEF Call, Turns, Goes
  <2> QED
    BY <1>1, <2>1, <2>2, GenuineKept DEF Call, Turns, Goes
<1>2. ASSUME NEW c \in Calls, GetHit(c) PROVE RetriesAreGenuine'
  <2>1. entry.value \in Versions /\ Results(c, "ok", entry.value)
    BY <1>2, ResultEffect DEF TypeOK, GetHit, Hits, Answers
  <2>2. Genuine(c)'
    BY <1>2, <2>1 DEF GetHit, Turns, Results
  <2> QED
    BY <1>2, <2>1, <2>2, GenuineKept DEF GetHit, Turns, Results
<1>3. ASSUME NEW c \in Calls, GetMiss(c) PROVE RetriesAreGenuine'
  <2>1. Goes(c, "fire")
    BY <1>3, GoEffect DEF GetMiss
  <2>2. Genuine(c)'
    BY <1>3, <2>1 DEF GetMiss, Turns, Goes
  <2> QED
    BY <1>3, <2>1, <2>2, GenuineKept DEF GetMiss, Turns, Goes
<1>4. ASSUME NEW c \in Calls, Set(c) PROVE RetriesAreGenuine'
  <2>1. call[c].result \in Versions /\ Results(c, "ok", call[c].result)
    BY <1>4, ResultEffect DEF TypeOK, Set, Answers
  <2>2. Genuine(c)'
    BY <1>4, <2>1 DEF Set, Turns, Results
  <2> QED
    BY <1>4, <2>1, <2>2, GenuineKept DEF Set, Turns, Results
<1>5. ASSUME NEW c \in Calls, SetFails(c) PROVE RetriesAreGenuine'
  <2>1. Goes(c, "ok")
    BY <1>5, GoEffect DEF SetFails, AfterSetFailed
  <2>2. Genuine(c)'
    BY <1>5, <2>1 DEF SetFails, Turns, Goes
  <2> QED
    BY <1>5, <2>1, <2>2, GenuineKept DEF SetFails, Turns, Goes
<1>6. ASSUME NEW c \in Calls, Fire(c) PROVE RetriesAreGenuine'
  <2>1. /\ Turns(c, "running", call[c].attempt, call[c].result, FALSE,
                  call[c].technical, call[c].business)
        /\ Runs(c, version)
    BY <1>6, StartEffect DEF Fire
  <2>2. Genuine(c)'
    BY <1>6, <2>1 DEF Fire, Start, Turns, Runs
  <2> QED
    BY <1>6, <2>1, <2>2, GenuineKept DEF Fire, Start, Turns, Runs
<1>7. ASSUME NEW c \in Calls, Reject(c) PROVE RetriesAreGenuine'
  <2>1. Failed(c, "technical")
    BY <1>7, FailsEffect DEF Reject, Kinds
  <2>2. Genuine(c)'
    BY <1>7, <2>1 DEF Reject, Turns, Failed, MayRetry
  <2> QED
    BY <1>7, <2>1, <2>2, GenuineKept DEF Reject, Turns, Failed, MayRetry
<1>8. ASSUME NEW c \in Calls, Timeout(c) PROVE RetriesAreGenuine'
  <2>1. Failed(c, "technical")
    BY <1>8, FailsEffect DEF Timeout, TimesOut, Kinds
  <2>2. Genuine(c)'
    BY <1>8, <2>1 DEF Timeout, TimesOut, Counts, Turns, Failed, MayRetry
  <2> QED
    BY <1>8, <2>1, <2>2, GenuineKept DEF Timeout, TimesOut, Counts, Turns, Failed, MayRetry
<1>9. ASSUME NEW c \in Calls, DelayEnds(c) PROVE RetriesAreGenuine'
  <2>1. Turns(c, "fire", call[c].attempt + 1, call[c].result, call[c].raced,
               call[c].technical, call[c].business)
    BY <1>9, DelayEffect
  <2>2. Genuine(c)'
    BY <1>9, <2>1 DEF DelayEnds, Turns
  <2> QED
    BY <1>9, <2>1, <2>2, GenuineKept DEF DelayEnds, Turns
<1>10. ASSUME NEW c \in Calls, Return(c) PROVE RetriesAreGenuine'
  <2>1. Runs(c, None)
    BY <1>10, ReturnEffect
  <2>2. PICK seen \in running[c][call[c].attempt] .. version, to \in {"set", "ok"} :
          Results(c, to, seen)
    BY <1>10, ReturnEffect
  <2>3. Executions(c)' \ Awaited(c)' \subseteq Executions(c) \ Awaited(c)
    BY <1>10, <2>1, <2>2 DEF Return, Runs, Results, Turns
  <2>4. Genuine(c)'
    <3> HIDE DEF Executions, Awaited
    <3> QED
      BY <1>10, <2>2, <2>3 DEF Return, Turns, Results
  <2> QED
    BY <1>10, <2>1, <2>2, <2>4, GenuineKept DEF Return, Turns, Results, Runs
<1>11. ASSUME NEW c \in Calls, AbandonedEnds(c) PROVE RetriesAreGenuine'
  <2>1. Genuine(c)'
    BY <1>11 DEF AbandonedEnds
  <2>2. \A d \in Calls \ {c} : call'[d] = call[d] /\ running'[d] = running[d]
    BY <1>11 DEF AbandonedEnds
  <2> QED
    BY <1>11, <2>1, <2>2, GenuineKept DEF AbandonedEnds
<1>12. ASSUME NEW c \in Calls, NEW kind \in Kinds, Throw(c, kind) PROVE RetriesAreGenuine'
  <2>1. Failed(c, kind) /\ Runs(c, None)
    BY <1>12, FailsEffect, EndsEffect DEF Throw
  <2>2. Executions(c)' \ Awaited(c)' \subseteq Executions(c) \ Awaited(c)
    BY <1>12, <2>1 DEF Throw, Runs, Failed, Turns
  <2>3. Genuine(c)'
    <3> HIDE DEF Executions, Awaited
    <3>1. CASE kind = "technical"
      BY <1>12, <2>1, <2>2, <3>1 DEF Throw, Turns, Failed, MayRetry
    <3>2. CASE kind = "business"
      BY <1>12, <2>1, <2>2, <3>2 DEF Throw, Turns, Failed, MayRetry
    <3> QED
      BY <3>1, <3>2 DEF Kinds
  <2> QED
    BY <1>12, <2>1, <2>3, GenuineKept DEF Throw, Turns, Failed, Runs
<1>13. CASE ResetTimeout
  BY <1>13 DEF ResetTimeout, RetriesAreGenuine
<1>14. CASE Update
  BY <1>14 DEF Update, RetriesAreGenuine
<1>15. CASE Invalidate
  BY <1>15, RacedEffect DEF Invalidate, RetriesAreGenuine
<1>16. CASE Delete
  BY <1>16 DEF Delete, Deletes, RetriesAreGenuine
<1>17. CASE DeleteFails
  BY <1>17 DEF DeleteFails, RetriesAreGenuine
<1>18. CASE Expire
  BY <1>18 DEF Expire, RetriesAreGenuine
<1>19. CASE UNCHANGED vars
  BY <1>19 DEF vars, RetriesAreGenuine
<1> QED
  BY <1>1, <1>2, <1>3, <1>4, <1>5, <1>6, <1>7, <1>8, <1>9, <1>10,
     <1>11, <1>12, <1>13, <1>14, <1>15, <1>16, <1>17, <1>18, <1>19
  DEF Next, Progress

-----------------------------------------------------------------------------
LEMMA InvInit == Init => IInv
<1> SUFFICES ASSUME Init PROVE IInv
  OBVIOUS
<1>1. /\ call \in [Calls -> Records] /\ version = 0 /\ floor = 0 /\ entry = None
      /\ invalidation = None
      /\ \A c \in Calls : /\ call[c].at = "idle" /\ call[c].attempt = 0
                          /\ call[c].technical = 0 /\ call[c].business = FALSE
                          /\ Executions(c) = {}
  BY DEF Init, Executions
<1>2. TypeOK
  BY <1>1 DEF Init, TypeOK
<1>3. CountsAgree /\ RetriesAreGenuine
  BY <1>1 DEF CountsAgree, Agree, RetriesAreGenuine, Genuine, LastAttempt
<1>4. FreshUnlessRaced /\ StaleOnlyByRace
  BY <1>1 DEF FreshUnlessRaced, AsNew, FreshCall, FreshEntry, StaleOnlyByRace
<1> QED
  BY <1>2, <1>3, <1>4 DEF IInv

LEMMA InvStep == IInv /\ [Next]_vars => IInv'
<1> SUFFICES ASSUME IInv, [Next]_vars PROVE IInv'
  OBVIOUS
<1>1. TypeOK' /\ CountsAgree' /\ FreshUnlessRaced' /\ RetriesAreGenuine'
  BY TypeStep, CountsStep, FreshStep, RetriesStep DEF IInv
<1>2. StaleOnlyByRace'
  BY <1>1 DEF TypeOK, FreshUnlessRaced, AsNew, FreshEntry, StaleOnlyByRace
<1> QED
  BY <1>1, <1>2 DEF IInv

(* The inductive invariant holds of every behaviour.                       *)
THEOREM Invariant == Spec => []IInv
  BY InvInit, InvStep, PTL DEF Spec

(* The cache is stale only after a race: an entry older than the last      *)
(* completed invalidation was computed while one went on.                  *)
THEOREM StaleAfterRaceOnly == Spec => []StaleOnlyByRace
<1>1. IInv => StaleOnlyByRace
  BY DEF IInv
<1> QED
  BY <1>1, Invariant, PTL

(* Retryable runs the method again only after a technical failure and at   *)
(* most maxRetries times, beside an execution only if the circuit breaker  *)
(* gave that one up, and gives up no call earlier.                         *)
THEOREM RetriesGenuine == Spec => []RetriesAreGenuine
<1>1. IInv => RetriesAreGenuine
  BY DEF IInv
<1> QED
  BY <1>1, Invariant, PTL
=============================================================================
