------------------------- MODULE Idempotency_proofs -------------------------
(***************************************************************************)
(* Proofs about Idempotency, for any keys, any number of concurrent calls  *)
(* and any faults.                                                         *)
(***************************************************************************)
EXTENDS Idempotency, TLAPS

USE NoneAssumption

(* A step of one call leaves the others alone.                             *)
LEMMA SetEffect ==
  ASSUME TypeOK, NEW c \in Calls, NEW r \in Records, Set(c, r)
  PROVE  /\ call' \in [Calls -> Records]
         /\ call'[c] = r
         /\ \A d \in Calls \ {c} : call'[d] = call[d]
  BY DEF Set, TypeOK

LEMMA InvInit == Init => IInv
  BY DEF Init, IInv, TypeOK, Records, CallsAreSound, RowsAreGenuine, UnexcusedKeys,
         OneExecutionPerKey, ReplayIsGenuine, InFlight, Keyed

LEMMA InvStep == IInv /\ [Next]_vars => IInv'
<1> SUFFICES ASSUME IInv, [Next]_vars PROVE IInv'
  OBVIOUS
<1> USE DEF IInv, CallsAreSound, RowsAreGenuine, UnexcusedKeys, OneExecutionPerKey,
            ReplayIsGenuine, InFlight, Keyed
<1>1. ASSUME NEW c \in Calls, PassThrough(c) PROVE IInv'
  <2> DEFINE r == [call[c] EXCEPT !.at = "running"]
  <2>1. /\ r \in Records /\ r.key = call[c].key
        /\ r.at = "running" /\ r.save = call[c].save /\ r.body = call[c].body
    BY <1>1 DEF TypeOK, Records, PassThrough
  <2>2. Set(c, r) /\ call[c].at = "new" /\ ~Keyed(c)
    BY <1>1 DEF PassThrough
  <2>3. row' = row /\ fresh' = fresh /\ executed' = executed /\ excused' = excused
    BY <1>1 DEF PassThrough
  <2> HIDE DEF r
  <2>4. /\ call' \in [Calls -> Records] /\ call'[c] = r
        /\ \A d \in Calls \ {c} : call'[d] = call[d]
    BY <2>1, <2>2, SetEffect
  <2>5. TypeOK'
    BY <2>1, <2>2, <2>3, <2>4 DEF TypeOK
  <2>6. CallsAreSound'
    BY <2>1, <2>2, <2>3, <2>4 DEF TypeOK
  <2>7. RowsAreGenuine'
    BY <2>1, <2>2, <2>3, <2>4 DEF TypeOK
  <2>8. UnexcusedKeys'
    BY <2>1, <2>2, <2>3, <2>4 DEF TypeOK
  <2>9. OneExecutionPerKey'
    BY <2>1, <2>2, <2>3, <2>4 DEF TypeOK
  <2>10. ReplayIsGenuine'
    BY <2>1, <2>2, <2>3, <2>4 DEF TypeOK
  <2> QED
    BY <2>5, <2>6, <2>7, <2>8, <2>9, <2>10
<1>2. ASSUME NEW c \in Calls, Replay(c) PROVE IInv'
  <2> DEFINE r == [call[c] EXCEPT !.at = "answered", !.body = row[call[c].key]]
  <2>1. /\ r \in Records /\ r.key = call[c].key
        /\ r.at = "answered" /\ r.save = call[c].save /\ r.body = row[call[c].key]
    <3>1. call[c] \in Records /\ row[call[c].key] \in Calls \cup {None}
      BY <1>2 DEF TypeOK, Replay
    <3> QED
      BY <3>1 DEF Records
  <2>2. Set(c, r) /\ call[c].at = "new" /\ Keyed(c) /\ row[call[c].key] # None
    BY <1>2 DEF Replay, Finds
  <2>3. row' = row /\ fresh' = fresh /\ executed' = executed /\ excused' = excused
    BY <1>2 DEF Replay, Finds
  <2> HIDE DEF r
  <2>4. /\ call' \in [Calls -> Records] /\ call'[c] = r
        /\ \A d \in Calls \ {c} : call'[d] = call[d]
    BY <2>1, <2>2, SetEffect
  <2>5. TypeOK'
    BY <2>1, <2>2, <2>3, <2>4 DEF TypeOK
  <2>6. CallsAreSound'
    BY <2>1, <2>2, <2>3, <2>4 DEF TypeOK
  <2>7. RowsAreGenuine'
    BY <2>1, <2>2, <2>3, <2>4 DEF TypeOK
  <2>8. UnexcusedKeys'
    BY <2>1, <2>2, <2>3, <2>4 DEF TypeOK
  <2>9. OneExecutionPerKey'
    BY <2>1, <2>2, <2>3, <2>4 DEF TypeOK
  <2>10. ReplayIsGenuine'
    BY <2>1, <2>2, <2>3, <2>4 DEF TypeOK
  <2> QED
    BY <2>5, <2>6, <2>7, <2>8, <2>9, <2>10
<1>3. ASSUME NEW c \in Calls, Miss(c) PROVE IInv'
  <2> DEFINE r == [call[c] EXCEPT !.at = "running"]
  <2>1. /\ r \in Records /\ r.key = call[c].key
        /\ r.at = "running" /\ r.save = call[c].save /\ r.body = call[c].body
    BY <1>3 DEF TypeOK, Records, Miss
  <2>2. Set(c, r) /\ call[c].at = "new" /\ Keyed(c) /\ ~Finds(call[c].key)
    BY <1>3 DEF Miss
  <2>3. row' = row /\ fresh' = fresh /\ executed' = executed
    BY <1>3 DEF Miss
  <2> HIDE DEF r
  <2>4. /\ call' \in [Calls -> Records] /\ call'[c] = r
        /\ \A d \in Calls \ {c} : call'[d] = call[d]
    BY <2>1, <2>2, SetEffect
  <2>5. /\ excused' \in SUBSET Keys /\ excused \subseteq excused'
        /\ \A d \in Calls \ {c} :
             call[d].key = call[c].key /\ InFlight(d) => call[c].key \in excused'
    BY <1>3, <2>2 DEF Miss, Excuse, TypeOK
  <2>6. TypeOK'
    BY <2>1, <2>2, <2>3, <2>4, <2>5 DEF TypeOK
  <2>7. CallsAreSound'
    BY <2>1, <2>2, <2>3, <2>4, <2>5 DEF TypeOK
  <2>8. RowsAreGenuine'
    BY <2>1, <2>2, <2>3, <2>4, <2>5 DEF TypeOK
  <2>9. UnexcusedKeys'
    <3>1. call[c].key \notin excused => row[call[c].key] = None
      BY <2>2 DEF Finds
    <3>2. c \notin executed
      BY <2>2
    <3>3. \A d \in executed : call[d].key = call[c].key /\ call[c].key \notin excused' =>
            FALSE
      BY <2>2, <2>5, <3>1 DEF TypeOK
    <3> QED
      BY <2>1, <2>2, <2>3, <2>4, <2>5, <3>1, <3>2, <3>3 DEF TypeOK
  <2>10. OneExecutionPerKey'
    BY <2>1, <2>2, <2>3, <2>4, <2>5 DEF TypeOK
  <2>11. ReplayIsGenuine'
    BY <2>1, <2>2, <2>3, <2>4, <2>5 DEF TypeOK
  <2> QED
    BY <2>6, <2>7, <2>8, <2>9, <2>10, <2>11
<1>4. ASSUME NEW c \in Calls, FindFails(c) PROVE IInv'
  <2> DEFINE r == [call[c] EXCEPT !.at = "failed"]
  <2>1. /\ r \in Records /\ r.key = call[c].key
        /\ r.at = "failed" /\ r.save = call[c].save /\ r.body = call[c].body
    BY <1>4 DEF TypeOK, Records, FindFails
  <2>2. Set(c, r) /\ call[c].at = "new"
    BY <1>4 DEF FindFails
  <2>3. row' = row /\ fresh' = fresh /\ executed' = executed /\ excused' = excused
    BY <1>4 DEF FindFails
  <2> HIDE DEF r
  <2>4. /\ call' \in [Calls -> Records] /\ call'[c] = r
        /\ \A d \in Calls \ {c} : call'[d] = call[d]
    BY <2>1, <2>2, SetEffect
  <2>5. TypeOK'
    BY <2>1, <2>2, <2>3, <2>4 DEF TypeOK
  <2>6. CallsAreSound'
    BY <2>1, <2>2, <2>3, <2>4 DEF TypeOK
  <2>7. RowsAreGenuine'
    BY <2>1, <2>2, <2>3, <2>4 DEF TypeOK
  <2>8. UnexcusedKeys'
    BY <2>1, <2>2, <2>3, <2>4 DEF TypeOK
  <2>9. OneExecutionPerKey'
    BY <2>1, <2>2, <2>3, <2>4 DEF TypeOK
  <2>10. ReplayIsGenuine'
    BY <2>1, <2>2, <2>3, <2>4 DEF TypeOK
  <2> QED
    BY <2>5, <2>6, <2>7, <2>8, <2>9, <2>10
<1>5. ASSUME NEW c \in Calls, HandlerReturns(c) PROVE IInv'
  <2> DEFINE r == [call[c] EXCEPT !.at = "done", !.body = c,
                              !.save = IF Keyed(c) THEN "pending" ELSE "none"]
  <2>1. /\ r \in Records /\ r.key = call[c].key
        /\ r.at = "done" /\ r.body = c /\ r.save = IF Keyed(c) THEN "pending" ELSE "none"
    <3>1. call[c] \in Records
      BY DEF TypeOK
    <3> QED
      BY <3>1 DEF Records
  <2>2. Set(c, r) /\ call[c].at = "running"
    BY <1>5 DEF HandlerReturns
  <2>3. row' = row /\ fresh' = fresh /\ executed' = executed \cup {c} /\ excused' = excused
    BY <1>5 DEF HandlerReturns
  <2> HIDE DEF r
  <2>4. /\ call' \in [Calls -> Records] /\ call'[c] = r
        /\ \A d \in Calls \ {c} : call'[d] = call[d]
    BY <2>1, <2>2, SetEffect
  <2>5. TypeOK'
    BY <2>1, <2>2, <2>3, <2>4 DEF TypeOK
  <2>6. CallsAreSound'
    BY <2>1, <2>2, <2>3, <2>4 DEF TypeOK
  <2>7. RowsAreGenuine'
    BY <2>1, <2>2, <2>3, <2>4 DEF TypeOK
  <2>8. UnexcusedKeys'
    BY <2>1, <2>2, <2>3, <2>4 DEF TypeOK
  <2>9. OneExecutionPerKey'
    BY <2>1, <2>2, <2>3, <2>4 DEF TypeOK
  <2>10. ReplayIsGenuine'
    BY <2>1, <2>2, <2>3, <2>4 DEF TypeOK
  <2> QED
    BY <2>5, <2>6, <2>7, <2>8, <2>9, <2>10
<1>6. ASSUME NEW c \in Calls, HandlerThrows(c) PROVE IInv'
  <2> DEFINE r == [call[c] EXCEPT !.at = "failed",
                              !.save = IF StoresErrors(c) THEN "pending" ELSE "none"]
  <2>1. /\ r \in Records /\ r.key = call[c].key
        /\ r.at = "failed" /\ r.save = "none" /\ r.body = call[c].body
    <3>1. call[c] \in Records
      BY DEF TypeOK
    <3> QED
      BY <3>1 DEF Records, StoresErrors
  <2>2. Set(c, r) /\ call[c].at = "running"
    BY <1>6 DEF HandlerThrows, StoresErrors
  <2>3. row' = row /\ fresh' = fresh /\ executed' = executed /\ excused' = excused
    BY <1>6 DEF HandlerThrows, StoresErrors
  <2> HIDE DEF r
  <2>4. /\ call' \in [Calls -> Records] /\ call'[c] = r
        /\ \A d \in Calls \ {c} : call'[d] = call[d]
    BY <2>1, <2>2, SetEffect
  <2>5. TypeOK'
    BY <2>1, <2>2, <2>3, <2>4 DEF TypeOK
  <2>6. CallsAreSound'
    BY <2>1, <2>2, <2>3, <2>4 DEF TypeOK
  <2>7. RowsAreGenuine'
    BY <2>1, <2>2, <2>3, <2>4 DEF TypeOK
  <2>8. UnexcusedKeys'
    BY <2>1, <2>2, <2>3, <2>4 DEF TypeOK
  <2>9. OneExecutionPerKey'
    BY <2>1, <2>2, <2>3, <2>4 DEF TypeOK
  <2>10. ReplayIsGenuine'
    BY <2>1, <2>2, <2>3, <2>4 DEF TypeOK
  <2> QED
    BY <2>5, <2>6, <2>7, <2>8, <2>9, <2>10
<1>7. ASSUME NEW c \in Calls, Respond(c) PROVE IInv'
  <2> DEFINE r == [call[c] EXCEPT !.at = "answered"]
  <2>1. /\ r \in Records /\ r.key = call[c].key
        /\ r.at = "answered" /\ r.save = call[c].save /\ r.body = call[c].body
    BY <1>7 DEF TypeOK, Records, Respond
  <2>2. Set(c, r) /\ call[c].at = "done"
    BY <1>7 DEF Respond
  <2>3. row' = row /\ fresh' = fresh /\ executed' = executed /\ excused' = excused
    BY <1>7 DEF Respond
  <2> HIDE DEF r
  <2>4. /\ call' \in [Calls -> Records] /\ call'[c] = r
        /\ \A d \in Calls \ {c} : call'[d] = call[d]
    BY <2>1, <2>2, SetEffect
  <2>5. TypeOK'
    BY <2>1, <2>2, <2>3, <2>4 DEF TypeOK
  <2>6. CallsAreSound'
    BY <2>1, <2>2, <2>3, <2>4 DEF TypeOK
  <2>7. RowsAreGenuine'
    BY <2>1, <2>2, <2>3, <2>4 DEF TypeOK
  <2>8. UnexcusedKeys'
    BY <2>1, <2>2, <2>3, <2>4 DEF TypeOK
  <2>9. OneExecutionPerKey'
    BY <2>1, <2>2, <2>3, <2>4 DEF TypeOK
  <2>10. ReplayIsGenuine'
    BY <2>1, <2>2, <2>3, <2>4 DEF TypeOK
  <2> QED
    BY <2>5, <2>6, <2>7, <2>8, <2>9, <2>10
<1>8. ASSUME NEW c \in Calls, Save(c) PROVE IInv'
  <2> DEFINE r == [call[c] EXCEPT !.save = "saved"]
  <2>1. /\ r \in Records /\ r.key = call[c].key
        /\ r.at = call[c].at /\ r.save = "saved" /\ r.body = call[c].body
    BY <1>8 DEF TypeOK, Records, Save
  <2>2. Set(c, r) /\ call[c].save = "pending" /\ call[c].key \in Keys
    BY <1>8 DEF Save
  <2>3. /\ row' = [row EXCEPT ![call[c].key] = c] /\ fresh' = [fresh EXCEPT ![call[c].key] = TRUE]
        /\ executed' = executed /\ excused' = excused
    BY <1>8 DEF Save
  <2> HIDE DEF r
  <2>4. /\ call' \in [Calls -> Records] /\ call'[c] = r
        /\ \A d \in Calls \ {c} : call'[d] = call[d]
    BY <2>1, <2>2, SetEffect
  <2>5. TypeOK'
    BY <2>1, <2>2, <2>3, <2>4 DEF TypeOK
  <2>6. CallsAreSound'
    BY <2>1, <2>2, <2>3, <2>4 DEF TypeOK
  <2>7. RowsAreGenuine'
    BY <2>1, <2>2, <2>3, <2>4 DEF TypeOK
  <2>8. UnexcusedKeys'
    BY <2>1, <2>2, <2>3, <2>4 DEF TypeOK
  <2>9. OneExecutionPerKey'
    BY <2>1, <2>2, <2>3, <2>4 DEF TypeOK
  <2>10. ReplayIsGenuine'
    BY <2>1, <2>2, <2>3, <2>4 DEF TypeOK
  <2> QED
    BY <2>5, <2>6, <2>7, <2>8, <2>9, <2>10
<1>9. ASSUME NEW c \in Calls, SaveFails(c) PROVE IInv'
  <2> DEFINE r == [call[c] EXCEPT !.save = "failed"]
  <2>1. /\ r \in Records /\ r.key = call[c].key
        /\ r.at = call[c].at /\ r.save = "failed" /\ r.body = call[c].body
    BY <1>9 DEF TypeOK, Records, SaveFails, Excuse
  <2>2. Set(c, r) /\ call[c].save = "pending" /\ call[c].key \in Keys
    BY <1>9 DEF SaveFails, Excuse
  <2>3. row' = row /\ fresh' = fresh /\ executed' = executed /\ excused' = excused \cup {call[c].key}
    BY <1>9 DEF SaveFails, Excuse
  <2> HIDE DEF r
  <2>4. /\ call' \in [Calls -> Records] /\ call'[c] = r
        /\ \A d \in Calls \ {c} : call'[d] = call[d]
    BY <2>1, <2>2, SetEffect
  <2>5. TypeOK'
    BY <2>1, <2>2, <2>3, <2>4 DEF TypeOK
  <2>6. CallsAreSound'
    BY <2>1, <2>2, <2>3, <2>4 DEF TypeOK
  <2>7. RowsAreGenuine'
    BY <2>1, <2>2, <2>3, <2>4 DEF TypeOK
  <2>8. UnexcusedKeys'
    BY <2>1, <2>2, <2>3, <2>4 DEF TypeOK
  <2>9. OneExecutionPerKey'
    BY <2>1, <2>2, <2>3, <2>4 DEF TypeOK
  <2>10. ReplayIsGenuine'
    BY <2>1, <2>2, <2>3, <2>4 DEF TypeOK
  <2> QED
    BY <2>5, <2>6, <2>7, <2>8, <2>9, <2>10
<1>10. ASSUME NEW k \in Keys, Expire(k) PROVE IInv'
  BY <1>10 DEF Expire, TypeOK, Finds
<1>11. CASE CleanupExpiredKeys
  BY <1>11 DEF CleanupExpiredKeys, TypeOK, Deletable
<1>12. CASE Crash
  <2>1. \A c \in Calls : call[c] \in Records
    BY DEF TypeOK
  <2>2. \A c \in Calls :
          /\ call'[c] \in Records
          /\ call'[c].key = call[c].key /\ call'[c].body = call[c].body
          /\ call'[c].at = IF call[c].at \in {"running", "done"} THEN "lost" ELSE call[c].at
          /\ call'[c].save = IF call[c].save = "pending" THEN "failed" ELSE call[c].save
    <3> SUFFICES ASSUME NEW c \in Calls
                 PROVE  /\ call'[c] \in Records
                        /\ call'[c].key = call[c].key /\ call'[c].body = call[c].body
                        /\ call'[c].at = IF call[c].at \in {"running", "done"}
                                         THEN "lost" ELSE call[c].at
                        /\ call'[c].save = IF call[c].save = "pending"
                                           THEN "failed" ELSE call[c].save
      OBVIOUS
    <3> DEFINE a == IF call[c].at \in {"running", "done"} THEN "lost" ELSE call[c].at
               s == IF call[c].save = "pending" THEN "failed" ELSE call[c].save
    <3>1. call'[c] = [call[c] EXCEPT !.at = a, !.save = s]
      BY <1>12, Zenon DEF Crash
    <3>2. /\ a \in {"new", "running", "done", "answered", "failed", "lost"}
          /\ s \in {"none", "pending", "saved", "failed"}
      BY <2>1 DEF Records
    <3> HIDE DEF a, s
    <3>3. call'[c] \in Records /\ call'[c].at = a /\ call'[c].save = s
          /\ call'[c].key = call[c].key /\ call'[c].body = call[c].body
      <4> DEFINE r == [call[c] EXCEPT !.at = a, !.save = s]
      <4>1. r \in Records /\ r.at = a /\ r.save = s /\ r.key = call[c].key
            /\ r.body = call[c].body
        <5>1. call[c] \in Records
          BY <2>1
        <5> QED
          BY <3>2, <5>1 DEF Records
      <4> HIDE DEF r
      <4> QED
        BY <3>1, <4>1 DEF r
    <3> QED
      BY <3>3 DEF a, s
  <2>3. call' \in [Calls -> Records]
    BY <1>12, <2>2 DEF Crash
  <2>4. /\ row' = row /\ fresh' = fresh /\ executed' = executed
        /\ excused' \in SUBSET Keys /\ excused \subseteq excused'
        /\ \A c \in Calls : call[c].save = "pending" /\ Keyed(c) => call[c].key \in excused'
    BY <1>12 DEF Crash, TypeOK
  <2>5. TypeOK' /\ CallsAreSound' /\ RowsAreGenuine'
    BY <2>2, <2>3, <2>4 DEF TypeOK
  <2>6. UnexcusedKeys'
    BY <2>2, <2>4 DEF TypeOK
  <2>7. OneExecutionPerKey' /\ ReplayIsGenuine'
    BY <2>2, <2>4 DEF TypeOK
  <2> QED
    BY <2>5, <2>6, <2>7
<1>13. CASE UNCHANGED vars
  BY <1>13 DEF vars, TypeOK
<1> QED
  BY <1>1, <1>2, <1>3, <1>4, <1>5, <1>6, <1>7, <1>8, <1>9, <1>10, <1>11, <1>12, <1>13
  DEF Next, Handle

(* The inductive invariant holds in every reachable state.                 *)
THEOREM Invariant == Spec => []IInv
<1>1. IInv /\ [Next]_vars => IInv'
  BY InvStep
<1> QED
  BY <1>1, InvInit, PTL DEF Spec

(* Unless calls with the key overlapped, its row expired or storing its    *)
(* response failed, the work of a key is done once (OneExecutionPerKey).   *)
THEOREM KeysExecuteOnce == Spec => []OneExecutionPerKey
<1>1. IInv => OneExecutionPerKey
  BY DEF IInv
<1> QED
  BY <1>1, Invariant, PTL

(* What the interceptor replays is the response of a completed execution   *)
(* under the same key (ReplayIsGenuine).                                   *)
THEOREM ReplaysAreGenuine == Spec => []ReplayIsGenuine
<1>1. IInv => ReplayIsGenuine
  BY DEF IInv
<1> QED
  BY <1>1, Invariant, PTL
=============================================================================
