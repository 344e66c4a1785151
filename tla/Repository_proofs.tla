-------------------------- MODULE Repository_proofs --------------------------
(***************************************************************************)
(* Proofs about Repository, for any finite set of users, any objects and   *)
(* overlapping calls, any lengths, limits and faults.                      *)
(***************************************************************************)
EXTENDS Repository, FiniteSetTheorems, SequenceTheorems, TLAPS

-----------------------------------------------------------------------------
(* Sequences, and what a write leaves of the table.                        *)

LEMMA Joined ==
  ASSUME NEW S, NEW a \in Seq(S), NEW b \in Seq(S)
  PROVE  /\ a \o b \in Seq(S) /\ Len(a \o b) = Len(a) + Len(b)
         /\ \A j \in 1 .. Len(a) : (a \o b)[j] = a[j]
         /\ \A j \in 1 .. Len(b) : (a \o b)[Len(a) + j] = b[j]
  BY ConcatProperties

LEMMA WritesEffect ==
  ASSUME RowsOK, NEW u \in Users, NEW to \in {Nothing} \cup Rows, Writes(u, to)
  PROVE  RowsOK'
  BY DEF RowsOK, Writes
-----------------------------------------------------------------------------
(* What a step leaves of an object and of a call.                          *)

LEMMA EventEffect ==
  ASSUME NEW e \in Entities, e.raised < MaxEvents, NEW publishing \in BOOLEAN
  PROVE  /\ WithEvent(e, publishing) \in Entities
         /\ WithEvent(e, publishing).raised = e.raised + 1
         /\ WithEvent(e, publishing).held = e.held \cup {e.raised + 1}
         /\ WithEvent(e, publishing).late =
               IF publishing THEN e.late \cup {e.raised + 1} ELSE e.late
         /\ WithEvent(e, publishing).told = e.told
         /\ WithEvent(e, publishing).raced = e.raced
         /\ WithEvent(e, publishing).refused = e.refused
<1> DEFINE n == e.raised + 1
           late == IF publishing THEN e.late \cup {n} ELSE e.late
           held == e.held \cup {n}
<1>1. WithEvent(e, publishing) = [e EXCEPT !.raised = n, !.held = held, !.late = late]
  BY Zenon DEF WithEvent, NewEvent
<1>2. n \in 0 .. MaxEvents /\ held \in SUBSET (1 .. MaxEvents) /\ late \in SUBSET (1 .. MaxEvents)
  BY BoundsAssumption DEF Entities
<1> HIDE DEF n, held, late
<1> QED
  BY <1>1, <1>2 DEF Entities, n, held, late

LEMMA EntityFact ==
  ASSUME NEW u \in Users, NEW address \in Addresses, NEW hidden \in BOOLEAN,
         NEW e, e = Entity(u, address, hidden)
  PROVE  /\ e \in Entities /\ e.raised = 0 /\ e.held = {} /\ e.late = {}
         /\ \A i \in 1 .. MaxEvents : e.told[i] = 0
  BY BoundsAssumption DEF Entity, Entities

LEMMA GoEffect ==
  ASSUME call \in [Calls -> Calling], NEW c \in Calls,
         NEW to \in {"asked", "publishing", "ok", "false", "conflict", "error"}, Go(c, to)
  PROVE  /\ call' \in [Calls -> Calling]
         /\ \A d \in Calls \ {c} : call'[d] = call[d]
         /\ call'[c].at = to
         /\ call'[c].of = call[c].of /\ call'[c].kind = call[c].kind
         /\ call'[c].record = call[c].record
  BY DEF Go, Calling

LEMMA AddressFact ==
  ASSUME NEW patch \in Patches, Valid(Patched(patch))
  PROVE  Patched(patch) \in Addresses
<1>1. \A f \in Fields : Patched(patch)[f] \in 2 .. Longest[f]
  BY DEF Valid
<1>2. ASSUME NEW f \in Fields PROVE Patched(patch)[f] \in Lengths
  <2>1. Patched(patch)[f] # 0
    BY <1>1 DEF Fields, Longest
  <2> QED
    BY <2>1 DEF Patched, Patches
<1> QED
  BY <1>1, <1>2 DEF Addresses, Readable, Patched

-----------------------------------------------------------------------------
(* The events of one object.                                               *)
Told(o) ==
  object[o] # Nothing =>
    /\ History(o)
    /\ \A i \in 1 .. object[o].raised :
         object[o].told[i] > 0 \/ i \in object[o].held \cup object[o].late
    /\ ~object[o].raced /\ ~object[o].refused =>
         \A i \in 1 .. object[o].raised : object[o].told[i] <= 1

LEMMA InvParts == ObjectsInv <=> TypeOK /\ \A o \in Objects : Told(o)
  BY DEF ObjectsInv, Told, Histories, NoEventLost, NoEventRepeated

(* A step about one object leaves what is known of the others.             *)
LEMMA StepKeeps ==
  ASSUME ObjectsInv, RowsOK', NEW o \in Objects,
         object' \in [Objects -> {Nothing} \cup Entities],
         call' \in [Calls -> Calling],
         \A p \in Objects \ {o} : object'[p] = object[p],
         object[o] # Nothing => object'[o] # Nothing,
         \A c \in Calls :
           \/ call'[c] = call[c]
           \/ /\ call[c].at = "idle" \/ call[c].of = o
              /\ call'[c].of = o /\ object'[o] # Nothing
              /\ call'[c].kind \in Kinds /\ call'[c].record \in Rows,
         Told(o)'
  PROVE  ObjectsInv'
<1>1. TypeOK /\ \A p \in Objects : Told(p)
  BY InvParts
<1>2. TypeOK'
  BY <1>1 DEF TypeOK
<1>3. ASSUME NEW p \in Objects \ {o} PROVE Told(p)'
  <2>1. Publishing(p)' = Publishing(p)
    BY DEF Publishing
  <2> QED
    BY <1>1, <2>1 DEF Told, History
<1>4. \A p \in Objects : Told(p)'
  BY <1>3
<1> QED
  BY <1>2, <1>4 DEF ObjectsInv, Told, Histories, NoEventLost, NoEventRepeated

(* An event is raised: it is late if a call is publishing its object.      *)
LEMMA RaiseKeeps ==
  ASSUME ObjectsInv, NEW o \in Objects, NEW e \in Entities, e.raised < MaxEvents,
         e.held \cup e.late \subseteq 1 .. e.raised,
         \A i \in 1 .. MaxEvents : i > e.raised => e.told[i] = 0,
         \A i \in 1 .. e.raised : e.told[i] > 0 \/ i \in e.held \cup e.late,
         ~e.raced /\ ~e.refused => \A i \in 1 .. e.raised : e.told[i] <= 1,
         Publishing(o) # {} => \A i \in e.held \ e.late : e.told[i] > 0,
         Publishing(o) = {} /\ ~e.raced /\ ~e.refused => \A i \in e.held : e.told[i] = 0,
         object' = [object EXCEPT ![o] = WithEvent(e, Publishing(o) # {})],
         UNCHANGED <<disk, call>>
  PROVE  ObjectsInv'
<1> DEFINE w == WithEvent(e, Publishing(o) # {})
           n == e.raised + 1
<1>1. /\ w \in Entities /\ w.raised = n /\ w.held = e.held \cup {n}
      /\ w.late = IF Publishing(o) # {} THEN e.late \cup {n} ELSE e.late
      /\ w.told = e.told /\ w.raced = e.raced /\ w.refused = e.refused
  BY EventEffect
<1>2. /\ object' \in [Objects -> {Nothing} \cup Entities]
      /\ object'[o] = w /\ \A p \in Objects \ {o} : object'[p] = object[p]
  BY <1>1 DEF ObjectsInv, TypeOK
<1>3. e.raised \in 0 .. MaxEvents /\ n \in 1 .. MaxEvents /\ e.told[n] = 0
  BY BoundsAssumption DEF Entities
<1>4. Publishing(o)' = Publishing(o)
  BY DEF Publishing
<1> HIDE DEF w
<1>5. Told(o)'
  <2>1. History(o)'
    BY <1>1, <1>2, <1>3, <1>4 DEF History
  <2>2. \A i \in 1 .. n : w.told[i] > 0 \/ i \in w.held \cup w.late
    BY <1>1, <1>3
  <2>3. ~w.raced /\ ~w.refused => \A i \in 1 .. n : w.told[i] <= 1
    BY <1>1, <1>3
  <2> QED
    BY <1>1, <1>2, <2>1, <2>2, <2>3 DEF Told
<1>6. RowsOK' /\ w # Nothing
  BY <1>1, NothingAssumption DEF ObjectsInv, TypeOK, RowsOK, disk
<1> QED
  BY <1>2, <1>5, <1>6, StepKeeps DEF ObjectsInv, TypeOK

(* A step of a call before it publishes changes no object.                 *)
LEMMA CallKeeps ==
  ASSUME ObjectsInv, NEW c \in Calls, RowsOK', object' = object,
         call' \in [Calls -> Calling], \A d \in Calls \ {c} : call'[d] = call[d],
         call[c].at # "publishing", call'[c].at # "publishing",
         call[c].at # "idle" => call'[c].of = call[c].of,
         call'[c].of \in Objects, object[call'[c].of] # Nothing,
         call'[c].kind \in Kinds, call'[c].record \in Rows
  PROVE  ObjectsInv'
<1>0. PICK o \in Objects : o = call'[c].of
  OBVIOUS
<1>1. Publishing(o)' = Publishing(o)
  BY DEF Publishing
<1>2. Told(o)'
  BY <1>1, InvParts DEF Told, History
<1> QED
  BY <1>0, <1>2, StepKeeps DEF ObjectsInv, TypeOK

-----------------------------------------------------------------------------
LEMMA InvInit == Init => ObjectsInv
<1> SUFFICES ASSUME Init PROVE ObjectsInv
  OBVIOUS
<1>1. RowsOK
  BY DEF Init, RowsOK, Rows
<1>2. TypeOK
  BY <1>1, NothingAssumption DEF Init, TypeOK, Calling, NoCall
<1> QED
  BY <1>2 DEF Init, ObjectsInv, Histories, NoEventLost, NoEventRepeated

LEMMA InvStep == ObjectsInv /\ [Next]_vars => ObjectsInv'
<1> SUFFICES ASSUME ObjectsInv, [Next]_vars PROVE ObjectsInv'
  OBVIOUS
<1>t. /\ TypeOK /\ RowsOK
      /\ object \in [Objects -> {Nothing} \cup Entities]
      /\ call \in [Calls -> Calling]
  BY DEF ObjectsInv, TypeOK
<1>d. UNCHANGED disk => RowsOK'
  BY <1>t DEF disk, RowsOK
<1>1. ASSUME NEW o \in Objects, NEW u \in Users, NEW patch \in Patches, Create(o, u, patch)
      PROVE  ObjectsInv'
  <2> DEFINE e == Entity(u, Patched(patch), FALSE)
  <2>1. /\ e \in Entities /\ e.raised = 0 /\ e.held = {} /\ e.late = {}
        /\ \A i \in 1 .. MaxEvents : e.told[i] = 0
    <3>1. Patched(patch) \in Addresses
      BY <1>1, AddressFact DEF Create
    <3>2. e = Entity(u, Patched(patch), FALSE)
      OBVIOUS
    <3>3. \E hidden \in BOOLEAN : hidden = FALSE
      OBVIOUS
    <3> HIDE DEF e
    <3>4. \A hidden \in BOOLEAN :
            e = Entity(u, Patched(patch), hidden) =>
              /\ e \in Entities /\ e.raised = 0 /\ e.held = {} /\ e.late = {}
              /\ \A i \in 1 .. MaxEvents : e.told[i] = 0
      BY <3>1, EntityFact
    <3> QED
      BY <3>2, <3>3, <3>4
  <2>2. Publishing(o) = {}
    BY <1>1, <1>t DEF Create, Publishing, TypeOK
  <2>3. object' = [object EXCEPT ![o] = WithEvent(e, Publishing(o) # {})]
    BY <1>1, <2>2 DEF Create
  <2>4. UNCHANGED <<disk, call>>
    BY <1>1 DEF Create
  <2> HIDE DEF e
  <2>5. e.raised < MaxEvents /\ 1 .. e.raised = {}
    BY <2>1, BoundsAssumption
  <2> QED
    BY <2>1, <2>2, <2>3, <2>4, <2>5, RaiseKeeps
<1>2. ASSUME NEW o \in Objects, NEW u \in Users, NEW withDeleted \in BOOLEAN,
             Load(o, u, withDeleted)
      PROVE  ObjectsInv'
  <2> DEFINE e == Entity(u, row[u].address, row[u].hidden)
  <2>1. row[u].address \in Addresses /\ row[u].hidden \in BOOLEAN
    BY <1>2, <1>t DEF Load, Found, Stored, RowsOK, Rows
  <2>2. /\ e \in Entities /\ e.raised = 0 /\ e.held = {} /\ e.late = {}
        /\ \A i \in 1 .. MaxEvents : e.told[i] = 0
    BY <2>1, EntityFact
  <2> HIDE DEF e
  <2>3. /\ object' \in [Objects -> {Nothing} \cup Entities] /\ object'[o] = e
        /\ \A p \in Objects \ {o} : object'[p] = object[p]
        /\ call' = call
    BY <1>2, <1>t, <2>2 DEF Load, e
  <2>4. Told(o)'
    <3>1. History(o)'
      <4>1. Publishing(o)' = {}
        BY <1>2, <1>t, <2>3 DEF Load, Publishing, TypeOK
      <4> QED
        BY <2>2, <2>3, <4>1 DEF History
    <3> QED
      BY <2>2, <2>3, <3>1 DEF Told
  <2>5. RowsOK' /\ e # Nothing
    BY <1>2, <1>d, <2>2, NothingAssumption DEF Load
  <2> QED
    BY <1>t, <2>3, <2>4, <2>5, StepKeeps
<1>o. ASSUME NEW o \in Objects, Raises(o)
      PROVE  /\ object[o] \in Entities /\ object[o].raised < MaxEvents
             /\ Told(o) /\ object[o] # Nothing
  BY <1>o, <1>t, InvParts DEF Raises
<1>3. ASSUME NEW o \in Objects, NEW patch \in Patches, UpdateAddress(o, patch) PROVE ObjectsInv'
  <2> DEFINE e == [object[o] EXCEPT !.address = Patched(patch)]
  <2>1. Raises(o) /\ Patched(patch) \in Addresses
    BY <1>3, AddressFact DEF UpdateAddress
  <2>2. /\ e \in Entities /\ e.raised = object[o].raised /\ e.held = object[o].held
        /\ e.late = object[o].late /\ e.told = object[o].told
        /\ e.raced = object[o].raced /\ e.refused = object[o].refused
    BY <1>o, <2>1 DEF Entities
  <2>3. /\ object' = [object EXCEPT ![o] = WithEvent(e, Publishing(o) # {})]
        /\ UNCHANGED <<disk, call>>
    BY <1>3 DEF UpdateAddress
  <2> HIDE DEF e
  <2> QED
    BY <1>o, <2>1, <2>2, <2>3, RaiseKeeps DEF Told, History
<1>4. ASSUME NEW o \in Objects, RaiseEvent(o) PROVE ObjectsInv'
  <2>1. /\ object' = [object EXCEPT ![o] = WithEvent(object[o], Publishing(o) # {})]
        /\ UNCHANGED <<disk, call>> /\ Raises(o)
    BY <1>4 DEF RaiseEvent
  <2> QED
    BY <1>o, <2>1, RaiseKeeps DEF Told, History
<1>5. ASSUME NEW c \in Calls, NEW o \in Objects, NEW kind \in Kinds, Begin(c, o, kind)
      PROVE  ObjectsInv'
  <2> DEFINE new == [call[c] EXCEPT !.at = "asking", !.of = o, !.kind = kind,
                                    !.record = Record(o)]
  <2>1. call' = [call EXCEPT ![c] = new]
    BY <1>5, Zenon DEF Begin
  <2>2. Record(o) \in Rows /\ call[c] \in Calling
    BY <1>5, <1>t DEF Begin, Entities, Record, Rows
  <2>3. /\ new \in Calling /\ new.at = "asking" /\ new.of = o /\ new.kind = kind
        /\ new.record = Record(o)
    BY <2>2 DEF Calling
  <2>4. /\ call[c].at = "idle" /\ object[o] # Nothing /\ object' = object /\ RowsOK'
    BY <1>5, <1>d DEF Begin
  <2> HIDE DEF new
  <2>5. /\ call' \in [Calls -> Calling] /\ call'[c] = new
        /\ \A d \in Calls \ {c} : call'[d] = call[d]
    BY <1>t, <2>1, <2>3
  <2> QED
    BY <2>2, <2>3, <2>4, <2>5, CallKeeps
<1>c. ASSUME NEW c \in Calls, call[c].at # "idle"
      PROVE  /\ call[c].of \in Objects /\ object[call[c].of] # Nothing
             /\ object[call[c].of] \in Entities /\ Target(c) \in Users
             /\ call[c].kind \in Kinds /\ call[c].record \in Rows
  BY <1>c, <1>t DEF TypeOK, Target, Entities
<1>6. ASSUME NEW c \in Calls, Insert(c) PROVE ObjectsInv'
  <2>1. call[c].record \in Rows /\ Target(c) \in Users
    BY <1>6, <1>c DEF Insert, Asks
  <2>2. RowsOK'
    BY <1>6, <1>t, <2>1, WritesEffect DEF Insert
  <2> QED
    BY <1>6, <1>t, <1>c, <2>2, GoEffect, CallKeeps DEF Insert, Asks
<1>7. ASSUME NEW c \in Calls, InsertConflicts(c) PROVE ObjectsInv'
  BY <1>7, <1>t, <1>c, <1>d, GoEffect, CallKeeps DEF InsertConflicts, Asks
<1>8. ASSUME NEW c \in Calls, SaveAddress(c) PROVE ObjectsInv'
  <2>1. Target(c) \in Users
    BY <1>8, <1>c DEF SaveAddress, Asks
  <2>2. RowsOK'
    <3>1. CASE Stored(Target(c))
      <4>1. [row[Target(c)] EXCEPT !.address = call[c].record.address] \in Rows
        BY <1>8, <1>c, <1>t, <2>1, <3>1 DEF SaveAddress, Asks, RowsOK, Rows, Stored
      <4> QED
        BY <1>8, <1>t, <2>1, <3>1, <4>1, WritesEffect DEF SaveAddress
    <3>2. CASE ~Stored(Target(c))
      BY <1>8, <1>d, <3>2 DEF SaveAddress
    <3> QED
      BY <3>1, <3>2
  <2> QED
    BY <1>8, <1>t, <1>c, <2>2, GoEffect, CallKeeps DEF SaveAddress, Asks
<1>9. ASSUME NEW c \in Calls, SoftDelete(c) PROVE ObjectsInv'
  <2>1. Target(c) \in Users
    BY <1>9, <1>c DEF SoftDelete, Asks
  <2>2. RowsOK'
    <3>1. CASE Stored(Target(c))
      <4>1. [row[Target(c)] EXCEPT !.hidden = TRUE] \in Rows
        BY <1>t, <2>1, <3>1 DEF RowsOK, Rows, Stored
      <4> QED
        BY <1>9, <1>t, <2>1, <3>1, <4>1, WritesEffect DEF SoftDelete
    <3>2. CASE ~Stored(Target(c))
      BY <1>9, <1>d, <3>2 DEF SoftDelete
    <3> QED
      BY <3>1, <3>2
  <2> QED
    BY <1>9, <1>t, <1>c, <2>2, GoEffect, CallKeeps DEF SoftDelete, Asks
<1>10. ASSUME NEW c \in Calls, Delete(c) PROVE ObjectsInv'
  <2>1. Target(c) \in Users
    BY <1>10, <1>c DEF Delete, Asks
  <2>2. RowsOK'
    <3>1. CASE Stored(Target(c))
      BY <1>10, <1>t, <2>1, <3>1, WritesEffect DEF Delete
    <3>2. CASE ~Stored(Target(c))
      BY <1>10, <1>d, <3>2 DEF Delete
    <3> QED
      BY <3>1, <3>2
  <2>3. /\ call' \in [Calls -> Calling] /\ \A d \in Calls \ {c} : call'[d] = call[d]
        /\ call'[c].at = "asked" /\ call'[c].of = call[c].of
        /\ call'[c].kind = call[c].kind /\ call'[c].record = call[c].record
    <3> DEFINE new == [call[c] EXCEPT !.at = "asked", !.met = Stored(Target(c))]
    <3>1. call' = [call EXCEPT ![c] = new]
      BY <1>10, Zenon DEF Delete
    <3>2. call[c] \in Calling /\ Stored(Target(c)) \in BOOLEAN
      BY <1>t DEF Stored
    <3>3. /\ new \in Calling /\ new.at = "asked" /\ new.of = call[c].of
          /\ new.kind = call[c].kind /\ new.record = call[c].record
      <4> HIDE DEF Stored
      <4> QED
        BY <3>2 DEF Calling
    <3> HIDE DEF new
    <3> QED
      BY <1>t, <3>1, <3>3
  <2> QED
    BY <1>10, <1>t, <1>c, <2>2, <2>3, CallKeeps DEF Delete, Asks
<1>11. ASSUME NEW c \in Calls, StatementFails(c) PROVE ObjectsInv'
  BY <1>11, <1>t, <1>c, <1>d, GoEffect, CallKeeps DEF StatementFails
<1>12. ASSUME NEW c \in Calls, Publish(c) PROVE ObjectsInv'
  <2>1. PICK o \in Objects : o = call[c].of /\ object[o] # Nothing
    BY <1>12, <1>c DEF Publish
  <2> DEFINE told == [i \in 1 .. MaxEvents |->
                        object[o].told[i] + IF i \in object[o].held THEN 1 ELSE 0]
             raced == object[o].raced \/ Publishing(o) # {}
             new == [object[o] EXCEPT !.told = told, !.raced = raced]
  <2>2. object' = [object EXCEPT ![o] = new]
    BY <1>12, <2>1, Zenon DEF Publish, Batch, Published
  <2>a. object[o] \in Entities
    BY <1>t, <2>1
  <2>b. \A i \in 1 .. MaxEvents : object[o].told[i] \in Nat
    BY <2>a DEF Entities
  <2>3. told \in [1 .. MaxEvents -> Nat] /\ raced \in BOOLEAN
    BY <2>a, <2>b DEF Entities
  <2>4. \A i \in 1 .. MaxEvents :
          /\ i \in object[o].held => told[i] = object[o].told[i] + 1
          /\ i \notin object[o].held => told[i] = object[o].told[i]
    BY <2>b
  <2>5. raced \/ (~object[o].raced /\ Publishing(o) = {})
    OBVIOUS
  <2> HIDE DEF told, raced
  <2>6. /\ new \in Entities /\ new.told = told /\ new.raced = raced
        /\ new.raised = object[o].raised /\ new.held = object[o].held
        /\ new.late = object[o].late /\ new.refused = object[o].refused
    BY <2>a, <2>3 DEF Entities
  <2> HIDE DEF new
  <2>7. /\ object' \in [Objects -> {Nothing} \cup Entities] /\ object'[o] = new
        /\ \A p \in Objects \ {o} : object'[p] = object[p]
    BY <1>t, <2>2, <2>6
  <2>8. /\ call' \in [Calls -> Calling] /\ \A d \in Calls \ {c} : call'[d] = call[d]
        /\ call'[c].at = "publishing" /\ call'[c].of = o
        /\ call'[c].kind = call[c].kind /\ call'[c].record = call[c].record
    BY <1>12, <1>t, <2>1, GoEffect DEF Publish
  <2>9. Publishing(o)' # {}
    BY <2>8 DEF Publishing
  <2>10. Told(o)'
    <3>a. Told(o) /\ History(o)
      BY <2>1, InvParts DEF Told
    <3>b. object[o].raised \in 0 .. MaxEvents /\ 1 .. object[o].raised \subseteq 1 .. MaxEvents
      BY <2>a, BoundsAssumption DEF Entities
    <3>1. /\ object[o].held \cup object[o].late \subseteq 1 .. object[o].raised
          /\ object[o].raised \in 0 .. MaxEvents /\ 1 .. object[o].raised \subseteq 1 .. MaxEvents
          /\ History(o) /\ Told(o)
      BY <3>a, <3>b DEF History
    <3>2. History(o)'
      <4>1. \A i \in new.held : new.told[i] > 0
        BY <2>b, <2>4, <2>6, <3>1
      <4>2. \A i \in 1 .. MaxEvents : i > new.raised => new.told[i] = 0
        BY <2>4, <2>6, <3>1 DEF History
      <4> QED
        BY <2>6, <2>7, <2>9, <3>1, <4>1, <4>2 DEF History
    <3>3. ASSUME NEW i \in 1 .. new.raised PROVE new.told[i] > 0 \/ i \in new.held \cup new.late
      BY <2>1, <2>b, <2>4, <2>6, <3>1 DEF Told
    <3>4. ASSUME ~new.raced, ~new.refused, NEW i \in 1 .. new.raised PROVE new.told[i] <= 1
      <4>1. CASE i \in object[o].held
        BY <2>1, <2>4, <2>5, <2>6, <3>1, <3>4, <4>1 DEF History
      <4>2. CASE i \notin object[o].held
        BY <2>1, <2>4, <2>5, <2>6, <3>1, <3>4, <4>2 DEF Told
      <4> QED
        BY <4>1, <4>2
    <3> QED
      BY <2>7, <3>2, <3>3, <3>4 DEF Told
  <2>11. RowsOK' /\ new # Nothing
    BY <1>12, <1>d, <2>6, NothingAssumption DEF Publish
  <2>12. call[c].of = o /\ call'[c].kind \in Kinds /\ call'[c].record \in Rows
    BY <1>12, <1>c, <2>1, <2>8 DEF Publish
  <2> QED
    BY <2>7, <2>8, <2>10, <2>11, <2>12, StepKeeps
<1>13. ASSUME NEW c \in Calls, Settle(c) PROVE ObjectsInv'
  <2>1. PICK o \in Objects : o = call[c].of /\ object[o] # Nothing
    BY <1>13, <1>c DEF Settle
  <2> DEFINE new == [object[o] EXCEPT !.held = {}]
  <2>2. object' = [object EXCEPT ![o] = new]
    BY <1>13, <2>1, Zenon DEF Settle, Kept
  <2>3. object[o] \in Entities
    BY <1>t, <2>1
  <2>4. /\ new \in Entities /\ new.told = object[o].told /\ new.raced = object[o].raced
        /\ new.raised = object[o].raised /\ new.held = {}
        /\ new.late = object[o].late /\ new.refused = object[o].refused
    BY <2>3 DEF Entities
  <2> HIDE DEF new
  <2>5. /\ object' \in [Objects -> {Nothing} \cup Entities] /\ object'[o] = new
        /\ \A p \in Objects \ {o} : object'[p] = object[p]
    BY <1>t, <2>2, <2>4
  <2>6. /\ call' \in [Calls -> Calling] /\ \A d \in Calls \ {c} : call'[d] = call[d]
        /\ call'[c].of = o /\ call'[c].kind = call[c].kind /\ call'[c].record = call[c].record
    BY <1>13, <1>t, <2>1, GoEffect DEF Settle
  <2>7. Publishing(o) # {}
    BY <1>13, <2>1 DEF Settle, Publishing
  <2>8. Told(o)'
    <3>1. Told(o)
      BY InvParts
    <3>2. History(o)'
      BY <2>1, <2>4, <2>5, <3>1 DEF Told, History
    <3>3. \A i \in 1 .. new.raised : new.told[i] > 0 \/ i \in new.late
      BY <2>1, <2>4, <2>7, <3>1 DEF Told, History
    <3> QED
      BY <2>1, <2>4, <2>5, <3>1, <3>2, <3>3 DEF Told
  <2>9. RowsOK' /\ new # Nothing
    BY <1>13, <1>d, <2>4, NothingAssumption DEF Settle
  <2>10. call[c].of = o /\ call'[c].kind \in Kinds /\ call'[c].record \in Rows
    BY <1>13, <1>c, <2>1, <2>6 DEF Settle
  <2> QED
    BY <2>5, <2>6, <2>8, <2>9, <2>10, StepKeeps
<1>14. ASSUME NEW c \in Calls, Reject(c) PROVE ObjectsInv'
  <2>1. PICK o \in Objects : o = call[c].of /\ object[o] # Nothing
    BY <1>14, <1>c DEF Reject
  <2> DEFINE new == [object[o] EXCEPT !.refused = TRUE]
  <2>2. object' = [object EXCEPT ![o] = new]
    BY <1>14, <2>1, Zenon DEF Reject
  <2>3. object[o] \in Entities
    BY <1>t, <2>1
  <2>4. /\ new \in Entities /\ new.told = object[o].told /\ new.refused
        /\ new.raised = object[o].raised /\ new.held = object[o].held
        /\ new.late = object[o].late
    BY <2>3 DEF Entities
  <2> HIDE DEF new
  <2>5. /\ object' \in [Objects -> {Nothing} \cup Entities] /\ object'[o] = new
        /\ \A p \in Objects \ {o} : object'[p] = object[p]
    BY <1>t, <2>2, <2>4
  <2>6. /\ call' \in [Calls -> Calling] /\ \A d \in Calls \ {c} : call'[d] = call[d]
        /\ call'[c].of = o /\ call'[c].kind = call[c].kind /\ call'[c].record = call[c].record
    BY <1>14, <1>t, <2>1, GoEffect DEF Reject
  <2>7. Publishing(o) # {}
    BY <1>14, <2>1 DEF Reject, Publishing
  <2>8. Told(o)'
    <3>1. Told(o)
      BY InvParts
    <3>2. History(o)'
      BY <2>1, <2>4, <2>5, <2>7, <3>1 DEF Told, History
    <3> QED
      BY <2>1, <2>4, <2>5, <3>1, <3>2 DEF Told
  <2>9. RowsOK' /\ new # Nothing
    BY <1>14, <1>d, <2>4, NothingAssumption DEF Reject
  <2>10. call[c].of = o /\ call'[c].kind \in Kinds /\ call'[c].record \in Rows
    BY <1>14, <1>c, <2>1, <2>6 DEF Reject
  <2> QED
    BY <2>5, <2>6, <2>8, <2>9, <2>10, StepKeeps
<1>15. CASE ReadPage
  BY <1>15, <1>t DEF ReadPage, ObjectsInv, TypeOK, RowsOK, Histories, History, Publishing,
     NoEventLost, NoEventRepeated
<1>16. CASE UNCHANGED vars
  BY <1>16, <1>t DEF vars, ObjectsInv, TypeOK, RowsOK, Histories, History, Publishing,
     NoEventLost, NoEventRepeated
<1> QED
  BY <1>1, <1>2, <1>3, <1>4, <1>5, <1>6, <1>7, <1>8, <1>9, <1>10, <1>11, <1>12, <1>13,
     <1>14, <1>15, <1>16 DEF Next, Save

(* The objects' part of the invariant: types, histories of events, and that *)
(* every stored row can be read back into a valid entity, whatever clients send.  *)
THEOREM ObjectsInvariant == Spec => []ObjectsInv
  BY InvInit, InvStep, PTL DEF Spec

(* An event leaves its object only after it was published, except one that *)
(* was raised while another publication was awaited.                       *)
THEOREM EventsAreKept == Spec => []NoEventLost
<1>1. ObjectsInv => NoEventLost
  BY DEF ObjectsInv
<1> QED
  BY <1>1, ObjectsInvariant, PTL

(* An event is published twice only if calls published one object at the   *)
(* same time or a listener's error made the object keep it.                *)
THEOREM EventsGoOutOnce == Spec => []NoEventRepeated
<1>1. ObjectsInv => NoEventRepeated
  BY DEF ObjectsInv
<1> QED
  BY <1>1, ObjectsInvariant, PTL
-----------------------------------------------------------------------------
(* Listing: the pages, put together.                                       *)

LEMMA Smaller ==
  ASSUME NEW a \in Int, NEW b \in Int
  PROVE  Min({a, b}) = IF a <= b THEN a ELSE b
  BY DEF Min

LEMMA Cut ==
  ASSUME NEW S, NEW s \in Seq(S), NEW a \in 0 .. Len(s), NEW b \in a .. Len(s)
  PROVE  /\ SubSeq(s, a + 1, b) \in Seq(S) /\ Len(SubSeq(s, a + 1, b)) = b - a
         /\ SubSeq(s, 1, a) \o SubSeq(s, a + 1, b) = SubSeq(s, 1, b)
<1> DEFINE x == SubSeq(s, 1, a)
           y == SubSeq(s, a + 1, b)
           z == SubSeq(s, 1, b)
<1>1. Len(s) \in Nat /\ a \in Nat /\ b \in Nat
  OBVIOUS
<1>2. x \in Seq(S) /\ Len(x) = a /\ \A i \in 1 .. a : x[i] = s[i]
  BY <1>1, SubSeqProperties
<1>3. y \in Seq(S) /\ Len(y) = b - a /\ \A i \in 1 .. b - a : y[i] = s[a + i]
  BY <1>1, SubSeqProperties
<1>4. z \in Seq(S) /\ Len(z) = b /\ \A i \in 1 .. b : z[i] = s[i]
  BY <1>1, SubSeqProperties
<1> HIDE DEF x, y, z
<1>5. /\ x \o y \in Seq(S) /\ Len(x \o y) = b
      /\ \A i \in 1 .. a : (x \o y)[i] = x[i]
      /\ \A i \in 1 .. b - a : (x \o y)[a + i] = y[i]
  <2>1. /\ x \o y \in Seq(S) /\ Len(x \o y) = Len(x) + Len(y)
        /\ \A i \in 1 .. Len(x) : (x \o y)[i] = x[i]
        /\ \A i \in 1 .. Len(y) : (x \o y)[Len(x) + i] = y[i]
    <3>1. x \in Seq(S) /\ y \in Seq(S)
      BY <1>2, <1>3
    <3> QED
      BY <3>1, Joined
  <2>2. Len(x) + Len(y) = b
    BY <1>1, <1>2, <1>3
  <2> QED
    BY <1>2, <1>3, <2>1, <2>2
<1> DEFINE w == x \o y
<1> HIDE DEF w
<1>6. ASSUME NEW i \in 1 .. b PROVE w[i] = z[i]
  <2>1. CASE i <= a
    BY <1>1, <1>2, <1>4, <1>5, <2>1 DEF w
  <2>2. CASE i > a
    <3>1. i - a \in 1 .. b - a /\ a + (i - a) = i
      BY <1>1, <2>2
    <3> QED
      BY <1>3, <1>4, <1>5, <3>1 DEF w
  <2> QED
    BY <1>1, <2>1, <2>2
<1>7. w = z
  BY <1>4, <1>5, <1>6, SeqEqual DEF w
<1> QED
  BY <1>3, <1>7 DEF w, x, y, z

(* What a SELECT may return: the users that match, each once, in an order. *)
LEMMA ScanFact ==
  ASSUME NEW scan \in Scans
  PROVE  /\ scan \in Seq(Users) /\ Len(scan) = Cardinality(Matching)
         /\ IsInjective(scan) /\ ToSet(scan) = Matching
<1> DEFINE n == Cardinality(Matching)
<1>1. IsFiniteSet(Matching) /\ n \in Nat
  BY UsersAssumption, FS_Subset, FS_CardinalityType DEF Matching
<1>2. scan \in [1 .. n -> Matching] /\ scan \in Injection(1 .. n, Matching)
  BY DEF Scans, SetToSeqs, Injection, IsInjective
<1>3. scan \in Surjection(1 .. n, Matching)
  <2>1. Cardinality(1 .. n) = n
    BY <1>1, FS_Interval
  <2> QED
    BY <1>1, <1>2, <2>1, FS_Injection
<1>4. scan \in Seq(Users) /\ Len(scan) = n
  <2>1. scan \in [1 .. n -> Users]
    BY <1>2 DEF Matching
  <2> HIDE DEF n
  <2> QED
    BY <1>1, <2>1, SeqDef
<1> QED
  BY <1>2, <1>3, <1>4 DEF Injection, Surjection, ToSet

LEMMA FoundFact == Cardinality(Matching) \in Nat
  BY UsersAssumption, FS_Subset, FS_CardinalityType DEF Matching

LEMMA OffsetFact ==
  ASSUME walk.limit \in Limits, NEW n \in Nat
  PROVE  /\ Limit \in Nat \ {0} /\ Offset(n) \in Nat
         /\ Offset(0) = 0 /\ Offset(n + 1) = Offset(n) + Limit
<1>1. Limit \in Nat \ {0}
  BY LimitsAssumption DEF Limit
<1> QED
  BY <1>1 DEF Offset

(* A page continues what the pages before it are of its scan.              *)
LEMMA PageFact ==
  ASSUME NEW M \in Seq(Users), walk.limit \in Limits, NEW n \in Nat, Offset(n) <= Len(M)
  PROVE  /\ Page(M, n) \in Seq(Users)
         /\ Offset(n) + Limit <= Len(M) =>
              /\ Len(Page(M, n)) = Limit
              /\ SubSeq(M, 1, Offset(n)) \o Page(M, n) = SubSeq(M, 1, Offset(n + 1))
         /\ Offset(n) + Limit > Len(M) =>
              /\ Len(Page(M, n)) < Limit /\ Len(Page(M, n)) = Len(M) - Offset(n)
              /\ SubSeq(M, 1, Offset(n)) \o Page(M, n) = M
<1> DEFINE a == Offset(n)
           b == Min({a + Limit, Len(M)})
<1>2. a \in Nat /\ Limit \in Nat \ {0} /\ Offset(n + 1) = a + Limit /\ Len(M) \in Nat
  BY OffsetFact
<1>3. b = IF a + Limit <= Len(M) THEN a + Limit ELSE Len(M)
  BY <1>2, Smaller
<1>4. Page(M, n) = SubSeq(M, a + 1, b)
  BY Zenon DEF Page
<1> HIDE DEF a, b
<1>5. a \in 0 .. Len(M) /\ b \in a .. Len(M)
  BY <1>2, <1>3 DEF a
<1>6. /\ Page(M, n) \in Seq(Users) /\ Len(Page(M, n)) = b - a
      /\ SubSeq(M, 1, a) \o Page(M, n) = SubSeq(M, 1, b)
  BY <1>4, <1>5, Cut
<1>7. SubSeq(M, 1, Len(M)) = M
  OBVIOUS
<1> DEFINE page == Page(M, n)
<1> HIDE DEF page
<1>8. ASSUME a + Limit <= Len(M)
      PROVE  Len(page) = Limit /\ SubSeq(M, 1, a) \o page = SubSeq(M, 1, a + Limit)
  <2>1. b = a + Limit /\ b - a = Limit
    BY <1>2, <1>3, <1>8
  <2> QED
    BY <1>6, <2>1 DEF page
<1>9. ASSUME a + Limit > Len(M)
      PROVE  /\ Len(page) < Limit /\ Len(page) = Len(M) - a
             /\ SubSeq(M, 1, a) \o page = M
  <2>1. b = Len(M) /\ b - a = Len(M) - a /\ b - a < Limit
    BY <1>2, <1>3, <1>9
  <2>2. Len(page) = b - a /\ SubSeq(M, 1, a) \o page = SubSeq(M, 1, b)
    BY <1>6 DEF page
  <2> QED
    BY <1>7, <2>1, <2>2
<1> QED
  BY <1>2, <1>6, <1>8, <1>9 DEF a, page

LEMMA WalkInit == Init => WalkInv
<1> SUFFICES ASSUME Init PROVE WalkInv
  OBVIOUS
<1>1. walk \in Walks
  BY DEF Init
<1>2. /\ walk.at = "idle" /\ walk.page = 0 /\ walk.seen = <<>> /\ walk.limit \in Limits
      /\ walk \in Walking
  <2>1. <<>> \in Seq(Users) /\ 0 \in Nat
    OBVIOUS
  <2> QED
    BY <1>1, <2>1 DEF Walks, Walking
<1>3. Offset(0) = 0 /\ Len(<<>>) = 0
  BY <1>2, OffsetFact
<1> QED
  BY <1>2, <1>3, FoundFact DEF WalkInv, WalkCounts, WalkFollowsScan

(* A step leaves the table and the walk, writes a row or reads a page.     *)
LEMMA StepKinds ==
  ASSUME [Next]_vars
  PROVE  UNCHANGED disk \/ Disturbs \/ ReadPage
  BY DEF Next, Save, vars, disk, Load, Create, RaiseEvent, UpdateAddress, Begin, Insert,
         InsertConflicts, SaveAddress, SoftDelete, Delete, StatementFails, Publish, Settle,
         Reject, Writes

LEMMA WalkStep == WalkInv /\ [Next]_vars => WalkInv'
<1> SUFFICES ASSUME WalkInv, [Next]_vars PROVE WalkInv'
  OBVIOUS
<1>w. walk \in Walking /\ walk.limit \in Limits /\ walk.page \in Nat
  BY DEF WalkInv, Walking
<1>f. Cardinality(Matching) \in Nat /\ Cardinality(Matching)' \in Nat
  <2>1. Matching \subseteq Users /\ Matching' \subseteq Users
    BY DEF Matching
  <2>2. \A S \in SUBSET Users : Cardinality(S) \in Nat
    BY UsersAssumption, FS_Subset, FS_CardinalityType
  <2> HIDE DEF Matching
  <2> QED
    BY <2>1, <2>2
<1>1. CASE UNCHANGED disk
  <2>1. walk' = walk /\ Matching' = Matching
    BY <1>1 DEF disk, Matching, Found, Stored
  <2> QED
    BY <2>1 DEF WalkInv, WalkCounts, WalkFollowsScan, Scans, Offset, Limit
<1>2. CASE Disturbs
  <2>1. CASE walk.at = "idle"
    <3>1. walk' = walk
      BY <1>2, <2>1 DEF Disturbs
    <3>2. walk.page = 0 /\ Len(walk.seen) = 0 /\ Offset(walk.page) = 0
      BY <1>w, <2>1, OffsetFact DEF WalkInv, WalkCounts
    <3>3. Offset(walk.page)' = 0
      BY <3>1, <3>2 DEF Offset, Limit
    <3> QED
      BY <1>f, <1>w, <2>1, <3>1, <3>2, <3>3 DEF WalkInv, WalkCounts, WalkFollowsScan
  <2>2. CASE walk.at # "idle"
    <3>1. <<>> \in Seq(Users) /\ 0 \in Nat
      OBVIOUS
    <3>2. walk' \in Walking /\ walk'.at = "disturbed"
      BY <1>2, <1>w, <2>2, <3>1 DEF Disturbs, Walking
    <3> QED
      BY <3>2 DEF WalkInv, WalkCounts, WalkFollowsScan
  <2> QED
    BY <2>1, <2>2
<1>3. CASE ReadPage
  <2>0. PICK scan \in Scans :
          walk' = [walk EXCEPT !.at = IF Count(Page(scan, walk.page)) < Limit
                                      THEN "done" ELSE "reading",
                               !.page = @ + 1, !.seen = @ \o Page(scan, walk.page),
                               !.scan = scan,
                               !.steady = @ /\ (walk.at = "idle" \/ scan = walk.scan)]
    BY <1>3 DEF ReadPage
  <2> DEFINE page == Page(scan, walk.page)
             at == IF Count(page) < Limit THEN "done" ELSE "reading"
             steady == walk.steady /\ (walk.at = "idle" \/ scan = walk.scan)
             n == walk.page + 1
             seen == walk.seen \o page
  <2>1. walk' = [walk EXCEPT !.at = at, !.page = n, !.seen = seen, !.scan = scan,
                             !.steady = steady]
    BY <2>0, Zenon
  <2>2. /\ Offset(walk.page) <= Cardinality(Matching) /\ Len(walk.seen) = Offset(walk.page)
        /\ walk.at \in {"idle", "reading"}
    BY <1>3 DEF ReadPage, WalkInv, WalkCounts
  <2>3. /\ scan \in Seq(Users) /\ Len(scan) = Cardinality(Matching)
        /\ walk.seen \in Seq(Users)
    BY <1>w, ScanFact DEF Walking
  <2>4. /\ page \in Seq(Users)
        /\ Offset(walk.page) + Limit <= Len(scan) =>
             /\ Len(page) = Limit
             /\ SubSeq(scan, 1, Offset(walk.page)) \o page = SubSeq(scan, 1, Offset(n))
        /\ Offset(walk.page) + Limit > Len(scan) =>
             /\ Len(page) < Limit /\ Len(page) = Len(scan) - Offset(walk.page)
             /\ SubSeq(scan, 1, Offset(walk.page)) \o page = scan
    BY <1>w, <2>2, <2>3, PageFact
  <2>5. /\ Offset(walk.page) \in Nat /\ Limit \in Nat \ {0} /\ Offset(n) = Offset(walk.page) + Limit
        /\ n \in Nat
    BY <1>w, OffsetFact
  <2>6. at \in {"done", "reading"} /\ (at = "done" <=> Len(page) < Limit) /\ steady \in BOOLEAN
    BY <1>w DEF Count, Walking
  <2>7. steady => SubSeq(scan, 1, Offset(walk.page)) = walk.seen
    <3>1. CASE walk.at = "idle"
      <4>1. Offset(walk.page) = 0 /\ Len(walk.seen) = 0
        BY <1>w, <2>2, <3>1, OffsetFact DEF WalkInv, WalkCounts
      <4>2. SubSeq(scan, 1, 0) = <<>> /\ walk.seen = <<>>
        BY <2>3, <4>1
      <4> QED
        BY <4>1, <4>2
    <3>2. CASE walk.at # "idle"
      BY <2>2, <3>2 DEF WalkInv, WalkFollowsScan
    <3> QED
      BY <3>1, <3>2
  <2> HIDE DEF page, at, steady, n
  <2>8. seen \in Seq(Users) /\ Len(seen) = Len(walk.seen) + Len(page)
    BY <2>3, <2>4, Joined
  <2>9. steady => seen = SubSeq(scan, 1, Offset(walk.page)) \o page
    BY <2>7
  <2> HIDE DEF seen
  <2>10. /\ walk' \in Walking /\ walk'.at = at /\ walk'.page = n /\ walk'.seen = seen
         /\ walk'.scan = scan /\ walk'.steady = steady /\ walk'.limit = walk.limit
    BY <1>w, <2>1, <2>3, <2>5, <2>6, <2>8 DEF Walking
  <2>11. Matching' = Matching /\ Offset(walk.page)' = Offset(n)
    BY <1>3, <2>10 DEF ReadPage, Matching, Found, Stored, Offset, Limit
  <2>12. Scans' = Scans
    BY <2>11 DEF Scans
  <2>13. WalkCounts'
    <3>1. CASE Offset(walk.page) + Limit <= Len(scan)
      <4>1. at = "reading"
        BY <2>4, <2>5, <2>6, <3>1
      <4> QED
        BY <2>2, <2>3, <2>4, <2>5, <2>8, <2>10, <2>11, <3>1, <4>1 DEF WalkCounts
    <3>2. CASE Offset(walk.page) + Limit > Len(scan)
      <4>1. at = "done"
        BY <2>4, <2>6, <3>2
      <4>2. Len(seen) = Cardinality(Matching)
        BY <1>f, <2>2, <2>3, <2>4, <2>5, <2>8, <3>2
      <4> QED
        BY <2>10, <2>11, <4>1, <4>2 DEF WalkCounts
    <3> QED
      BY <1>f, <2>3, <2>5, <3>1, <3>2
  <2>14. WalkFollowsScan'
    <3>1. CASE Offset(walk.page) + Limit <= Len(scan)
      <4>1. at = "reading"
        BY <2>4, <2>5, <2>6, <3>1
      <4> QED
        BY <2>4, <2>9, <2>10, <2>11, <2>12, <3>1, <4>1 DEF WalkFollowsScan
    <3>2. CASE Offset(walk.page) + Limit > Len(scan)
      <4>1. at = "done"
        BY <2>4, <2>6, <3>2
      <4> QED
        BY <2>4, <2>9, <2>10, <2>11, <2>12, <3>2, <4>1 DEF WalkFollowsScan
    <3> QED
      BY <1>f, <2>3, <2>5, <3>1, <3>2
  <2> QED
    BY <2>10, <2>13, <2>14 DEF WalkInv
<1> QED
  BY <1>1, <1>2, <1>3, StepKinds

(* The inductive invariant holds of every behaviour: the objects' part, that *)
(* the pages of an undisturbed client hold as many items as the offset they  *)
(* reached, and that those of one order are the beginning of that order.     *)
THEOREM Invariant == Spec => []IInv
<1>1. Init => IInv
  BY InvInit, WalkInit DEF IInv
<1>2. IInv /\ [Next]_vars => IInv'
  BY InvStep, WalkStep DEF IInv
<1> QED
  BY <1>1, <1>2, PTL DEF Spec

(* A client that reads pages until one is not full has read as many items as *)
(* users match, unless a row was written after its first page: for any       *)
(* number of users, any limit, and another order of the rows in every page.  *)
THEOREM PagesCount == Spec => []PagesCountUsers
<1>1. IInv => PagesCountUsers
  BY DEF IInv, WalkInv, WalkCounts, PagesCountUsers
<1> QED
  BY <1>1, Invariant, PTL

(* If the database also kept one order from the first page to the last, the  *)
(* client has seen every user that matches, and none twice.                  *)
THEOREM PagesCover == Spec => []PagesCoverUsers
<1>1. IInv => PagesCoverUsers
  BY ScanFact DEF IInv, WalkInv, WalkFollowsScan, PagesCoverUsers
<1> QED
  BY <1>1, Invariant, PTL

-----------------------------------------------------------------------------
(* WalletTransfers: the transfers of funds, whose only write is the insert *)
(* of this repository; for any wallets, transfers, amounts and bound on    *)
(* balances, with and without failing statements.                          *)

CONSTANTS Wallets, Transfers, Amounts, MaxBalance, XferFaults
VARIABLES balance, transfer, announced

Xfer == INSTANCE WalletTransfers WITH Faults <- XferFaults

USE DEF Xfer!Ranges

(* An answer leaves the rest of a transfer and the other transfers alone.  *)
LEMMA XferGo ==
  ASSUME Xfer!Ranges, Xfer!TypeOK, NEW t \in Transfers, NEW at \in Xfer!Answers, Xfer!Go(t, at)
  PROVE  /\ transfer' \in [Transfers -> Xfer!Records]
         /\ \A q \in Transfers \ {t} : transfer'[q] = transfer[q]
         /\ transfer'[t].at = at
         /\ transfer'[t].from = transfer[t].from /\ transfer'[t].to = transfer[t].to
         /\ transfer'[t].amount = transfer[t].amount
         /\ transfer'[t].source = transfer[t].source
  BY DEF Xfer!Go, Xfer!TypeOK, Xfer!Records

(* Reading the source keeps the invariant.                                 *)
LEMMA XferSource ==
  ASSUME Xfer!Ranges, Xfer!IInv, NEW t \in Transfers,
         transfer[t].from \in DOMAIN balance,
         transfer' = [transfer EXCEPT ![t].at = "source",
                                      ![t].source = balance[transfer[t].from]],
         balance' = balance, announced' = announced
  PROVE  Xfer!IInv'
<1> DEFINE r == [transfer[t] EXCEPT !.at = "source", !.source = balance[transfer[t].from]]
<1>1. transfer' = [transfer EXCEPT ![t] = r]
  BY Zenon
<1>2. transfer[t] \in Xfer!Records /\ balance[transfer[t].from] \in 0 .. MaxBalance
  BY DEF Xfer!IInv, Xfer!TypeOK
<1>3. r \in Xfer!Records /\ r.at = "source" /\ r.from = transfer[t].from
      /\ r.source = balance[transfer[t].from]
  BY <1>2 DEF Xfer!Records
<1> HIDE DEF r
<1>4. transfer'[t] = r /\ \A q \in Transfers \ {t} : transfer'[q] = transfer[q]
  BY <1>1 DEF Xfer!IInv, Xfer!TypeOK
<1>5. Xfer!TypeOK'
  BY <1>1, <1>3 DEF Xfer!IInv, Xfer!TypeOK
<1>6. Xfer!ReadsAreCurrent'
  <2>1. ASSUME NEW q \in Transfers \ {t}
        PROVE  /\ transfer'[q].at \in {"source", "save", "insufficient"} =>
                    /\ transfer'[q].from \in DOMAIN balance
                    /\ transfer'[q].source = balance[transfer'[q].from]
               /\ transfer'[q].at = "save" =>
                    /\ transfer'[q].to \in DOMAIN balance
                    /\ transfer'[q].target = balance[transfer'[q].to]
    BY <1>4 DEF Xfer!IInv, Xfer!ReadsAreCurrent
  <2>2. /\ transfer'[t].at = "source" /\ transfer'[t].from \in DOMAIN balance
        /\ transfer'[t].source = balance[transfer'[t].from]
    BY <1>3, <1>4
  <2> QED
    BY <2>1, <2>2 DEF Xfer!ReadsAreCurrent
<1>7. Xfer!RefusalsAreDue' /\ Xfer!NoTransferCompletes'
  BY <1>3, <1>4 DEF Xfer!IInv, Xfer!RefusalsAreDue, Xfer!NoTransferCompletes
<1> QED
  BY <1>5, <1>6, <1>7 DEF Xfer!IInv

(* Reading the target and the verdict on both keep the invariant.          *)
LEMMA XferTarget ==
  ASSUME Xfer!Ranges, Xfer!IInv, NEW t \in Transfers, transfer[t].at = "source",
         transfer[t].to \in DOMAIN balance,
         transfer' = [transfer EXCEPT ![t].at = Xfer!Verdict(t, transfer[t].source),
                                      ![t].target = balance[transfer[t].to]],
         balance' = balance, announced' = announced
  PROVE  Xfer!IInv'
<1> DEFINE v == Xfer!Verdict(t, transfer[t].source)
           r == [transfer[t] EXCEPT !.at = v, !.target = balance[transfer[t].to]]
<1>1. transfer' = [transfer EXCEPT ![t] = r]
  BY Zenon
<1>2. transfer[t] \in Xfer!Records /\ balance[transfer[t].to] \in 0 .. MaxBalance
  BY DEF Xfer!IInv, Xfer!TypeOK
<1>3. transfer[t].amount \in Int /\ transfer[t].source \in Int
  BY <1>2 DEF Xfer!Records
<1>4. /\ v \in {"save", "out_of_range", "same_wallet", "insufficient"}
      /\ v = "same_wallet" => transfer[t].from = transfer[t].to
      /\ v = "insufficient" => /\ transfer[t].from # transfer[t].to
                               /\ transfer[t].source < transfer[t].amount
  BY <1>3 DEF Xfer!Verdict, Xfer!Overdraws
<1> HIDE DEF v
<1>5. /\ r \in Xfer!Records /\ r.at = v /\ r.target = balance[transfer[t].to]
      /\ r.from = transfer[t].from /\ r.to = transfer[t].to
      /\ r.amount = transfer[t].amount /\ r.source = transfer[t].source
  BY <1>2, <1>4 DEF Xfer!Records, Xfer!Answers, Xfer!Refusals
<1> HIDE DEF r
<1>6. transfer'[t] = r /\ \A q \in Transfers \ {t} : transfer'[q] = transfer[q]
  BY <1>1 DEF Xfer!IInv, Xfer!TypeOK
<1>7. transfer[t].from \in DOMAIN balance /\ transfer[t].source = balance[transfer[t].from]
  BY DEF Xfer!IInv, Xfer!ReadsAreCurrent
<1>8. Xfer!TypeOK'
  BY <1>1, <1>5 DEF Xfer!IInv, Xfer!TypeOK
<1>9. Xfer!ReadsAreCurrent'
  <2>1. ASSUME NEW q \in Transfers \ {t}
        PROVE  /\ transfer'[q].at \in {"source", "save", "insufficient"} =>
                    /\ transfer'[q].from \in DOMAIN balance
                    /\ transfer'[q].source = balance[transfer'[q].from]
               /\ transfer'[q].at = "save" =>
                    /\ transfer'[q].to \in DOMAIN balance
                    /\ transfer'[q].target = balance[transfer'[q].to]
    BY <1>6 DEF Xfer!IInv, Xfer!ReadsAreCurrent
  <2>2. /\ transfer'[t].from \in DOMAIN balance
        /\ transfer'[t].source = balance[transfer'[t].from]
        /\ transfer'[t].to \in DOMAIN balance
        /\ transfer'[t].target = balance[transfer'[t].to]
    BY <1>5, <1>6, <1>7
  <2> QED
    BY <2>1, <2>2 DEF Xfer!ReadsAreCurrent
<1>10. Xfer!RefusalsAreDue' /\ Xfer!NoTransferCompletes'
  <2>1. ASSUME NEW q \in Transfers \ {t}
        PROVE  /\ transfer'[q].at = "insufficient" =>
                    /\ transfer'[q].from # transfer'[q].to
                    /\ balance[transfer'[q].from] < transfer'[q].amount
               /\ transfer'[q].at = "same_wallet" => transfer'[q].from = transfer'[q].to
               /\ transfer'[q].at # "ok"
    BY <1>6 DEF Xfer!IInv, Xfer!RefusalsAreDue, Xfer!NoTransferCompletes
  <2>2. /\ transfer'[t].at = "insufficient" =>
             /\ transfer'[t].from # transfer'[t].to
             /\ balance[transfer'[t].from] < transfer'[t].amount
        /\ transfer'[t].at = "same_wallet" => transfer'[t].from = transfer'[t].to
        /\ transfer'[t].at # "ok"
    BY <1>4, <1>5, <1>6, <1>7
  <2> QED
    BY <2>1, <2>2 DEF Xfer!IInv, Xfer!RefusalsAreDue, Xfer!NoTransferCompletes
<1> QED
  BY <1>8, <1>9, <1>10 DEF Xfer!IInv

LEMMA XferInit == Xfer!Ranges /\ Xfer!Init => Xfer!IInv
  BY DEF Xfer!Init, Xfer!IInv, Xfer!TypeOK, Xfer!Records, Xfer!NoTransferCompletes,
         Xfer!ReadsAreCurrent, Xfer!RefusalsAreDue, Xfer!Answers, Xfer!Refusals

LEMMA XferStep == Xfer!Ranges /\ Xfer!IInv /\ [Xfer!Next]_(Xfer!vars) => Xfer!IInv'
<1> SUFFICES ASSUME Xfer!Ranges, Xfer!IInv, [Xfer!Next]_(Xfer!vars) PROVE Xfer!IInv'
  OBVIOUS
<1> USE DEF Xfer!IInv, Xfer!NoTransferCompletes, Xfer!ReadsAreCurrent, Xfer!RefusalsAreDue
<1>1. ASSUME NEW w \in Wallets, Xfer!CreateWallet(w) PROVE Xfer!IInv'
  <2>1. /\ DOMAIN balance' = DOMAIN balance \cup {w}
        /\ \A v \in DOMAIN balance : balance'[v] = balance[v]
        /\ balance'[w] = 0 /\ w \notin DOMAIN balance
    BY <1>1 DEF Xfer!CreateWallet, Xfer!Put
  <2>2. transfer' = transfer /\ announced' = announced
    BY <1>1 DEF Xfer!CreateWallet
  <2>3. Xfer!TypeOK'
    BY <2>1, <2>2 DEF Xfer!TypeOK
  <2>4. Xfer!ReadsAreCurrent'
    BY <2>1, <2>2
  <2>5. Xfer!RefusalsAreDue'
    BY <2>1, <2>2
  <2> QED
    BY <2>2, <2>3, <2>4, <2>5
<1>2. ASSUME NEW t \in Transfers, Xfer!ReadSource(t) PROVE Xfer!IInv'
  <2>1. CASE Xfer!Go(t, "not_found")
    BY <1>2, <2>1, XferGo DEF Xfer!ReadSource, Xfer!TypeOK, Xfer!Answers, Xfer!Refusals
  <2>2. CASE /\ transfer[t].from \in DOMAIN balance
             /\ transfer' = [transfer EXCEPT ![t].at = "source",
                                             ![t].source = balance[transfer[t].from]]
    BY <1>2, <2>2, XferSource DEF Xfer!ReadSource
  <2> QED
    BY <1>2, <2>1, <2>2 DEF Xfer!ReadSource
<1>3. ASSUME NEW t \in Transfers, Xfer!ReadTarget(t) PROVE Xfer!IInv'
  <2>1. CASE Xfer!Go(t, "not_found")
    BY <1>3, <2>1, XferGo DEF Xfer!ReadTarget, Xfer!TypeOK, Xfer!Answers, Xfer!Refusals
  <2>2. CASE /\ transfer[t].to \in DOMAIN balance
             /\ transfer' = [transfer EXCEPT ![t].at = Xfer!Verdict(t, transfer[t].source),
                                             ![t].target = balance[transfer[t].to]]
    BY <1>3, <2>2, XferTarget DEF Xfer!ReadTarget
  <2> QED
    BY <1>3, <2>1, <2>2 DEF Xfer!ReadTarget
<1>4. ASSUME NEW t \in Transfers, Xfer!Save(t) PROVE Xfer!IInv'
  <2>1. transfer[t].from \in DOMAIN balance
    BY <1>4 DEF Xfer!Save
  <2>2. Xfer!Go(t, "threw") /\ announced' = announced /\ balance' = balance
    BY <1>4, <2>1 DEF Xfer!Save, Xfer!InsertConflicts
  <2> QED
    BY <2>2, XferGo DEF Xfer!TypeOK, Xfer!Answers
<1>5. ASSUME NEW t \in Transfers, Xfer!StatementFails(t) PROVE Xfer!IInv'
  <2>1. Xfer!Go(t, "threw") /\ announced' = announced /\ balance' = balance
    BY <1>5 DEF Xfer!StatementFails
  <2> QED
    BY <2>1, XferGo DEF Xfer!TypeOK, Xfer!Answers
<1>6. CASE UNCHANGED Xfer!vars
  BY <1>6 DEF Xfer!vars, Xfer!TypeOK
<1> QED
  BY <1>1, <1>2, <1>3, <1>4, <1>5, <1>6 DEF Xfer!Next

(* The inductive invariant of the transfers: what a transfer read stays    *)
(* current, refusals are due and no transfer completes.                    *)
THEOREM TransfersInvariant == Xfer!Ranges => (Xfer!Spec => []Xfer!IInv)
<1> SUFFICES ASSUME Xfer!Ranges PROVE Xfer!Spec => []Xfer!IInv
  OBVIOUS
<1>1. Xfer!Init => Xfer!IInv
  BY XferInit
<1>2. Xfer!IInv /\ [Xfer!Next]_(Xfer!vars) => Xfer!IInv'
  BY XferStep
<1> QED
  BY <1>1, <1>2, PTL DEF Xfer!Spec

(* No transfer is ever completed, whatever the wallets and amounts         *)
(* (NoTransferCompletes): TransferFundsService saves stored wallets with   *)
(* an insert, which their own primary keys refuse.                         *)
THEOREM TransfersNeverComplete == Xfer!Ranges => (Xfer!Spec => []Xfer!NoTransferCompletes)
<1> SUFFICES ASSUME Xfer!Ranges PROVE Xfer!Spec => []Xfer!NoTransferCompletes
  OBVIOUS
<1>1. Xfer!IInv => Xfer!NoTransferCompletes
  BY DEF Xfer!IInv
<1> QED
  BY <1>1, TransfersInvariant, PTL

(* No step changes what a stored wallet holds, and a new one holds nothing *)
(* (each step's part in MoneyConserved).                                   *)
THEOREM BalancesStay ==
  Xfer!Ranges => (Xfer!Spec =>
    [][/\ \A w \in DOMAIN balance : w \in DOMAIN balance' /\ balance'[w] = balance[w]
       /\ \A w \in DOMAIN balance' \ DOMAIN balance : balance'[w] = 0]_(Xfer!vars))
<1> SUFFICES ASSUME Xfer!Ranges
             PROVE  Xfer!Spec =>
                      [][/\ \A w \in DOMAIN balance : w \in DOMAIN balance' /\ balance'[w] = balance[w]
                         /\ \A w \in DOMAIN balance' \ DOMAIN balance : balance'[w] = 0]_(Xfer!vars)
  OBVIOUS
<1> DEFINE Stays == /\ \A w \in DOMAIN balance : w \in DOMAIN balance' /\ balance'[w] = balance[w]
                    /\ \A w \in DOMAIN balance' \ DOMAIN balance : balance'[w] = 0
<1>1. Xfer!IInv /\ [Xfer!Next]_(Xfer!vars) => [Stays]_(Xfer!vars)
  <2> SUFFICES ASSUME Xfer!IInv, Xfer!Next PROVE Stays
    OBVIOUS
  <2>1. ASSUME NEW w \in Wallets, Xfer!CreateWallet(w) PROVE Stays
    BY <2>1 DEF Xfer!CreateWallet, Xfer!Put
  <2>2. ASSUME NEW t \in Transfers, Xfer!ReadSource(t) \/ Xfer!ReadTarget(t) PROVE Stays
    BY <2>2 DEF Xfer!ReadSource, Xfer!ReadTarget
  <2>3. ASSUME NEW t \in Transfers, Xfer!Save(t) PROVE Stays
    <3>1. transfer[t].from \in DOMAIN balance
      BY <2>3 DEF Xfer!Save, Xfer!IInv, Xfer!ReadsAreCurrent
    <3> QED
      BY <2>3, <3>1 DEF Xfer!Save, Xfer!InsertConflicts
  <2>4. ASSUME NEW t \in Transfers, Xfer!StatementFails(t) PROVE Stays
    BY <2>4 DEF Xfer!StatementFails
  <2> QED
    BY <2>1, <2>2, <2>3, <2>4 DEF Xfer!Next
<1> QED
  BY <1>1, TransfersInvariant, PTL DEF Xfer!Spec

(* No step creates or destroys money: the sum over all wallets, of which one *)
(* that is not stored holds nothing, is the same after it.                  *)
THEOREM MoneyIsConserved == Xfer!Ranges => (Xfer!Spec => Xfer!MoneyConserved)
<1> SUFFICES ASSUME Xfer!Ranges PROVE Xfer!Spec => Xfer!MoneyConserved
  OBVIOUS
<1> DEFINE Stays == /\ \A w \in DOMAIN balance : w \in DOMAIN balance' /\ balance'[w] = balance[w]
                    /\ \A w \in DOMAIN balance' \ DOMAIN balance : balance'[w] = 0
<1>1. Xfer!Spec => [][Stays]_(Xfer!vars)
  BY BalancesStay
<1>2. [Stays]_(Xfer!vars) => [Xfer!Total' = Xfer!Total]_(Xfer!vars)
  <2> SUFFICES ASSUME Stays PROVE Xfer!Total' = Xfer!Total
    OBVIOUS
  <2>1. Xfer!Worth' = Xfer!Worth
    BY DEF Xfer!Worth
  <2> QED
    BY <2>1 DEF Xfer!Total
<1> QED
  BY <1>1, <1>2, PTL DEF Xfer!MoneyConserved
=============================================================================
