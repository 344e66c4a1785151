----------------------------- MODULE Repository -----------------------------
(***************************************************************************)
(* The users table as a collection of aggregates: UserEntity objects in    *)
(* the memory of the process, the rows they are saved to, and the pages    *)
(* in which clients list them.                                             *)
(*                                                                         *)
(* An object raises domain events while it is changed.  A save is a call   *)
(* of the repository that sends its statement (Begin, and the actions that *)
(* execute it), publishes what the object holds once the statement         *)
(* succeeded (Publish), and drops every event of the object once the       *)
(* listeners are through (Settle).  Calls overlap, on one object too.      *)
(* Statements run on the plain pool here: UnitOfWork models transactions.  *)
(*                                                                         *)
(* A field of an address is the length of its text, 0 if it is missing; a  *)
(* street has the bounds of a country and is left out.                     *)
(* An operator X_Y is a mutant of X.                                       *)
(***************************************************************************)
EXTENDS FiniteSetsExt, Integers, SequencesExt

CONSTANTS
  Users,
  Emails,
  Objects,       \* instances of UserEntity
  Calls,         \* calls of a method that saves
  Lengths,       \* lengths of text that clients send
  Limits,        \* page sizes that clients ask for; 0 is none
  DefaultLimit,  \* the page size then
  MaxEvents,     \* bound: events that one object raises
  Nothing,
  Faults         \* what may fail: statements, listeners

ASSUME UsersAssumption == IsFiniteSet(Users)
ASSUME LimitsAssumption == Limits \subseteq Nat /\ DefaultLimit \in Nat \ {0}
ASSUME BoundsAssumption == Lengths \subseteq Nat /\ MaxEvents \in Nat \ {0}
ASSUME FaultsAssumption == Faults \subseteq {"query", "listener"}

VARIABLES
  row,     \* the row of each user
  emailOf, \* the address a user is created with, chosen once and for all
  object,  \* the state of each object
  call,    \* where each call is
  walk     \* one client that lists the users page by page

vars == <<row, emailOf, object, call, walk>>
disk == <<row, emailOf, walk>>

-----------------------------------------------------------------------------
(* Values and entities.                                                    *)

Fields == {"country", "postalCode"}
Longest == [country |-> 50, postalCode |-> 10]

\* The constructor of Address throws unless every length is in its range.
Valid_NoMinimum(address) == \A f \in Fields : address[f] <= Longest[f]
Valid(address) == \A f \in Fields : address[f] \in 2 .. Longest[f]

\* What toDomain accepts: the constructor runs again on every row it reads.
Readable(address) == \A f \in Fields : address[f] \in 2 .. Longest[f]
Addresses == {a \in [Fields -> Lengths] : Readable(a)}

\* updateAddress spreads the old Address, whose fields are getters of its
\* class and no properties of its own: what the patch leaves out is missing.
Patches == UNION {[S -> Lengths] : S \in SUBSET Fields}
Patched(patch) == [f \in Fields |-> IF f \in DOMAIN patch THEN patch[f] ELSE 0]

Entity(user, address, hidden) ==
  [user |-> user, address |-> address, hidden |-> hidden, raised |-> 0, held |-> {},
   told |-> [i \in 1 .. MaxEvents |-> 0],
   late |-> {}, raced |-> FALSE, refused |-> FALSE]

Entities ==
  [user : Users, address : Addresses, hidden : BOOLEAN, raised : 0 .. MaxEvents,
   held : SUBSET (1 .. MaxEvents), told : [1 .. MaxEvents -> Nat],
   late : SUBSET (1 .. MaxEvents), raced : BOOLEAN, refused : BOOLEAN]

\* A record of the mapper, which is also a row: hidden is deletedAt.
Rows == [address : Addresses, hidden : BOOLEAN]

ASSUME NothingAssumption == Nothing \notin Objects \cup Entities \cup Rows

\* A new event has a fresh id: here, its number among those of its object.
NewEvent(e) == e.raised + 1

\* addEvent.  (History: an event is late if one of the object's calls is
\* publishing while it is raised.)
Publishing(o) == {c \in Calls : call[c].at = "publishing" /\ call[c].of = o}
WithEvent(e, publishing) ==
  [e EXCEPT !.raised = @ + 1, !.held = @ \cup {NewEvent(e)},
            !.late = IF publishing THEN @ \cup {NewEvent(e)} ELSE @]

-----------------------------------------------------------------------------
Stored(u) == row[u] # Nothing
Born == {object[o].user : o \in {p \in Objects : object[p] # Nothing}}
          \cup {u \in Users : Stored(u)}

Kinds == {"insert", "updateAddress", "softDelete", "delete"}
NoCall == [at |-> "idle", of |-> Nothing, kind |-> Nothing, record |-> Nothing, met |-> FALSE]

Calling ==
  [at : {"idle", "asking", "asked", "publishing", "ok", "false", "conflict", "error"},
   of : Objects \cup {Nothing}, kind : Kinds \cup {Nothing},
   record : Rows \cup {Nothing}, met : BOOLEAN]

\* Types; every stored row and every record can be read back into a valid
\* entity.
RowsOK == row \in [Users -> {Nothing} \cup Rows] /\ emailOf \in [Users -> Emails]

TypeOK ==
  /\ RowsOK
  /\ object \in [Objects -> {Nothing} \cup Entities]
  /\ call \in [Calls -> Calling]
  /\ \A c \in Calls : call[c].at # "idle" =>
        /\ call[c].of \in Objects /\ object[call[c].of] # Nothing
        /\ call[c].kind \in Kinds /\ call[c].record \in Rows

\* The requests of the client: its page size, and a page number it counts up.
Walks == [at : {"idle"}, page : {0}, seen : {<<>>}, scan : {<<>>}, steady : {TRUE},
          limit : Limits]

\* Some users are stored already, no two of them with one address.
Init ==
  /\ row \in [Users -> {Nothing} \cup [address : Addresses, hidden : {FALSE}]]
  /\ emailOf \in [Users -> Emails]
  /\ \A u, v \in Users : Stored(u) /\ Stored(v) /\ emailOf[u] = emailOf[v] => u = v
  /\ object = [o \in Objects |-> Nothing]
  /\ call = [c \in Calls |-> NoCall]
  /\ walk \in Walks

-----------------------------------------------------------------------------
(* Objects.                                                                *)

\* UserEntity.create draws a fresh id and raises UserCreated.
Create(o, u, patch) ==
  /\ object[o] = Nothing /\ u \notin Born
  /\ Valid(Patched(patch))
  /\ object' = [object EXCEPT ![o] = WithEvent(Entity(u, Patched(patch), FALSE), FALSE)]
  /\ UNCHANGED <<disk, call>>

\* The finders build a new object from the row.  findOneById, findAll and
\* their pages leave soft-deleted rows out, findOneByEmail and the finders
\* WithDeleted do not.
Found(u, withDeleted) == Stored(u) /\ (withDeleted \/ ~row[u].hidden)

Load(o, u, withDeleted) ==
  /\ object[o] = Nothing
  /\ Found(u, withDeleted) /\ Readable(row[u].address)
  /\ object' = [object EXCEPT ![o] = Entity(u, row[u].address, row[u].hidden)]
  /\ UNCHANGED <<disk, call>>

Raises(o) == object[o] # Nothing /\ object[o].raised < MaxEvents

\* A patch that makes no valid address throws and changes nothing.
UpdateAddress(o, patch) ==
  /\ Raises(o)
  /\ Valid(Patched(patch))
  /\ object' = [object EXCEPT ![o] =
       WithEvent([@ EXCEPT !.address = Patched(patch)], Publishing(o) # {})]
  /\ UNCHANGED <<disk, call>>

\* makeAdmin, makeModerator and delete: no statement below writes the role.
RaiseEvent(o) ==
  /\ Raises(o)
  /\ object' = [object EXCEPT ![o] = WithEvent(@, Publishing(o) # {})]
  /\ UNCHANGED <<disk, call>>

-----------------------------------------------------------------------------
(* Saving.                                                                 *)

\* The record is made, and the aggregate validated, before the statement is
\* sent; what changes in the object afterwards is not in it.
Record(o) == [address |-> object[o].address, hidden |-> object[o].hidden]

Begin(c, o, kind) ==
  /\ call[c].at = "idle" /\ object[o] # Nothing
  /\ call' = [call EXCEPT ![c] =
       [@ EXCEPT !.at = "asking", !.of = o, !.kind = kind, !.record = Record(o)]]
  /\ UNCHANGED <<disk, object>>

Target(c) == object[call[c].of].user
Asks(c, kind) == call[c].at = "asking" /\ call[c].kind = kind
Go(c, to) == call' = [call EXCEPT ![c].at = to]

\* A write after the client's first page may move anything to another page:
\* the model follows that client no further.
Disturbs ==
  walk' = IF walk.at = "idle" THEN walk
          ELSE [walk EXCEPT !.at = "disturbed", !.page = 0, !.seen = <<>>, !.scan = <<>>]
Writes(u, to) ==
  /\ row' = [row EXCEPT ![u] = to]
  /\ Disturbs
  /\ UNCHANGED emailOf

\* The unique keys: a stored row has the same id, or the same address.
Conflicts(u) == \E v \in Users : Stored(v) /\ emailOf[v] = emailOf[u]

\* The record carries deletedAt: what was loaded hidden is stored hidden.
Insert(c) ==
  /\ Asks(c, "insert") /\ ~Conflicts(Target(c))
  /\ Writes(Target(c), call[c].record)
  /\ Go(c, "asked")
  /\ UNCHANGED object

\* The exception leaves before anything is published.
InsertConflicts(c) ==
  /\ Asks(c, "insert") /\ Conflicts(Target(c))
  /\ Go(c, "conflict")
  /\ UNCHANGED <<disk, object>>

\* UPDATEs by id, which do not look whether they met a row.
SaveAddress(c) ==
  LET u == Target(c) IN
  /\ Asks(c, "updateAddress")
  /\ IF Stored(u) THEN Writes(u, [row[u] EXCEPT !.address = call[c].record.address])
                  ELSE UNCHANGED disk
  /\ Go(c, "asked")
  /\ UNCHANGED object

SoftDelete(c) ==
  LET u == Target(c) IN
  /\ Asks(c, "softDelete")
  /\ IF Stored(u) THEN Writes(u, [row[u] EXCEPT !.hidden = TRUE]) ELSE UNCHANGED disk
  /\ Go(c, "asked")
  /\ UNCHANGED object

\* delete reports whether it met a row.
Delete(c) ==
  /\ Asks(c, "delete")
  /\ IF Stored(Target(c)) THEN Writes(Target(c), Nothing) ELSE UNCHANGED disk
  /\ call' = [call EXCEPT ![c].at = "asked", ![c].met = Stored(Target(c))]
  /\ UNCHANGED object

StatementFails(c) ==
  /\ call[c].at = "asking" /\ "query" \in Faults
  /\ Go(c, "error")
  /\ UNCHANGED <<disk, object>>

\* publishEvents emits every event that the object holds at this moment.
Batch_First(o) == {i \in object[o].held : \A j \in object[o].held : i <= j}
Batch(o) == object[o].held

Published(e, batch, publishing) ==
  [e EXCEPT !.told = [i \in 1 .. MaxEvents |-> e.told[i] + IF i \in batch THEN 1 ELSE 0],
            !.raced = @ \/ publishing]

Publish(c) ==
  LET o == call[c].of IN
  /\ call[c].at = "asked"
  /\ object' = [object EXCEPT ![o] = Published(@, Batch(o), Publishing(o) # {})]
  /\ Go(c, "publishing")
  /\ UNCHANGED disk

\* clearEvents drops what the object holds by now.
Kept_All(o) == object[o].held
Kept(o) == {}

Settle(c) ==
  /\ call[c].at = "publishing"
  /\ object' = [object EXCEPT ![call[c].of].held = Kept(call[c].of)]
  /\ Go(c, IF call[c].kind = "delete" /\ ~call[c].met THEN "false" ELSE "ok")
  /\ UNCHANGED disk

\* A listener's error leaves publishEvents before clearEvents.
Reject(c) ==
  /\ call[c].at = "publishing" /\ "listener" \in Faults
  /\ object' = [object EXCEPT ![call[c].of].refused = TRUE]
  /\ Go(c, "error")
  /\ UNCHANGED disk

-----------------------------------------------------------------------------
(* Listing: findAllPaginated and FindUsersQuery, without an ORDER BY.      *)

Limit == IF walk.limit = 0 THEN DefaultLimit ELSE walk.limit
Offset_Pages(page) == page
Offset_FromOne(page) == (page + 1) * Limit
Offset(page) == page * Limit

Matching == {u \in Users : Found(u, FALSE)}

\* Without an ORDER BY a SELECT may return what it finds in any order, and
\* the next one in another, even if nothing was written in between.
Scans == SetToSeqs(Matching)
Page(scan, n) == SubSeq(scan, Offset(n) + 1, Min({Offset(n) + Limit, Len(scan)}))

\* The count of a page is that of its items, not of all that match, so a
\* client goes on until a page is not full.
Count(page) == Len(page)

\* (History: a walk is steady while all its pages are cut from one order.)
ReadPage ==
  /\ walk.at \in {"idle", "reading"}
  /\ \E scan \in Scans :
       LET page == Page(scan, walk.page) IN
       walk' = [walk EXCEPT !.at = IF Count(page) < Limit THEN "done" ELSE "reading",
                            !.page = @ + 1, !.seen = @ \o page, !.scan = scan,
                            !.steady = @ /\ (walk.at = "idle" \/ scan = walk.scan)]
  /\ UNCHANGED <<row, emailOf, object, call>>

-----------------------------------------------------------------------------
Save(c) ==
  \/ \E o \in Objects, kind \in Kinds : Begin(c, o, kind)
  \/ Insert(c) \/ InsertConflicts(c) \/ SaveAddress(c)
  \/ SoftDelete(c) \/ Delete(c) \/ StatementFails(c)
  \/ Publish(c) \/ Settle(c) \/ Reject(c)

Next ==
  \/ \E o \in Objects, u \in Users :
        \/ \E withDeleted \in BOOLEAN : Load(o, u, withDeleted)
        \/ \E p \in Patches : Create(o, u, p)
  \/ \E o \in Objects : RaiseEvent(o) \/ \E p \in Patches : UpdateAddress(o, p)
  \/ \E c \in Calls : Save(c)
  \/ ReadPage

Spec == Init /\ [][Next]_vars

-----------------------------------------------------------------------------
(* Properties.                                                             *)

\* "Also publishes domain events and waits for completion" (sql-repository.base):
\* an event leaves its object only after it was published, except one that
\* was raised while another publication was awaited.
NoEventLost ==
  \A o \in Objects : object[o] # Nothing =>
    \A i \in 1 .. object[o].raised :
      object[o].told[i] > 0 \/ i \in object[o].held \cup object[o].late

\* An event is published twice only if calls published one object at the same
\* time, or a listener's error made the object keep what it had published.
NoEventRepeated ==
  \A o \in Objects : object[o] # Nothing /\ ~object[o].raced /\ ~object[o].refused =>
    \A i \in 1 .. object[o].raised : object[o].told[i] <= 1

\* The strengthening: while calls publish an object it holds nothing new that
\* was not raised meanwhile, and in between nothing that was published.
History(o) ==
  /\ object[o].held \cup object[o].late \subseteq 1 .. object[o].raised
  /\ \A i \in 1 .. MaxEvents : i > object[o].raised => object[o].told[i] = 0
  /\ Publishing(o) # {} =>
       \A i \in object[o].held \ object[o].late : object[o].told[i] > 0
  /\ Publishing(o) = {} /\ ~object[o].raced /\ ~object[o].refused =>
       \A i \in object[o].held : object[o].told[i] = 0

Histories == \A o \in Objects : object[o] # Nothing => History(o)

ObjectsInv == TypeOK /\ Histories /\ NoEventLost /\ NoEventRepeated

\* A client that reads pages until one is not full has read as many items as
\* users match, in whatever orders the database returned them, unless a row
\* was written after its first page.
PagesCountUsers ==
  walk.at = "done" => Len(walk.seen) = Cardinality(Matching)

\* That these are all the users, and none twice, takes more: the database
\* must have kept one order from the first page to the last.
PagesCoverUsers ==
  walk.at = "done" /\ walk.steady =>
    ToSet(walk.seen) = Matching /\ IsInjective(walk.seen)

\* The strengthening: the pages of an undisturbed client hold as many items as
\* the offset that they reached, and those of a steady one, put together, are
\* the beginning of its scan, and all of it at the end.
WalkCounts ==
  /\ walk.at = "idle" => walk.page = 0
  /\ walk.at \in {"idle", "reading"} =>
       Offset(walk.page) <= Cardinality(Matching) /\ Len(walk.seen) = Offset(walk.page)
  /\ walk.at = "done" => Len(walk.seen) = Cardinality(Matching)

WalkFollowsScan ==
  walk.steady /\ walk.at \in {"reading", "done"} =>
    /\ walk.scan \in Scans
    /\ walk.seen = IF walk.at = "done" THEN walk.scan
                   ELSE SubSeq(walk.scan, 1, Offset(walk.page))

Walking ==
  [at : {"idle", "reading", "done", "disturbed"}, page : Nat, seen : Seq(Users),
   scan : Seq(Users), steady : BOOLEAN, limit : Limits]

WalkInv == walk \in Walking /\ WalkCounts /\ WalkFollowsScan

IInv == ObjectsInv /\ WalkInv
=============================================================================
