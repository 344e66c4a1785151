------------------------------ MODULE Messaging ------------------------------
(***************************************************************************)
(* The event bus.  EventBusModule.forRoot chooses an adapter:              *)
(*   "in-memory"  publish emits to the handlers of its own process and     *)
(*                waits for them;                                          *)
(*   "redis"      publish sends the message to Redis, which pushes it to   *)
(*                the connections subscribed at that moment, in one order  *)
(*                for all; nobody waits for the handlers.                  *)
(* subscribe attaches its listener at once and does not wait for Redis to  *)
(* confirm the subscription.  Every listener of a process hears what the   *)
(* process's one subscriber connection receives.                           *)
(*                                                                         *)
(* An operator X_Y is a mutant of X.                                       *)
(***************************************************************************)
EXTENDS FiniteSets, Integers, SequencesExt

CONSTANTS
  Processes,
  Handlers,
  Messages,   \* each is published once
  Names,      \* of events, which are Redis channels
  MaxResend,  \* bound: lost replies to a PUBLISH
  MaxDrops,   \* bound: lost subscriber connections
  Faults      \* what may fail: handlers, commands, links

ASSUME MaxAssumption == MaxResend \in Nat /\ MaxDrops \in Nat
ASSUME FaultsAssumption == Faults \subseteq {"handler", "command", "link"}

VARIABLES
  adapter,   \* the adapter of every process
  home,      \* the process of each handler and message
  name,      \* the event name of each handler and message
  listener,  \* where each subscribe call is
  channels,  \* what each subscriber connection is subscribed to
  link,      \* the state of each subscriber connection
  inbox,     \* what Redis pushed to it and the process has not read
  publish,   \* where each publish call is
  awaits,    \* the handlers a publish call waits for
  running,   \* how often each handler is working on each message
  resent,
  dropped,
  wire,      \* history: the order in which Redis executed PUBLISH
  started,   \* history: the messages that each handler began, in order
  failed,    \* history: the messages on which a handler failed
  owed       \* history: who was subscribed when a message was published

vars == <<adapter, home, name, listener, channels, link, inbox, publish, awaits,
          running, resent, dropped, wire, started, failed, owed>>
fixed == <<adapter, home, name>>
redis == <<listener, channels, link, inbox, dropped>>
bus == <<publish, awaits, resent, wire, owed>>
work == <<running, started, failed>>

\* Redis needs its options; everything else is the adapter in memory.
Chosen(wanted, hasOptions) ==
  IF wanted = "redis" /\ hasOptions THEN "redis" ELSE "in-memory"

\* Types; and a handler works on messages of its own name only, although it
\* hears every message of its connection.
TypeOK ==
  /\ adapter \in {"in-memory", "redis"}
  /\ home \in [Handlers \cup Messages -> Processes]
  /\ name \in [Handlers \cup Messages -> Names]
  /\ listener \in [Handlers -> {"none", "asked", "heard"}]
  /\ channels \in [Processes -> SUBSET Names]
  /\ link \in [Processes -> {"up", "down", "closed"}]
  /\ inbox \in [Processes -> Seq(Messages)]
  /\ publish \in [Messages -> {"idle", "sending", "ok", "error"}]
  /\ awaits \in [Messages -> SUBSET Handlers]
  /\ running \in [Handlers -> [Messages -> 0 .. 1 + MaxResend]]
  /\ \A h \in Handlers, m \in Messages : running[h][m] > 0 => name[h] = name[m]
  /\ resent \in 0 .. MaxResend /\ dropped \in 0 .. MaxDrops
  /\ wire \in Seq(Messages) /\ started \in [Handlers -> Seq(Messages)]
  /\ failed \subseteq Handlers \X Messages /\ owed \subseteq Handlers \X Messages

Init ==
  /\ \E wanted \in {"in-memory", "redis"}, hasOptions \in BOOLEAN :
        adapter = Chosen(wanted, hasOptions)
  /\ home \in [Handlers \cup Messages -> Processes]
  /\ name \in [Handlers \cup Messages -> Names]
  /\ listener = [h \in Handlers |-> "none"]
  /\ channels = [p \in Processes |-> {}]
  /\ link = [p \in Processes |-> "up"]
  /\ inbox = [p \in Processes |-> <<>>]
  /\ publish = [m \in Messages |-> "idle"]
  /\ awaits = [m \in Messages |-> {}]
  /\ running = [h \in Handlers |-> [m \in Messages |-> 0]]
  /\ resent = 0 /\ dropped = 0
  /\ wire = <<>> /\ started = [h \in Handlers |-> <<>>]
  /\ failed = {} /\ owed = {}

-----------------------------------------------------------------------------
Concerns(h, m) == name[h] = name[m]
Start(H, m) ==
  /\ running' = [h \in Handlers |-> [running[h] EXCEPT ![m] = @ + IF h \in H THEN 1 ELSE 0]]
  /\ started' = [h \in Handlers |-> IF h \in H THEN Append(started[h], m) ELSE started[h]]
  /\ UNCHANGED failed

(* The adapter in memory, on the process's EventEmitter2.                  *)

\* emitAsync starts every handler of the name.
Emit(m) ==
  LET H == {h \in Handlers : listener[h] = "heard" /\ home[h] = home[m] /\ Concerns(h, m)} IN
  /\ adapter = "in-memory" /\ publish[m] = "idle"
  /\ publish' = [publish EXCEPT ![m] = "sending"]
  /\ awaits' = [awaits EXCEPT ![m] = H]
  /\ Start(H, m)
  /\ UNCHANGED <<fixed, redis, resent, wire, owed>>

\* It resolves when all are through and rejects when one failed.
Resolves_Started(m) == TRUE
Resolves(m) == \A h \in awaits[m] : running[h][m] = 0 /\ <<h, m>> \notin failed

EmitEnds(m) ==
  /\ adapter = "in-memory" /\ publish[m] = "sending"
  /\ \/ Resolves(m) /\ publish' = [publish EXCEPT ![m] = "ok"]
     \/ /\ \E h \in awaits[m] : <<h, m>> \in failed
        /\ publish' = [publish EXCEPT ![m] = "error"]
  /\ UNCHANGED <<fixed, redis, awaits, resent, wire, owed, work>>

-----------------------------------------------------------------------------
(* The adapter for Redis.                                                  *)

\* The listener hears the connection from now on; the SUBSCRIBE is on its way.
Subscribe(h) ==
  /\ listener[h] = "none"
  /\ listener' = [listener EXCEPT ![h] = IF adapter = "redis" THEN "asked" ELSE "heard"]
  /\ UNCHANGED <<fixed, channels, link, inbox, dropped, bus, work>>

Confirm(h) ==
  /\ adapter = "redis" /\ listener[h] = "asked" /\ link[home[h]] = "up"
  /\ listener' = [listener EXCEPT ![h] = "heard"]
  /\ channels' = [channels EXCEPT ![home[h]] = @ \cup {name[h]}]
  /\ UNCHANGED <<fixed, link, inbox, dropped, bus, work>>

\* The error is logged; the listener stays.
SubscribeFails(h) ==
  /\ adapter = "redis" /\ listener[h] = "asked" /\ "command" \in Faults
  /\ listener' = [listener EXCEPT ![h] = "heard"]
  /\ UNCHANGED <<fixed, channels, link, inbox, dropped, bus, work>>

Publish(m) ==
  /\ adapter = "redis" /\ publish[m] = "idle"
  /\ publish' = [publish EXCEPT ![m] = "sending"]
  /\ UNCHANGED <<fixed, redis, awaits, resent, wire, owed, work>>

\* Redis executes PUBLISH.  The client sends it again if the reply is lost.
Reached(m) == {p \in Processes : link[p] = "up" /\ name[m] \in channels[p]}
Listens(h) == listener[h] # "none"

Reach(m) ==
  /\ adapter = "redis" /\ publish[m] = "sending"
  /\ inbox' = [p \in Processes |-> IF p \in Reached(m) THEN Append(inbox[p], m) ELSE inbox[p]]
  /\ wire' = Append(wire, m)
  /\ owed' = owed \cup {<<h, m>> : h \in {g \in Handlers :
                          Listens(g) /\ Concerns(g, m) /\ home[g] \in Reached(m)}}
  /\ \/ publish' = [publish EXCEPT ![m] = "ok"] /\ UNCHANGED resent
     \/ /\ "link" \in Faults /\ resent < MaxResend
        /\ resent' = resent + 1 /\ UNCHANGED publish
  /\ UNCHANGED <<fixed, listener, channels, link, dropped, awaits, work>>

PublishFails(m) ==
  /\ adapter = "redis" /\ publish[m] = "sending"
  /\ "command" \in Faults \/ link[home[m]] = "closed"
  /\ publish' = [publish EXCEPT ![m] = "error"]
  /\ UNCHANGED <<fixed, redis, awaits, resent, wire, owed, work>>

\* The "message" event of the connection: every attached listener compares
\* the channel with its name and calls its handler, which nobody awaits.
Position_Last(p) == Len(inbox[p])
Position(p) == 1
NextMessage(p) == inbox[p][Position(p)]
Hears_Confirmed(h, p, m) == listener[h] = "heard" /\ home[h] = p /\ Concerns(h, m)
Hears_AnyChannel(h, p, m) == Listens(h) /\ home[h] = p
Hears(h, p, m) == Listens(h) /\ home[h] = p /\ Concerns(h, m)

Deliver(p) ==
  /\ inbox[p] # <<>>
  /\ inbox' = [inbox EXCEPT ![p] = RemoveAt(@, Position(p))]
  /\ Start({h \in Handlers : Hears(h, p, NextMessage(p))}, NextMessage(p))
  /\ UNCHANGED <<fixed, listener, channels, link, dropped, bus>>

\* What was under way to a lost connection is gone; the client connects
\* again and subscribes to the channels it had.
Drop(p) ==
  /\ adapter = "redis" /\ link[p] = "up"
  /\ "link" \in Faults /\ dropped < MaxDrops
  /\ dropped' = dropped + 1
  /\ link' = [link EXCEPT ![p] = "down"]
  /\ inbox' = [inbox EXCEPT ![p] = <<>>]
  /\ owed' = {d \in owed : home[d[1]] # p \/ d[2] \notin ToSet(inbox[p])}
  /\ UNCHANGED <<fixed, listener, channels, publish, awaits, resent, wire, work>>

Reconnect(p) ==
  /\ link[p] = "down"
  /\ link' = [link EXCEPT ![p] = "up"]
  /\ UNCHANGED <<fixed, listener, channels, inbox, dropped, bus, work>>

\* onModuleDestroy: QUIT follows what the connection already received.
Quit(p) ==
  /\ adapter = "redis" /\ link[p] = "up"
  /\ link' = [link EXCEPT ![p] = "closed"]
  /\ UNCHANGED <<fixed, listener, channels, inbox, dropped, bus, work>>

-----------------------------------------------------------------------------
HandlerEnds(h, m) ==
  /\ running[h][m] > 0
  /\ running' = [running EXCEPT ![h][m] = @ - 1]
  /\ \/ UNCHANGED failed
     \/ "handler" \in Faults /\ failed' = failed \cup {<<h, m>>}
  /\ UNCHANGED <<fixed, redis, bus, started>>

Next ==
  \/ \E h \in Handlers : Subscribe(h) \/ Confirm(h) \/ SubscribeFails(h)
  \/ \E m \in Messages : Emit(m) \/ EmitEnds(m) \/ Publish(m) \/ Reach(m) \/ PublishFails(m)
  \/ \E p \in Processes : Deliver(p) \/ Drop(p) \/ Reconnect(p) \/ Quit(p)
  \/ \E h \in Handlers, m \in Messages : HandlerEnds(h, m)

Spec == Init /\ [][Next]_vars

-----------------------------------------------------------------------------
(* Properties.                                                             *)

\* A handler that had subscribed when Redis took a message, over a connection
\* that Redis counted as subscribed, begins it unless that connection is lost:
\* neither an own SUBSCRIBE still under way nor a slow handler costs a message.
OwedIsKept ==
  \A d \in owed : d[2] \in ToSet(started[d[1]]) \cup ToSet(inbox[home[d[1]]])

\* s is t without some of its elements.
Within(s, t) ==
  \E at \in [DOMAIN s -> DOMAIN t] :
    \A i, j \in DOMAIN s : s[i] = t[at[i]] /\ (i < j => at[i] < at[j])

\* Handlers of a process begin messages in the order in which Redis took them
\* (they may end in any order).
StartsInOrder ==
  adapter = "redis" => \A h \in Handlers : Within(started[h], wire)

\* In memory, a publish that returned was handled by everyone it started.
PublishAwaitsHandlers ==
  \A m \in Messages : adapter = "in-memory" /\ publish[m] = "ok" =>
    \A h \in Handlers : /\ <<h, m>> \notin failed
                        /\ m \in ToSet(started[h]) => running[h][m] = 0

\* The strengthening.  A message is with a handler or under way to it no more
\* often than it was sent.
Times(s, m) == Cardinality({i \in DOMAIN s : s[i] = m})
Copies(m) ==
  IF publish[m] = "idle" THEN 0
  ELSE resent + IF publish[m] = "ok" \/ adapter = "in-memory" THEN 1 ELSE 0

CopiesAreSent ==
  \A h \in Handlers, m \in Messages :
    running[h][m] + Times(inbox[home[h]], m) <= Copies(m)

\* Who works has begun; in memory nothing is under way, and who has begun is
\* awaited.
WorkIsAwaited ==
  /\ \A h \in Handlers, m \in Messages :
       running[h][m] > 0 => m \in ToSet(started[h])
  /\ adapter = "in-memory" =>
       /\ \A p \in Processes : inbox[p] = <<>>
       /\ \A h \in Handlers, m \in Messages :
            m \in ToSet(started[h]) \/ <<h, m>> \in failed =>
              h \in awaits[m] /\ publish[m] # "idle"

\* Who is owed a message listens to its name.
OwedListen == \A d \in owed : Listens(d[1]) /\ Concerns(d[1], d[2])

\* What a handler began and what is under way to it follow in Redis's order.
ArrivesInOrder ==
  adapter = "redis" => \A h \in Handlers : Within(started[h] \o inbox[home[h]], wire)

IInv ==
  /\ TypeOK
  /\ CopiesAreSent
  /\ WorkIsAwaited
  /\ PublishAwaitsHandlers
  /\ OwedListen
  /\ OwedIsKept
  /\ ArrivesInOrder
=============================================================================
