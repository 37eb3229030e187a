------------------------------ MODULE EventBus ------------------------------
(***************************************************************************)
(* The in-process event bus (boddos/mesh/bus.py) and the /ws handlers that *)
(* carry its events to the screens (api/server.py).  Every connection has  *)
(* a bounded queue; publishing puts the event on the queues that have room *)
(* and never waits.                                                        *)
(*                                                                         *)
(* Events are numbered in the order they are published, so an event is its *)
(* number.  A connection is used once: a screen that reconnects is another *)
(* connection.  The handler never reads from its socket, so it notices     *)
(* that the screen has gone only when it sends.                            *)
(***************************************************************************)
EXTENDS Naturals, Sequences

CONSTANTS
    Connections,    \* the connections screens open
    QueueCap,       \* asyncio.Queue(maxsize=100)
    NoEvent,        \* the handler holds no event
    MaxEvents       \* bound on the events published

ASSUME BusAssumption ==
    /\ QueueCap \in Nat \ {0}
    /\ MaxEvents \in Nat
    /\ NoEvent \notin Nat

VARIABLES
    published,  \* how many events have been published
    handler,    \* where the handler of each connection is
    queue,      \* the queue of each connection
    holding,    \* the event the handler took from the queue and is sending
    present,    \* the screen is at the other end of the connection
    \* ghosts
    joined,     \* how many events had been published at subscribe()
    sent,       \* the events sent to the screen, in order
    dropped     \* the events publish() found no room for, in order

vars == <<published, handler, queue, holding, present, joined, sent, dropped>>

\* Not connected; sending the hello; in q.get(); in send_json(); returned.
HandlerStates == {"off", "hello", "waiting", "sending", "ended"}

Subscribed(c) == handler[c] \in {"hello", "waiting", "sending"}

TypeOK ==
    /\ published \in Nat
    /\ handler \in [Connections -> HandlerStates]
    /\ queue \in [Connections -> Seq(Nat)]
    /\ holding \in [Connections -> Nat \cup {NoEvent}]
    /\ present \in [Connections -> BOOLEAN]
    /\ joined \in [Connections -> Nat]
    /\ sent \in [Connections -> Seq(Nat)]
    /\ dropped \in [Connections -> Seq(Nat)]

Init ==
    /\ published = 0
    /\ handler = [c \in Connections |-> "off"]
    /\ queue = [c \in Connections |-> <<>>]
    /\ holding = [c \in Connections |-> NoEvent]
    /\ present = [c \in Connections |-> FALSE]
    /\ joined = [c \in Connections |-> 0]
    /\ sent = [c \in Connections |-> <<>>]
    /\ dropped = [c \in Connections |-> <<>>]
-----------------------------------------------------------------------------
\* Mutant of HasRoom: the last place of the queue is not used.
HasRoomToSpare(c) == Len(queue[c]) < QueueCap - 1

HasRoom(c) == Len(queue[c]) < QueueCap

\* publish: put_nowait on every subscriber's queue, QueueFull is ignored.
Publish ==
    /\ published < MaxEvents
    /\ published' = published + 1
    /\ queue' = [c \in Connections |->
                   IF Subscribed(c) /\ HasRoom(c)
                   THEN Append(queue[c], published + 1) ELSE queue[c]]
    /\ dropped' = [c \in Connections |->
                     IF Subscribed(c) /\ ~ HasRoom(c)
                     THEN Append(dropped[c], published + 1) ELSE dropped[c]]
    /\ UNCHANGED <<handler, holding, present, joined, sent>>

\* The handler accepts the connection, subscribes and starts to send the hello.
Connect(c) ==
    /\ handler[c] = "off"
    /\ handler' = [handler EXCEPT ![c] = "hello"]
    /\ present' = [present EXCEPT ![c] = TRUE]
    /\ joined' = [joined EXCEPT ![c] = published]
    /\ UNCHANGED <<published, queue, holding, sent, dropped>>

\* Mutant of Get: the newest event of the queue is taken.
GetNewest(c) ==
    /\ handler[c] = "waiting"
    /\ queue[c] # <<>>
    /\ handler' = [handler EXCEPT ![c] = "sending"]
    /\ holding' = [holding EXCEPT ![c] = queue[c][Len(queue[c])]]
    /\ queue' = [queue EXCEPT ![c] = SubSeq(@, 1, Len(@) - 1)]
    /\ UNCHANGED <<published, present, joined, sent, dropped>>

\* Mutant of Get: the queue is emptied for one event.
GetDrains(c) ==
    /\ handler[c] = "waiting"
    /\ queue[c] # <<>>
    /\ handler' = [handler EXCEPT ![c] = "sending"]
    /\ holding' = [holding EXCEPT ![c] = Head(queue[c])]
    /\ queue' = [queue EXCEPT ![c] = <<>>]
    /\ UNCHANGED <<published, present, joined, sent, dropped>>

\* q.get() returns the oldest event of the queue.
Get(c) ==
    /\ handler[c] = "waiting"
    /\ queue[c] # <<>>
    /\ handler' = [handler EXCEPT ![c] = "sending"]
    /\ holding' = [holding EXCEPT ![c] = Head(queue[c])]
    /\ queue' = [queue EXCEPT ![c] = Tail(@)]
    /\ UNCHANGED <<published, present, joined, sent, dropped>>

\* Mutant of SendDone: the handler returns after one event.
SendDoneOnce(c) ==
    /\ handler[c] \in {"hello", "sending"}
    /\ present[c]
    /\ handler' = [handler EXCEPT ![c] = IF handler[c] = "hello" THEN "waiting" ELSE "ended"]
    /\ holding' = [holding EXCEPT ![c] = NoEvent]
    /\ sent' = IF handler[c] = "sending"
               THEN [sent EXCEPT ![c] = Append(@, holding[c])] ELSE sent
    /\ UNCHANGED <<published, queue, present, joined, dropped>>

\* The screen gets the hello or the event.
SendDone(c) ==
    /\ handler[c] \in {"hello", "sending"}
    /\ present[c]
    /\ handler' = [handler EXCEPT ![c] = "waiting"]
    /\ holding' = [holding EXCEPT ![c] = NoEvent]
    /\ sent' = IF handler[c] = "sending"
               THEN [sent EXCEPT ![c] = Append(@, holding[c])] ELSE sent
    /\ UNCHANGED <<published, queue, present, joined, dropped>>

\* The send raises: `finally` unsubscribes the queue.
SendFails(c) ==
    /\ handler[c] \in {"hello", "sending"}
    /\ ~ present[c]
    /\ handler' = [handler EXCEPT ![c] = "ended"]
    /\ queue' = [queue EXCEPT ![c] = <<>>]
    /\ holding' = [holding EXCEPT ![c] = NoEvent]
    /\ UNCHANGED <<published, present, joined, sent, dropped>>

\* The screen closes or loses its connection.
Leave(c) ==
    /\ present[c]
    /\ present' = [present EXCEPT ![c] = FALSE]
    /\ UNCHANGED <<published, handler, queue, holding, joined, sent, dropped>>

Handler(c) == Get(c) \/ SendDone(c) \/ SendFails(c)

Next ==
    \/ Publish
    \/ \E c \in Connections : Connect(c) \/ Handler(c) \/ Leave(c)

\* A handler that can go on does; nothing is assumed of publishers and screens.
Spec == Init /\ [][Next]_vars /\ \A c \in Connections : WF_vars(Handler(c))
-----------------------------------------------------------------------------
Elements(s) == {s[i] : i \in DOMAIN s}

\* The handler has an event in hand exactly while it sends one; everything that
\* has passed through the queue or is in it, in order.
Held(c) == IF handler[c] = "sending" THEN <<holding[c]>> ELSE <<>>
Passed(c) == sent[c] \o Held(c) \o queue[c]

\* A screen sees events in the order they were published, none twice, and none
\* from before it connected.
SentInOrder ==
    \A c \in Connections : \A i \in DOMAIN sent[c] :
        /\ sent[c][i] \in joined[c] + 1 .. published
        /\ \A j \in DOMAIN sent[c] : i < j => sent[c][i] < sent[c][j]

\* Between connecting and leaving, an event is on its way, sent, or was dropped;
\* never both, and never lost anywhere else.
NothingLostOtherwise ==
    \A c \in Connections : Subscribed(c) =>
        /\ Elements(Passed(c)) \cup Elements(dropped[c]) = joined[c] + 1 .. published
        /\ Elements(Passed(c)) \cap Elements(dropped[c]) = {}

\* An event is dropped for a screen only when that screen was QueueCap events
\* behind: they come before it, so a screen that keeps up misses nothing, however
\* slow the others are.  ("Safety alerts, sensor updates, and mesh changes are
\* published to everyone", says the module's docstring: not to one that lags.)
DroppedOnlyWhenBehind ==
    \A c \in Connections : \A i \in DOMAIN dropped[c] :
        Subscribed(c) =>
            \E k \in 0 .. Len(Passed(c)) - QueueCap :
                \A j \in k + 1 .. k + QueueCap :
                    Passed(c)[j] < dropped[c][i]

\* What got into a queue is sent, or the screen has left.
QueuedIsSent ==
    \A c \in Connections : \A e \in 1 .. MaxEvents :
        e \in Elements(queue[c]) ~> e \in Elements(sent[c]) \/ ~ present[c]
-----------------------------------------------------------------------------
\* The inductive strengthenings: a connection that is not open has seen nothing,
\* and what has passed or will pass through a queue, all of it, is in order.
FreshInv ==
    \A c \in Connections :
        /\ joined[c] <= published
        /\ handler[c] = "sending" => holding[c] \in Nat
        /\ handler[c] = "off" => sent[c] = <<>> /\ queue[c] = <<>> /\ dropped[c] = <<>>

Rising(s, low, high) ==
    \A i \in DOMAIN s : /\ low < s[i] /\ s[i] <= high
                        /\ \A j \in DOMAIN s : i < j => s[i] < s[j]

OrderInv == \A c \in Connections : Rising(Passed(c), joined[c], published)
=============================================================================
