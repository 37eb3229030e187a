---------------------------- MODULE DuressAlerts ----------------------------
(***************************************************************************)
(* From a panic or a missed check-in to everybody who is to know: the      *)
(* duress state (boddos/safety/duress.py), the delivery to the trusted     *)
(* contacts (services/notify.py), the push to the phone, the audit record  *)
(* and the broadcast to the mesh, as POST /api/safety/duress and the       *)
(* dead-man loop of api/server.py string them together.                    *)
(*                                                                         *)
(* An alarm is a panic request or a missed check-in.  Requests run         *)
(* concurrently; the missed check-ins of one poll run one after the other  *)
(* in the loop's task.  A step is the code between two awaits, so          *)
(* everything below interleaves with the other alarms and with             *)
(* POST /api/safety/clear.                                                 *)
(*                                                                         *)
(* The one fault modelled is the node's disk: while it is full the audit   *)
(* record raises, and so does the push step when a dead subscription makes *)
(* it save its store.  Failures of contacts, phones and peers are caught   *)
(* by the code and show as messages that do not arrive.                    *)
(*                                                                         *)
(* AlertsSpec and its parts have names of their own: Alarms_proofs extends *)
(* this module together with PushStore.                                    *)
(***************************************************************************)
EXTENDS Naturals, Sequences

CONSTANTS
    Panics,         \* requests to POST /api/safety/duress
    Misses,         \* check-ins that will be missed
    Contacts,       \* cfg.safety.trusted_contacts
    Peers,          \* cfg.mesh.peers, or {} if cfg.safety.broadcast is off
    Nowhere,        \* no location
    NoEvent         \* the alarm has not been triggered

ASSUME AlertsAssumption ==
    /\ Panics \cap Misses = {}
    /\ Nowhere \notin Panics
    /\ NoEvent \notin [alarm : Panics \cup Misses, location : Panics \cup {Nowhere}]

Alarms == Panics \cup Misses

\* A panic is sent from a place of its own, or without one.
Locations == Panics \cup {Nowhere}

Event == [alarm : Alarms, location : Locations]

VARIABLES
    pushEnabled,    \* state.push and state.push.enabled, as configured
    active,         \* DuressState.active
    lastLocation,   \* DuressState.last_location
    history,        \* DuressState.history
    stage,          \* how far the handling of each alarm has come
    event,          \* the event trigger() returned to the handler of each alarm
    tried,          \* the contacts gather() has finished with, for each alarm
    inbox,          \* the events that reached each contact
    audited,        \* the alarms with an audit record
    bus,            \* the events published on the node's own bus
    posted,         \* the peers each alarm has been posted to
    heard,          \* the events published on each peer's bus
    loopAlive,      \* the dead-man loop's task has not ended
    diskFull        \* the node's disk has no room

duress == <<active, lastLocation, history, event>>
delivery == <<tried, inbox>>
mesh == <<posted, heard>>
env == <<pushEnabled, diskFull>>
alertsVars == <<duress, stage, delivery, audited, bus, mesh, loopAlive, env>>

\* The stages: not raised; collected by due(), behind another missed check-in;
\* delivering to the contacts; pushing; posting to the peers; over; ended by an
\* exception.
Stages == {"idle", "due", "contacts", "push", "announce", "done", "failed"}

InHand == {"contacts", "push", "announce"}

AlertsTypeOK ==
    /\ pushEnabled \in BOOLEAN
    /\ active \in BOOLEAN
    /\ lastLocation \in Locations
    /\ history \in Seq(Event)
    /\ stage \in [Alarms -> Stages]
    /\ event \in [Alarms -> Event \cup {NoEvent}]
    /\ tried \in [Alarms -> SUBSET Contacts]
    /\ inbox \in [Contacts -> SUBSET Event]
    /\ audited \subseteq Alarms
    /\ bus \in Seq(Event)
    /\ posted \in [Alarms -> SUBSET Peers]
    /\ heard \in [Peers -> Seq(Event)]
    /\ loopAlive \in BOOLEAN
    /\ diskFull \in BOOLEAN

AlertsInit ==
    /\ pushEnabled \in BOOLEAN
    /\ active = FALSE
    /\ lastLocation = Nowhere
    /\ history = <<>>
    /\ stage = [a \in Alarms |-> "idle"]
    /\ event = [a \in Alarms |-> NoEvent]
    /\ tried = [a \in Alarms |-> {}]
    /\ inbox = [c \in Contacts |-> {}]
    /\ audited = {}
    /\ bus = <<>>
    /\ posted = [a \in Alarms |-> {}]
    /\ heard = [p \in Peers |-> <<>>]
    /\ loopAlive = TRUE
    /\ diskFull = FALSE
-----------------------------------------------------------------------------
\* DuressManager.trigger: the event and the messages to the contacts are built
\* here, from one note and location.
Trigger(a, location) ==
    LET e == [alarm |-> a, location |-> location]
    IN  /\ active' = TRUE
        /\ lastLocation' = location
        /\ history' = Append(history, e)
        /\ event' = [event EXCEPT ![a] = e]

\* POST /api/safety/duress
Panic(a) ==
    /\ stage[a] = "idle"
    /\ \E location \in {a, Nowhere} : Trigger(a, location)
    /\ stage' = [stage EXCEPT ![a] = "contacts"]
    /\ UNCHANGED <<delivery, audited, bus, mesh, loopAlive, env>>

\* The loop takes the first of the missed check-ins; it is told where the last
\* alarm was raised.
LoopTakes(a, waiting) ==
    /\ Trigger(a, lastLocation)
    /\ stage' = [b \in Alarms |-> IF b = a THEN "contacts"
                                  ELSE IF b \in waiting THEN "due" ELSE stage[b]]

LoopBusy == \E a \in Misses : stage[a] \in InHand \cup {"due"}

\* The loop's poll: due() returns some missed check-ins.
LoopPoll ==
    /\ loopAlive
    /\ ~ LoopBusy
    /\ \E due \in SUBSET {a \in Misses : stage[a] = "idle"} :
          \E a \in due : LoopTakes(a, due \ {a})
    /\ UNCHANGED <<delivery, audited, bus, mesh, loopAlive, env>>

\* Mutant of Deliver: the message is built when it is sent.
DeliverLatest(a, c) ==
    /\ stage[a] = "contacts"
    /\ c \notin tried[a]
    /\ tried' = [tried EXCEPT ![a] = @ \cup {c}]
    /\ inbox' = [inbox EXCEPT ![c] = @ \cup {[alarm |-> a, location |-> lastLocation]}]
    /\ UNCHANGED <<duress, stage, audited, bus, mesh, loopAlive, env>>

\* Mutant of Deliver: a contact that fails ends the handler.
DeliverRaises(a, c) ==
    /\ stage[a] = "contacts"
    /\ c \notin tried[a]
    /\ \/ /\ tried' = [tried EXCEPT ![a] = @ \cup {c}]
          /\ inbox' = [inbox EXCEPT ![c] = @ \cup {event[a]}]
          /\ UNCHANGED stage
       \/ /\ stage' = [stage EXCEPT ![a] = "failed"]
          /\ UNCHANGED delivery
    /\ UNCHANGED <<duress, audited, bus, mesh, loopAlive, env>>

\* Notifier._deliver: one contact's message arrives or not; errors are caught.
Deliver(a, c) ==
    /\ stage[a] = "contacts"
    /\ c \notin tried[a]
    /\ tried' = [tried EXCEPT ![a] = @ \cup {c}]
    /\ \/ inbox' = [inbox EXCEPT ![c] = @ \cup {event[a]}]
       \/ UNCHANGED inbox
    /\ UNCHANGED <<duress, stage, audited, bus, mesh, loopAlive, env>>

\* An exception leaves the handler; in the loop's task it ends the task.
Raise(a) ==
    /\ stage' = [stage EXCEPT ![a] = "failed"]
    /\ loopAlive' = (loopAlive /\ a \notin Misses)
    /\ UNCHANGED <<audited, bus>>

\* AuditLog.record and, without an await in between, EventBus.publish.
Record(a) ==
    IF diskFull
    THEN Raise(a)
    ELSE /\ audited' = audited \cup {a}
         /\ bus' = Append(bus, event[a])
         /\ stage' = [stage EXCEPT ![a] = "announce"]
         /\ UNCHANGED loopAlive

\* Mutant of AfterContacts: the deliveries are not waited for.
AfterTrigger(a) ==
    /\ stage[a] = "contacts"
    /\ \/ /\ pushEnabled
          /\ stage' = [stage EXCEPT ![a] = "push"]
          /\ UNCHANGED <<audited, bus, loopAlive>>
       \/ ~ pushEnabled /\ Record(a)
    /\ UNCHANGED <<duress, delivery, mesh, env>>

\* deliver_all returns when every contact has been tried.
AfterContacts(a) ==
    /\ stage[a] = "contacts"
    /\ tried[a] = Contacts
    /\ \/ /\ pushEnabled
          /\ stage' = [stage EXCEPT ![a] = "push"]
          /\ UNCHANGED <<audited, bus, loopAlive>>
       \/ ~ pushEnabled /\ Record(a)
    /\ UNCHANGED <<duress, delivery, mesh, env>>

\* The push thread returns, or raises when it cannot save its store.
AfterPush(a) ==
    /\ stage[a] = "push"
    /\ Record(a) \/ (diskFull /\ Raise(a))
    /\ UNCHANGED <<duress, delivery, mesh, env>>

\* _broadcast posts to one peer after the other and swallows every failure.
PostPeer(a, p) ==
    /\ stage[a] = "announce"
    /\ p \notin posted[a]
    /\ posted' = [posted EXCEPT ![a] = @ \cup {p}]
    /\ \/ heard' = [heard EXCEPT ![p] = Append(@, event[a])]
       \/ UNCHANGED heard
    /\ UNCHANGED <<duress, stage, delivery, audited, bus, loopAlive, env>>

\* Mutant of AfterPeers: the posts are not waited for.
AfterPublish(a) ==
    /\ stage[a] = "announce"
    /\ stage' = [stage EXCEPT ![a] = "done"]
    /\ UNCHANGED <<duress, delivery, audited, bus, mesh, loopAlive, env>>

\* The last post is over: a request ends, the loop goes on with its batch.
AfterPeers(a) ==
    /\ stage[a] = "announce"
    /\ posted[a] = Peers
    /\ LET waiting == {b \in Misses : stage[b] = "due"}
       IN  \/ /\ a \in Panics \/ waiting = {}
              /\ stage' = [stage EXCEPT ![a] = "done"]
              /\ UNCHANGED duress
           \/ /\ a \in Misses
              /\ \E b \in waiting :
                    /\ Trigger(b, lastLocation)
                    /\ stage' = [stage EXCEPT ![a] = "done", ![b] = "contacts"]
    /\ UNCHANGED <<delivery, audited, bus, mesh, loopAlive, env>>

\* POST /api/safety/clear: the record comes first and may raise.
Clear ==
    /\ active' = (active /\ diskFull)
    /\ UNCHANGED <<lastLocation, history, event, stage, delivery, audited, bus,
                   mesh, loopAlive, env>>

\* The node's disk runs full, and is freed.
DiskChanges ==
    /\ diskFull' = ~ diskFull
    /\ UNCHANGED <<duress, stage, delivery, audited, bus, mesh, loopAlive,
                   pushEnabled>>

Handle(a) ==
    \/ \E c \in Contacts : Deliver(a, c)
    \/ AfterContacts(a)
    \/ AfterPush(a)
    \/ \E p \in Peers : PostPeer(a, p)
    \/ AfterPeers(a)

AlertsNext ==
    \/ \E a \in Panics : Panic(a)
    \/ LoopPoll
    \/ \E a \in Alarms : Handle(a)
    \/ Clear
    \/ DiskChanges

\* Every await of a handler ends: contacts and peers have timeouts of 8, 10 and
\* 4 seconds, the push thread is assumed to return.  Nothing is assumed of the
\* users, of the check-ins or of the disk.
AlertsSpec == AlertsInit /\ [][AlertsNext]_alertsVars /\ \A a \in Alarms : WF_alertsVars(Handle(a))
-----------------------------------------------------------------------------
Elements(s) == {s[i] : i \in DOMAIN s}
Announced(a) == \/ event[a] \in Elements(bus)
                \/ \E p \in Peers : event[a] \in Elements(heard[p])

\* Whoever reads of an alarm on the mesh can rely on every trusted contact having
\* been tried and on the alarm being in the audit log: the slow deliveries come
\* first, whatever else fails or interleaves.
AnnouncedAfterContacts ==
    \A a \in Alarms : event[a] # NoEvent /\ Announced(a)
        => tried[a] = Contacts /\ a \in audited

\* What contacts, the node's screens and the peers get for an alarm is what was
\* true when it was triggered, not what a concurrent alarm made of the shared
\* duress state since; and the history has it once.
MessagesAreTriggered ==
    LET received == Elements(bus) \cup (UNION {inbox[c] : c \in Contacts})
                                  \cup (UNION {Elements(heard[p]) : p \in Peers})
    IN  /\ received \subseteq Elements(history)
        /\ \A e, f \in Elements(history) : e.alarm = f.alarm => e = f

\* Whatever the disk does, every alarm is tried at every contact: a panic, and a
\* missed check-in the node has noticed, also behind others.  ("If you don't check
\* in before the deadline, it auto-triggers a duress alert", safety/deadman.py.)  Only
\* what waits in the batch when an exception ends the loop's task is not.
ContactsAreTried ==
    \A a \in Alarms : stage[a] \in {"due", "contacts"} ~>
        \/ tried[a] = Contacts
        \/ stage[a] = "due" /\ ~ loopAlive

\* An alarm "emits a mesh bus event so every node/phone in your mesh knows"
\* (safety/duress.py), unless the disk kept its handler from it.
MeshIsTold ==
    \A a \in Alarms : stage[a] = "contacts" ~>
        \/ event[a] \in Elements(bus) /\ posted[a] = Peers
        \/ stage[a] = "failed"
=============================================================================
