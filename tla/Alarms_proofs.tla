--------------------------- MODULE Alarms_proofs ---------------------------
(***************************************************************************)
(* Theorems about an alarm on its way: from the duress state to contacts,  *)
(* audit log and mesh, for any number of alarms at once, and through the   *)
(* push subscriptions, for any number of devices and of threads, texts of  *)
(* any lengths, and any failures and restarts.                             *)
(***************************************************************************)
EXTENDS DuressAlerts, PushStore, SequenceTheorems, TLAPS
-----------------------------------------------------------------------------
(***************************************************************************)
(* The alarms.                                                             *)
(***************************************************************************)

\* An alarm has an event once a handler has it in hand, the history has that event,
\* and no other of the same alarm.
EventInv ==
    /\ \A a \in Alarms : (event[a] = NoEvent) <=> (stage[a] \in {"idle", "due"})
    /\ \A a \in Alarms :
          event[a] # NoEvent => event[a].alarm = a /\ event[a] \in Elements(history)
    /\ \A e \in Elements(history) : event[e.alarm] = e

\* What anybody has received is in the history; what was published is of an alarm
\* with an audit record.
ReceivedInv ==
    /\ \A c \in Contacts : inbox[c] \subseteq Elements(history)
    /\ Elements(bus) \subseteq Elements(history)
    /\ \A e \in Elements(bus) : e.alarm \in audited
    /\ \A p \in Peers :
          /\ Elements(heard[p]) \subseteq Elements(history)
          /\ \A e \in Elements(heard[p]) : e.alarm \in audited

\* The contacts come before the phone, the audit record and the mesh.
OrderOfSteps ==
    /\ \A a \in audited : tried[a] = Contacts
    /\ \A a \in Alarms :
          /\ stage[a] \in {"push", "announce"} => tried[a] = Contacts
          /\ stage[a] = "announce" => a \in audited

AlertsInv == AlertsTypeOK /\ EventInv /\ ReceivedInv /\ OrderOfSteps

LEMMA AlertsElements ==
    ASSUME NEW s \in Seq(Event), NEW e \in Event
    PROVE  /\ Append(s, e) \in Seq(Event)
           /\ Elements(Append(s, e)) = Elements(s) \cup {e}
           /\ Elements(s) \subseteq Event
<1>1. /\ Append(s, e) \in Seq(Event)
      /\ Len(Append(s, e)) = Len(s) + 1
      /\ \A i \in 1 .. Len(s) : Append(s, e)[i] = s[i]
      /\ Append(s, e)[Len(s) + 1] = e
  BY AppendProperties
<1>2. DOMAIN s = 1 .. Len(s) /\ Len(s) \in Nat
  BY LenProperties
<1>3. DOMAIN Append(s, e) = 1 .. Len(s) + 1
  BY <1>1, LenProperties
<1> QED
  BY <1>1, <1>2, <1>3 DEF Elements

LEMMA NoEventIsNone == NoEvent \notin Event
BY AlertsAssumption DEF AlertsAssumption, Event, Alarms, Locations

\* What trigger() does to the shared state, whichever handler calls it.
LEMMA TriggerStep ==
    ASSUME AlertsInv, NEW a \in Alarms, event[a] = NoEvent, NEW location \in Locations,
           Trigger(a, location)
    PROVE  /\ active' \in BOOLEAN /\ lastLocation' \in Locations
           /\ history' \in Seq(Event)
           /\ event' \in [Alarms -> Event \cup {NoEvent}]
           /\ event'[a] \in Event /\ event'[a] # NoEvent /\ event'[a].alarm = a
           /\ \A b \in Alarms \ {a} : event'[b] = event[b]
           /\ Elements(history') = Elements(history) \cup {event'[a]}
           /\ \A e \in Elements(history') : event'[e.alarm] = e
<1> DEFINE e == [alarm |-> a, location |-> location]
<1>1. e \in Event /\ e.alarm = a
  BY DEF Event
<1>2. /\ active' = TRUE /\ lastLocation' = location
      /\ history' = Append(history, e) /\ event' = [event EXCEPT ![a] = e]
  BY DEF Trigger
<1> HIDE DEF e
<1>3. history \in Seq(Event) /\ event \in [Alarms -> Event \cup {NoEvent}]
  BY DEF AlertsInv, AlertsTypeOK
<1>4. event'[a] = e /\ \A b \in Alarms \ {a} : event'[b] = event[b]
  BY <1>2, <1>3
<1>5. /\ history' \in Seq(Event) /\ Elements(history') = Elements(history) \cup {e}
      /\ Elements(history) \subseteq Event
  BY <1>1, <1>2, <1>3, AlertsElements
<1>6. ASSUME NEW f \in Elements(history) PROVE event'[f.alarm] = f
  <2>1. f \in Event /\ event[f.alarm] = f
    BY <1>5, <1>6 DEF AlertsInv, EventInv
  <2>2. f.alarm \in Alarms /\ f # NoEvent
    BY <2>1, NoEventIsNone DEF Event
  <2> QED
    BY <1>4, <2>1, <2>2
<1>7. event' \in [Alarms -> Event \cup {NoEvent}]
  BY <1>1, <1>2, <1>3
<1>8. e # NoEvent
  BY <1>1, NoEventIsNone
<1> QED
  BY <1>1, <1>2, <1>4, <1>5, <1>6, <1>7, <1>8

\* An alarm that is triggered before anything has been told of it disturbs nothing.
LEMMA TriggeredKeeps ==
    ASSUME AlertsInv, NEW a \in Alarms, event[a] = NoEvent, NEW location \in Locations,
           Trigger(a, location), stage' \in [Alarms -> Stages],
           stage'[a] = "contacts",
           \A b \in Alarms \ {a} :
              \/ stage'[b] = stage[b]
              \/ stage[b] = "idle" /\ stage'[b] = "due"
              \/ stage[b] = "announce" /\ stage'[b] = "done",
           UNCHANGED <<delivery, audited, bus, mesh, loopAlive, env>>
    PROVE  AlertsInv'
<1>0. UNCHANGED <<tried, inbox, audited, bus, posted, heard, loopAlive, pushEnabled, diskFull>>
  BY DEF delivery, mesh, env
<1>1. AlertsTypeOK'
  BY <1>0, TriggerStep DEF AlertsInv, AlertsTypeOK
<1>2. EventInv'
  <2>1. \A b \in Alarms : (event'[b] = NoEvent) <=> (stage'[b] \in {"idle", "due"})
    BY TriggerStep DEF AlertsInv, EventInv
  <2>2. \A b \in Alarms :
           event'[b] # NoEvent => event'[b].alarm = b /\ event'[b] \in Elements(history')
    BY TriggerStep DEF AlertsInv, EventInv
  <2>3. \A e \in Elements(history') : event'[e.alarm] = e
    BY TriggerStep
  <2> QED
    BY <2>1, <2>2, <2>3 DEF EventInv, Elements
<1>3. ReceivedInv'
  <2>1. Elements(history) \subseteq Elements(history)'
    BY TriggerStep DEF Elements
  <2> QED
    BY <1>0, <2>1 DEF AlertsInv, ReceivedInv, Elements
<1>4. OrderOfSteps'
  BY <1>0 DEF AlertsInv, OrderOfSteps
<1> QED
  BY <1>1, <1>2, <1>3, <1>4 DEF AlertsInv

\* A handler that goes on, or is over, without a new event.
LEMMA HandlerKeeps ==
    ASSUME AlertsInv, UNCHANGED <<lastLocation, history, event>>, active' \in BOOLEAN,
           stage' \in [Alarms -> Stages],
           \A b \in Alarms : stage'[b] \in {"idle", "due"} <=> stage[b] \in {"idle", "due"}
    PROVE  EventInv'
BY DEF AlertsInv, EventInv, Elements

\* An exception tells nobody anything.
LEMMA RaiseStep ==
    ASSUME AlertsInv, NEW a \in Alarms, stage[a] \in {"contacts", "push"},
           Raise(a), UNCHANGED <<duress, delivery, mesh, env>>
    PROVE  AlertsInv'
<1>0. /\ UNCHANGED <<active, lastLocation, history, event, tried, inbox, posted, heard>>
      /\ UNCHANGED <<pushEnabled, diskFull, audited, bus>>
      /\ stage' = [stage EXCEPT ![a] = "failed"]
      /\ loopAlive' = (loopAlive /\ a \notin Misses)
  BY DEF duress, delivery, mesh, env, Raise
<1>1. stage \in [Alarms -> Stages] /\ loopAlive \in BOOLEAN
  BY DEF AlertsInv, AlertsTypeOK
<1>2. /\ stage' \in [Alarms -> Stages] /\ stage'[a] = "failed"
      /\ \A b \in Alarms \ {a} : stage'[b] = stage[b]
  BY <1>0, <1>1 DEF Stages
<1>3. AlertsTypeOK'
  BY <1>0, <1>2 DEF AlertsInv, AlertsTypeOK
<1>4. EventInv'
  BY <1>0, <1>2, HandlerKeeps DEF AlertsInv, AlertsTypeOK
<1>5. ReceivedInv' /\ OrderOfSteps'
  BY <1>0, <1>2 DEF AlertsInv, ReceivedInv, OrderOfSteps, Elements
<1> QED
  BY <1>3, <1>4, <1>5 DEF AlertsInv

\* The audit record and the event on the bus, of an alarm whose contacts were tried.
LEMMA RecordStep ==
    ASSUME AlertsInv, NEW a \in Alarms, stage[a] \in {"contacts", "push"},
           tried[a] = Contacts,
           Record(a), UNCHANGED <<duress, delivery, mesh, env>>
    PROVE  AlertsInv'
<1>1. CASE diskFull
  BY <1>1, RaiseStep DEF Record
<1>2. CASE ~ diskFull
  <2>0. /\ UNCHANGED <<active, lastLocation, history, event, tried, inbox, posted, heard>>
        /\ UNCHANGED <<pushEnabled, diskFull, loopAlive>>
        /\ audited' = audited \cup {a}
        /\ bus' = Append(bus, event[a])
        /\ stage' = [stage EXCEPT ![a] = "announce"]
    BY <1>2 DEF duress, delivery, mesh, env, Record
  <2>1. stage \in [Alarms -> Stages] /\ bus \in Seq(Event)
    BY DEF AlertsInv, AlertsTypeOK
  <2>2. /\ event[a] # NoEvent /\ event[a].alarm = a /\ event[a] \in Elements(history)
        /\ event[a] \in Event
    BY DEF AlertsInv, AlertsTypeOK, EventInv
  <2>3. bus' \in Seq(Event) /\ Elements(bus') = Elements(bus) \cup {event[a]}
    BY <2>0, <2>1, <2>2, AlertsElements
  <2>4. /\ stage' \in [Alarms -> Stages] /\ stage'[a] = "announce"
        /\ \A b \in Alarms \ {a} : stage'[b] = stage[b]
    BY <2>0, <2>1 DEF Stages
  <2>5. AlertsTypeOK'
    BY <2>0, <2>3, <2>4 DEF AlertsInv, AlertsTypeOK
  <2>6. EventInv'
    BY <2>0, <2>4, HandlerKeeps DEF AlertsInv, AlertsTypeOK
  <2>7. ReceivedInv'
    <3>1. \A e \in Elements(bus') : e \in Elements(history) /\ e.alarm \in audited'
      BY <2>0, <2>2, <2>3 DEF AlertsInv, ReceivedInv
    <3>2. Elements(bus)' = Elements(bus') /\ Elements(history)' = Elements(history)
      BY <2>0 DEF Elements
    <3>3. \A p \in Peers : Elements(heard[p])' = Elements(heard[p])
      BY <2>0 DEF Elements
    <3> QED
      BY <2>0, <3>1, <3>2, <3>3 DEF AlertsInv, ReceivedInv
  <2>8. OrderOfSteps'
    BY <2>0, <2>4 DEF AlertsInv, OrderOfSteps
  <2> QED
    BY <2>5, <2>6, <2>7, <2>8 DEF AlertsInv
<1> QED
  BY <1>1, <1>2

LEMMA PanicStep ==
    ASSUME AlertsInv, NEW a \in Panics, Panic(a)
    PROVE  AlertsInv'
<1>1. a \in Alarms /\ event[a] = NoEvent
  BY DEF Alarms, Panic, AlertsInv, EventInv
<1>2. PICK location \in {a, Nowhere} : Trigger(a, location)
  BY DEF Panic
<1>3. location \in Locations
  BY DEF Locations
<1>4. /\ stage' = [stage EXCEPT ![a] = "contacts"]
      /\ UNCHANGED <<delivery, audited, bus, mesh, loopAlive, env>>
  BY DEF Panic
<1>5. stage \in [Alarms -> Stages]
  BY DEF AlertsInv, AlertsTypeOK
<1>6. /\ stage' \in [Alarms -> Stages] /\ stage'[a] = "contacts"
      /\ \A b \in Alarms \ {a} : stage'[b] = stage[b]
  BY <1>1, <1>4, <1>5 DEF Stages
<1> QED
  BY <1>1, <1>2, <1>3, <1>4, <1>6, TriggeredKeeps

LEMMA LoopPollStep ==
    ASSUME AlertsInv, LoopPoll
    PROVE  AlertsInv'
<1>1. PICK due \in SUBSET {b \in Misses : stage[b] = "idle"} :
         \E a \in due : LoopTakes(a, due \ {a})
  BY DEF LoopPoll
<1>2. PICK a \in due : LoopTakes(a, due \ {a})
  BY <1>1
<1>3. a \in Alarms /\ event[a] = NoEvent /\ lastLocation \in Locations
  BY DEF Alarms, AlertsInv, AlertsTypeOK, EventInv
<1>4. /\ Trigger(a, lastLocation)
      /\ stage' = [b \in Alarms |-> IF b = a THEN "contacts"
                                    ELSE IF b \in due \ {a} THEN "due" ELSE stage[b]]
      /\ UNCHANGED <<delivery, audited, bus, mesh, loopAlive, env>>
  BY <1>2 DEF LoopTakes, LoopPoll
<1>5. stage \in [Alarms -> Stages]
  BY DEF AlertsInv, AlertsTypeOK
<1>6. /\ stage' \in [Alarms -> Stages] /\ stage'[a] = "contacts"
      /\ \A b \in Alarms \ {a} :
            stage'[b] = stage[b] \/ (stage[b] = "idle" /\ stage'[b] = "due")
  BY <1>3, <1>4, <1>5 DEF Stages
<1> QED
  BY <1>3, <1>4, <1>6, TriggeredKeeps

\* A contact is tried: it gets the event that trigger() returned, or nothing.
LEMMA DeliverStep ==
    ASSUME AlertsInv, NEW a \in Alarms, NEW c \in Contacts, Deliver(a, c)
    PROVE  AlertsInv'
<1>0. /\ stage[a] = "contacts"
      /\ tried' = [tried EXCEPT ![a] = @ \cup {c}]
      /\ inbox' = [inbox EXCEPT ![c] = @ \cup {event[a]}] \/ inbox' = inbox
      /\ UNCHANGED <<active, lastLocation, history, event, stage, audited, bus, posted, heard>>
      /\ UNCHANGED <<loopAlive, pushEnabled, diskFull>>
  BY DEF Deliver, duress, mesh, env
<1>1. /\ stage \in [Alarms -> Stages] /\ tried \in [Alarms -> SUBSET Contacts]
      /\ inbox \in [Contacts -> SUBSET Event]
  BY DEF AlertsInv, AlertsTypeOK
<1>2. event[a] \in Elements(history) /\ event[a] \in Event
  BY <1>0 DEF AlertsInv, AlertsTypeOK, EventInv
<1>3. /\ tried' \in [Alarms -> SUBSET Contacts]
      /\ \A b \in Alarms : tried[b] = Contacts => tried'[b] = Contacts
  BY <1>0, <1>1
<1>4. /\ inbox' \in [Contacts -> SUBSET Event]
      /\ \A d \in Contacts : inbox'[d] \subseteq inbox[d] \cup {event[a]}
  BY <1>0, <1>1, <1>2
<1>5. AlertsTypeOK'
  BY <1>0, <1>3, <1>4 DEF AlertsInv, AlertsTypeOK
<1>6. EventInv'
  BY <1>0, <1>1, HandlerKeeps DEF AlertsInv, AlertsTypeOK
<1>7. ReceivedInv'
  BY <1>0, <1>2, <1>4 DEF AlertsInv, ReceivedInv, Elements
<1>8. OrderOfSteps'
  <2>1. audited \subseteq Alarms
    BY DEF AlertsInv, AlertsTypeOK
  <2> QED
    BY <1>0, <1>3, <2>1 DEF AlertsInv, OrderOfSteps
<1> QED
  BY <1>5, <1>6, <1>7, <1>8 DEF AlertsInv

LEMMA AfterContactsStep ==
    ASSUME AlertsInv, NEW a \in Alarms, AfterContacts(a)
    PROVE  AlertsInv'
<1>0. /\ stage[a] = "contacts" /\ tried[a] = Contacts
      /\ UNCHANGED <<duress, delivery, mesh, env>>
  BY DEF AfterContacts
<1>1. CASE Record(a)
  BY <1>0, <1>1, RecordStep
<1>2. CASE /\ stage' = [stage EXCEPT ![a] = "push"]
           /\ UNCHANGED <<audited, bus, loopAlive>>
  <2>0. /\ UNCHANGED <<active, lastLocation, history, event, tried, inbox, posted, heard>>
        /\ UNCHANGED <<pushEnabled, diskFull, audited, bus, loopAlive>>
    BY <1>0, <1>2 DEF duress, delivery, mesh, env
  <2>1. stage \in [Alarms -> Stages]
    BY DEF AlertsInv, AlertsTypeOK
  <2>2. /\ stage' \in [Alarms -> Stages] /\ stage'[a] = "push"
        /\ \A b \in Alarms \ {a} : stage'[b] = stage[b]
    BY <1>2, <2>1 DEF Stages
  <2>3. AlertsTypeOK'
    BY <2>0, <2>2 DEF AlertsInv, AlertsTypeOK
  <2>4. EventInv'
    BY <1>0, <2>0, <2>2, HandlerKeeps DEF AlertsInv, AlertsTypeOK
  <2>5. ReceivedInv' /\ OrderOfSteps'
    BY <1>0, <2>0, <2>2 DEF AlertsInv, ReceivedInv, OrderOfSteps, Elements
  <2> QED
    BY <2>3, <2>4, <2>5 DEF AlertsInv
<1> QED
  BY <1>1, <1>2 DEF AfterContacts

LEMMA AfterPushStep ==
    ASSUME AlertsInv, NEW a \in Alarms, AfterPush(a)
    PROVE  AlertsInv'
<1>1. /\ stage[a] = "push" /\ tried[a] = Contacts
      /\ Record(a) \/ Raise(a)
      /\ UNCHANGED <<duress, delivery, mesh, env>>
  BY DEF AfterPush, AlertsInv, OrderOfSteps
<1> QED
  BY <1>1, RecordStep, RaiseStep

LEMMA PostPeerStep ==
    ASSUME AlertsInv, NEW a \in Alarms, NEW p \in Peers, PostPeer(a, p)
    PROVE  AlertsInv'
<1>0. /\ stage[a] = "announce"
      /\ posted' = [posted EXCEPT ![a] = @ \cup {p}]
      /\ heard' = [heard EXCEPT ![p] = Append(@, event[a])] \/ heard' = heard
      /\ UNCHANGED <<active, lastLocation, history, event, stage, tried, inbox, audited, bus>>
      /\ UNCHANGED <<loopAlive, pushEnabled, diskFull>>
  BY DEF PostPeer, duress, delivery, env
<1>1. /\ stage \in [Alarms -> Stages] /\ posted \in [Alarms -> SUBSET Peers]
      /\ heard \in [Peers -> Seq(Event)]
  BY DEF AlertsInv, AlertsTypeOK
<1>2. /\ event[a] \in Elements(history) /\ event[a] \in Event
      /\ event[a].alarm = a /\ a \in audited
  <2>1. a \in audited
    BY <1>0 DEF AlertsInv, OrderOfSteps
  <2>2. event[a] # NoEvent
    BY <1>0 DEF AlertsInv, EventInv
  <2>3. event[a] \in Event
    BY <2>2 DEF AlertsInv, AlertsTypeOK
  <2> QED
    BY <2>1, <2>2, <2>3 DEF AlertsInv, EventInv
<1>3. posted' \in [Alarms -> SUBSET Peers]
  BY <1>0, <1>1
<1>4. ASSUME NEW q \in Peers
      PROVE  heard'[q] \in Seq(Event) /\ Elements(heard'[q]) \subseteq Elements(heard[q]) \cup {event[a]}
  <2>1. heard'[q] = heard[q] \/ heard'[q] = Append(heard[q], event[a])
    BY <1>0, <1>1
  <2>2. heard[q] \in Seq(Event)
    BY <1>1
  <2>3. /\ Append(heard[q], event[a]) \in Seq(Event)
        /\ Elements(Append(heard[q], event[a])) = Elements(heard[q]) \cup {event[a]}
    BY <1>2, <2>2, AlertsElements
  <2> QED
    BY <2>1, <2>2, <2>3
<1>5. heard' \in [Peers -> Seq(Event)]
  BY <1>0, <1>1, <1>4
<1>6. AlertsTypeOK'
  BY <1>0, <1>3, <1>5 DEF AlertsInv, AlertsTypeOK
<1>7. EventInv'
  BY <1>0, <1>1, HandlerKeeps DEF AlertsInv, AlertsTypeOK
<1>8. ReceivedInv'
  <2>1. ASSUME NEW q \in Peers
        PROVE  Elements(heard'[q]) \subseteq Elements(history) /\ \A e \in Elements(heard'[q]) : e.alarm \in audited
    BY <1>2, <1>4 DEF AlertsInv, ReceivedInv
  <2>2. Elements(bus)' = Elements(bus) /\ Elements(history)' = Elements(history)
    BY <1>0 DEF Elements
  <2>3. \A q \in Peers : Elements(heard[q])' = Elements(heard'[q])
    OBVIOUS
  <2> QED
    BY <1>0, <2>1, <2>2, <2>3 DEF AlertsInv, ReceivedInv
<1>9. OrderOfSteps'
  BY <1>0 DEF AlertsInv, OrderOfSteps
<1> QED
  BY <1>6, <1>7, <1>8, <1>9 DEF AlertsInv

LEMMA AfterPeersStep ==
    ASSUME AlertsInv, NEW a \in Alarms, AfterPeers(a)
    PROVE  AlertsInv'
<1>0. stage[a] = "announce" /\ UNCHANGED <<delivery, audited, bus, mesh, loopAlive, env>>
  BY DEF AfterPeers
<1>1. stage \in [Alarms -> Stages] /\ lastLocation \in Locations
  BY DEF AlertsInv, AlertsTypeOK
<1>2. CASE stage' = [stage EXCEPT ![a] = "done"] /\ UNCHANGED duress
  <2>0. /\ UNCHANGED <<active, lastLocation, history, event, tried, inbox, posted, heard>>
        /\ UNCHANGED <<pushEnabled, diskFull, audited, bus, loopAlive>>
    BY <1>0, <1>2 DEF duress, delivery, mesh, env
  <2>2. /\ stage' \in [Alarms -> Stages] /\ stage'[a] = "done"
        /\ \A b \in Alarms \ {a} : stage'[b] = stage[b]
    BY <1>1, <1>2 DEF Stages
  <2>3. AlertsTypeOK'
    BY <2>0, <2>2 DEF AlertsInv, AlertsTypeOK
  <2>4. EventInv'
    BY <1>0, <2>0, <2>2, HandlerKeeps DEF AlertsInv, AlertsTypeOK
  <2>5. ReceivedInv' /\ OrderOfSteps'
    BY <2>0, <2>2 DEF AlertsInv, ReceivedInv, OrderOfSteps, Elements
  <2> QED
    BY <2>3, <2>4, <2>5 DEF AlertsInv
<1>3. ASSUME NEW b \in Misses, stage[b] = "due", Trigger(b, lastLocation),
             stage' = [stage EXCEPT ![a] = "done", ![b] = "contacts"]
      PROVE  AlertsInv'
  <2>1. b \in Alarms /\ event[b] = NoEvent
    BY <1>3 DEF Alarms, AlertsInv, EventInv
  <2>2. /\ stage' \in [Alarms -> Stages] /\ stage'[b] = "contacts"
        /\ \A d \in Alarms \ {b} :
              stage'[d] = stage[d] \/ (stage[d] = "announce" /\ stage'[d] = "done")
    BY <1>0, <1>1, <1>3, <2>1 DEF Stages
  <2> QED
    BY <1>0, <1>1, <1>3, <2>1, <2>2, TriggeredKeeps
<1> QED
  BY <1>2, <1>3 DEF AfterPeers

LEMMA OtherAlertsSteps ==
    ASSUME AlertsInv, Clear \/ DiskChanges \/ UNCHANGED alertsVars
    PROVE  AlertsInv'
<1>1. /\ UNCHANGED <<lastLocation, history, event, stage, tried, inbox, audited, bus>>
      /\ UNCHANGED <<posted, heard, loopAlive, pushEnabled>>
  BY DEF Clear, DiskChanges, alertsVars, duress, delivery, mesh, env
<1>2. active' \in BOOLEAN /\ diskFull' \in BOOLEAN
  BY DEF Clear, DiskChanges, alertsVars, duress, delivery, mesh, env, AlertsInv, AlertsTypeOK
<1>3. AlertsTypeOK'
  BY <1>1, <1>2 DEF AlertsInv, AlertsTypeOK
<1> QED
  BY <1>1, <1>3 DEF AlertsInv, EventInv, ReceivedInv, OrderOfSteps, Elements

LEMMA AlertsInvHolds == AlertsSpec => []AlertsInv
<1>1. AlertsInit => AlertsInv
  <2> SUFFICES ASSUME AlertsInit PROVE AlertsInv
    OBVIOUS
  <2>1. Elements(<<>>) = {}
    BY DEF Elements
  <2>2. AlertsTypeOK
    <3>1. /\ pushEnabled \in BOOLEAN /\ active \in BOOLEAN
          /\ loopAlive \in BOOLEAN /\ diskFull \in BOOLEAN
          /\ lastLocation \in Locations
      BY DEF AlertsInit, Locations
    <3>2. /\ history \in Seq(Event) /\ bus \in Seq(Event) /\ audited \subseteq Alarms
          /\ stage \in [Alarms -> Stages] /\ heard \in [Peers -> Seq(Event)]
      BY DEF AlertsInit, Stages
    <3>3. /\ event \in [Alarms -> Event \cup {NoEvent}]
          /\ tried \in [Alarms -> SUBSET Contacts]
          /\ inbox \in [Contacts -> SUBSET Event]
          /\ posted \in [Alarms -> SUBSET Peers]
      BY DEF AlertsInit
    <3> QED
      BY <3>1, <3>2, <3>3 DEF AlertsTypeOK
  <2> QED
    BY <2>1, <2>2 DEF AlertsInit, AlertsInv, EventInv, ReceivedInv, OrderOfSteps
<1>2. AlertsInv /\ [AlertsNext]_alertsVars => AlertsInv'
  BY PanicStep, LoopPollStep, DeliverStep, AfterContactsStep, AfterPushStep, PostPeerStep,
     AfterPeersStep, OtherAlertsSteps
     DEF AlertsNext, Handle
<1> QED
  BY <1>1, <1>2, PTL DEF AlertsSpec

\* The duress state, the stages of the handlers and what was received keep their
\* types.
THEOREM AlertsTypeCorrect == AlertsSpec => []AlertsTypeOK
<1>1. AlertsInv => AlertsTypeOK
  BY DEF AlertsInv
<1> QED
  BY <1>1, AlertsInvHolds, PTL

\* What is on the mesh is of an alarm whose contacts have all been tried and that is
\* in the audit log, for any number of alarms at once, of contacts and of peers.
THEOREM ContactsFirst == AlertsSpec => []AnnouncedAfterContacts
<1>1. AlertsInv => AnnouncedAfterContacts
  <2> SUFFICES ASSUME AlertsInv, NEW a \in Alarms, event[a] # NoEvent, Announced(a)
               PROVE  tried[a] = Contacts /\ a \in audited
    BY DEF AnnouncedAfterContacts
  <2>1. event[a].alarm = a /\ event[a].alarm \in audited
    BY DEF AlertsInv, EventInv, ReceivedInv, Announced
  <2> QED
    BY <2>1 DEF AlertsInv, OrderOfSteps
<1> QED
  BY <1>1, AlertsInvHolds, PTL

\* Contacts, screens and peers get of an alarm what was true when it was triggered,
\* and the history has it once, however many alarms change the duress state at once.
THEOREM MessagesTrue == AlertsSpec => []MessagesAreTriggered
<1>1. AlertsInv => MessagesAreTriggered
  <2> SUFFICES ASSUME AlertsInv PROVE MessagesAreTriggered
    OBVIOUS
  <2>1. \A e, f \in Elements(history) : e.alarm = f.alarm => e = f
    BY DEF AlertsInv, EventInv
  <2>2. /\ Elements(bus) \subseteq Elements(history)
        /\ UNION {inbox[c] : c \in Contacts} \subseteq Elements(history)
        /\ UNION {Elements(heard[p]) : p \in Peers} \subseteq Elements(history)
    BY DEF AlertsInv, ReceivedInv
  <2>3. Elements(bus) \cup (UNION {inbox[c] : c \in Contacts})
          \cup (UNION {Elements(heard[p]) : p \in Peers}) \subseteq Elements(history)
    BY <2>2
  <2> QED
    BY <2>1, <2>3, Zenon DEF MessagesAreTriggered
<1> QED
  BY <1>1, AlertsInvHolds, PTL
-----------------------------------------------------------------------------
(***************************************************************************)
(* The push subscriptions.                                                 *)
(***************************************************************************)

USE PushAssumption DEF PushAssumption

\* What a text leaves in the file.
LEMMA FileTypes ==
    ASSUME TypeOK, NEW s \in Tables
    PROVE  /\ Overwritten(s) \in [holds : Tables \cup {Unreadable}, length : Nat]
           /\ [holds |-> Unreadable, length |-> 0]
                 \in [holds : Tables \cup {Unreadable}, length : Nat]
           /\ Loaded \in Tables
<1>1. Length[s] \in Nat /\ file.length \in Nat
  BY DEF TypeOK
<1>2. file.holds \in Tables \cup {Unreadable}
  BY DEF TypeOK
<1>3. {} \in Tables
  BY DEF Tables
<1> QED
  BY <1>1, <1>2, <1>3 DEF Overwritten, Loaded

\* The part of the types that going on, or giving up, with an alarm disturbs.
LEMMA AlarmTypes ==
    ASSUME TypeOK, NEW w \in Threads, NEW e, GoOn(w, e) \/ Abort(w)
    PROVE  /\ todo' \in [Threads -> Tables]
           /\ owed' \in [Threads -> Tables]
           /\ step' \in [Actors -> Steps]
<1>1. todo[w] \ {e} \in Tables /\ owed[w] \ {e} \in Tables /\ {} \in Tables
  BY DEF TypeOK, Tables
<1>2. w \in Actors /\ {"idle", "push"} \subseteq Steps
  BY DEF Actors, Steps
<1>3. CASE GoOn(w, e)
  BY <1>1, <1>2, <1>3 DEF GoOn, TypeOK
<1>4. CASE Abort(w)
  BY <1>1, <1>2, <1>4 DEF Abort, TypeOK
<1> QED
  BY <1>3, <1>4

LEMMA TypeStep == TypeOK /\ [Next]_vars => TypeOK'
<1> SUFFICES ASSUME TypeOK, [Next]_vars PROVE TypeOK'
  OBVIOUS
<1>0. EventLoop \in Actors /\ Threads \subseteq Actors
  BY DEF Actors
<1>1. ASSUME NEW e \in Endpoints, Subscribe(e) PROVE TypeOK'
  <2>1. subs \cup {e} \in Tables
    BY DEF TypeOK, Tables
  <2> QED
    BY <1>0, <1>1, <2>1 DEF Subscribe, StartSave, TypeOK, Steps, alarm, world
<1>2. ASSUME NEW e \in Endpoints, Unsubscribe(e) PROVE TypeOK'
  <2>1. subs \ {e} \in Tables /\ acked \ {e} \in Tables
    BY DEF TypeOK, Tables
  <2> QED
    BY <1>0, <1>2, <2>1 DEF Unsubscribe, StartSave, TypeOK, Steps, alarm, world
<1>3. ASSUME NEW e \in Endpoints, Expire(e) PROVE TypeOK'
  <2>1. expired \cup {e} \in Tables
    BY DEF TypeOK, Tables
  <2> QED
    BY <1>3, <2>1 DEF Expire, TypeOK, alarm
<1>4. ASSUME NEW w \in Threads, NotifyAll(w) PROVE TypeOK'
  <2>1. acked \ expired \in Tables
    BY DEF TypeOK, Tables
  <2> QED
    BY <1>0, <1>4, <2>1 DEF NotifyAll, TypeOK, Steps, world
<1>5. ASSUME NEW w \in Threads, NEW e \in Endpoints, Answer(w, e) PROVE TypeOK'
  <2>1. CASE GoOn(w, e) /\ UNCHANGED <<subs, target, alone>>
    BY <1>5, <2>1, AlarmTypes DEF Answer, TypeOK, world
  <2>2. CASE Prune(w, e) /\ UNCHANGED alarm
    <3>1. subs \ {e} \in Tables
      BY DEF TypeOK, Tables
    <3> QED
      BY <1>0, <1>5, <2>2, <3>1 DEF Answer, Prune, StartSave, TypeOK, Steps, alarm, world
  <2> QED
    BY <1>5, <2>1, <2>2 DEF Answer
<1>6. ASSUME NEW a \in Actors, Dump(a) PROVE TypeOK'
  BY <1>6 DEF Dump, TypeOK, Steps, alarm, world
<1>7. ASSUME NEW a \in Actors, Open(a) PROVE TypeOK'
  <2>1. {} \in Tables
    BY DEF Tables
  <2> QED
    BY <1>7, <2>1, FileTypes DEF Open, TypeOK, Steps, alarm, world
<1>8. ASSUME NEW a \in Actors, NEW ok \in BOOLEAN, EndSave(a, ok)
      PROVE  /\ text' \in [Actors -> Tables]
             /\ target' \in [Actors -> Endpoints \cup {Nobody}]
             /\ alone' \in SUBSET Actors
             /\ clean' \in BOOLEAN
  BY <1>8 DEF EndSave, TypeOK, Tables
<1>9. ASSUME NEW a \in Actors, Write(a) PROVE TypeOK'
  <2>1. file' \in [holds : Tables \cup {Unreadable}, length : Nat]
    BY <1>9, FileTypes DEF Write, TypeOK
  <2>2. CASE a = EventLoop
    <3>1. acked \cup ({target[a]} \ {Nobody}) \in Tables
      BY DEF TypeOK, Tables
    <3>2. step' \in [Actors -> Steps] /\ acked' \in Tables /\ UNCHANGED alarm
      BY <1>9, <2>2, <3>1 DEF Write, TypeOK, Steps
    <3> QED
      BY <1>8, <1>9, <2>1, <3>2 DEF Write, TypeOK, alarm, world
  <2>3. CASE a \in Threads /\ GoOn(a, target[a]) /\ UNCHANGED acked
    BY <1>8, <1>9, <2>1, <2>3, AlarmTypes DEF Write, TypeOK, world
  <2> QED
    BY <1>9, <2>2, <2>3 DEF Write
<1>10. ASSUME NEW a \in Actors, SaveFails(a) PROVE TypeOK'
  <2>1. failures' \in Nat
    BY <1>10 DEF SaveFails, TypeOK
  <2>0. /\ text' \in [Actors -> Tables]
        /\ target' \in [Actors -> Endpoints \cup {Nobody}]
        /\ alone' \in SUBSET Actors
        /\ clean' \in BOOLEAN
    BY <1>8, <1>10 DEF SaveFails
  <2>2. CASE a = EventLoop
    <3>1. step' \in [Actors -> Steps] /\ UNCHANGED alarm
      BY <1>10, <2>2 DEF SaveFails, TypeOK, Steps
    <3> QED
      BY <1>10, <2>0, <2>1, <3>1 DEF SaveFails, TypeOK, alarm
  <2>3. CASE a \in Threads /\ Abort(a)
    <3>1. /\ todo' \in [Threads -> Tables]
          /\ owed' \in [Threads -> Tables]
          /\ step' \in [Actors -> Steps]
      BY <2>3, AlarmTypes
    <3> QED
      BY <1>10, <2>0, <2>1, <3>1 DEF SaveFails, TypeOK
  <2> QED
    BY <1>10, <2>2, <2>3 DEF SaveFails
<1>11. CASE Restart
  <2>1. {} \in Tables
    BY DEF Tables
  <2>2. subs' \in Tables /\ step' \in [Actors -> Steps]
    BY <1>11, <2>1, FileTypes DEF Restart, Steps
  <2>3. /\ text' \in [Actors -> Tables] /\ target' \in [Actors -> Endpoints \cup {Nobody}]
        /\ todo' \in [Threads -> Tables] /\ owed' \in [Threads -> Tables]
    BY <1>11, <2>1 DEF Restart
  <2> QED
    BY <1>11, <2>1, <2>2, <2>3 DEF Restart, TypeOK
<1>12. CASE UNCHANGED vars
  BY <1>12 DEF vars, TypeOK, alarm, world
<1> QED
  BY <1>0, <1>1, <1>2, <1>3, <1>4, <1>5, <1>6, <1>7, <1>9, <1>10, <1>11, <1>12
  DEF Next, NotifyDevices, Save

\* The table, the file and what each thread has in hand keep their types.
THEOREM TypeCorrect == Spec => []TypeOK
<1>1. Init => TypeOK
  BY DEF Init, TypeOK, Tables, Steps
<1> QED
  BY <1>1, TypeStep, PTL DEF Spec
-----------------------------------------------------------------------------
\* What was acknowledged, or is about to be, is dropped only if it has expired.
LEMMA AckStep == TypeOK /\ AckInv /\ [Next]_vars => AckInv'
<1> USE DEF AckInv, AckedIsKept
<1> SUFFICES ASSUME TypeOK, AckInv, [Next]_vars PROVE AckInv'
  OBVIOUS
<1>0. EventLoop \in Actors /\ Threads \subseteq Actors /\ EventLoop \notin Threads
      /\ target \in [Actors -> Endpoints \cup {Nobody}]
  BY DEF Actors, TypeOK
<1>1. ASSUME NEW e \in Endpoints, Subscribe(e) PROVE AckInv'
  BY <1>0, <1>1 DEF Subscribe, StartSave, TypeOK, world
<1>2. ASSUME NEW e \in Endpoints, Unsubscribe(e) PROVE AckInv'
  <2>1. target[EventLoop] = Nobody
    BY <1>2 DEF Unsubscribe
  <2> QED
    BY <1>0, <1>2, <2>1 DEF Unsubscribe, StartSave, TypeOK, world
<1>3. ASSUME NEW e \in Endpoints, Expire(e) PROVE AckInv'
  BY <1>3 DEF Expire
<1>4. ASSUME NEW w \in Threads, NotifyAll(w) PROVE AckInv'
  BY <1>0, <1>4 DEF NotifyAll, TypeOK, world
<1>5. ASSUME NEW w \in Threads, NEW e \in Endpoints, Answer(w, e) PROVE AckInv'
  <2>1. step'[EventLoop] = step[EventLoop] /\ target'[EventLoop] = target[EventLoop]
    BY <1>0, <1>5 DEF Answer, GoOn, Prune, StartSave, TypeOK
  <2>2. subs \ {e} \subseteq subs' /\ (subs' = subs \/ e \in expired)
    BY <1>5 DEF Answer, Prune
  <2> QED
    BY <1>5, <2>1, <2>2 DEF Answer, world
<1>6. ASSUME NEW a \in Actors, Dump(a) \/ Open(a) PROVE AckInv'
  <2>1. step'[EventLoop] = "idle" => step[EventLoop] = "idle"
    BY <1>0, <1>6 DEF Dump, Open, TypeOK
  <2> QED
    BY <1>6, <2>1 DEF Dump, Open, world
<1>7. ASSUME NEW a \in Actors, Write(a) PROVE AckInv'
  <2>1. CASE a = EventLoop
    BY <1>0, <1>7, <2>1 DEF Write, EndSave, world
  <2>2. CASE a \in Threads
    BY <1>0, <1>7, <2>2 DEF Write, EndSave, GoOn, TypeOK, world
  <2> QED
    BY <2>1, <2>2 DEF Actors
<1>8. ASSUME NEW a \in Actors, SaveFails(a) PROVE AckInv'
  <2>1. CASE a = EventLoop
    BY <1>0, <1>8, <2>1 DEF SaveFails, EndSave
  <2>2. CASE a \in Threads
    BY <1>0, <1>8, <2>2 DEF SaveFails, EndSave, Abort, TypeOK
  <2> QED
    BY <2>1, <2>2 DEF Actors
<1>9. CASE Restart
  BY <1>0, <1>9 DEF Restart
<1>10. CASE UNCHANGED vars
  BY <1>10 DEF vars, world
<1> QED
  BY <1>0, <1>1, <1>2, <1>3, <1>4, <1>5, <1>6, <1>7, <1>8, <1>9, <1>10
  DEF Next, NotifyDevices, Save

\* A device that was told "ok" stays in the table while its endpoint is good.
THEOREM AckedKept == Spec => []AckedIsKept
<1>1. Init => AckInv
  BY DEF Init, AckInv, AckedIsKept, Actors
<1>2. AckInv => AckedIsKept
  BY DEF AckInv
<1> QED
  BY <1>1, <1>2, TypeCorrect, AckStep, PTL DEF Spec
-----------------------------------------------------------------------------
\* An alarm goes through everything it owes.
LEMMA OweStep == TypeOK /\ AckInv /\ OweInv /\ [Next]_vars => OweInv'
<1> SUFFICES ASSUME TypeOK, AckInv, OweInv, [Next]_vars, NEW w \in Threads
             PROVE  /\ owed'[w] \subseteq todo'[w]
                    /\ step'[w] = "idle" => todo'[w] = {}
  BY DEF OweInv
<1>0. /\ EventLoop \in Actors /\ Threads \subseteq Actors /\ EventLoop # w
      /\ step \in [Actors -> Steps]
      /\ todo \in [Threads -> Tables] /\ owed \in [Threads -> Tables]
      /\ owed[w] \subseteq todo[w]
      /\ step[w] = "idle" => todo[w] = {}
  BY DEF Actors, TypeOK, OweInv
<1> DEFINE Owes == /\ owed'[w] \subseteq todo'[w]
                   /\ step'[w] = "idle" => todo'[w] = {}
<1>1. ASSUME UNCHANGED alarm, step'[w] = "idle" => step[w] = "idle" PROVE Owes
  BY <1>0, <1>1 DEF alarm
<1>2. ASSUME NEW v \in Threads, NEW e, GoOn(v, e) PROVE Owes
  <2>1. v \in Actors
    BY DEF Actors
  <2>2. CASE v = w
    BY <1>0, <1>2, <2>2 DEF GoOn
  <2>3. CASE v # w
    BY <1>0, <1>2, <2>1, <2>3 DEF GoOn
  <2> QED
    BY <2>2, <2>3
<1>3. ASSUME NEW e \in Endpoints, Subscribe(e) \/ Unsubscribe(e) \/ Expire(e) PROVE Owes
  BY <1>0, <1>1, <1>3 DEF Subscribe, Unsubscribe, Expire, StartSave
<1>4. ASSUME NEW v \in Threads, NotifyAll(v) PROVE Owes
  <2>1. acked \ expired \subseteq subs
    BY DEF AckInv, AckedIsKept
  <2>2. v \in Actors
    BY DEF Actors
  <2> QED
    BY <1>0, <1>4, <2>1, <2>2 DEF NotifyAll
<1>5. ASSUME NEW v \in Threads, NEW e \in Endpoints, Answer(v, e) PROVE Owes
  <2>1. v \in Actors
    BY DEF Actors
  <2>2. CASE Prune(v, e) /\ UNCHANGED alarm
    BY <1>0, <1>1, <2>1, <2>2 DEF Prune, StartSave
  <2> QED
    BY <1>2, <1>5, <2>2 DEF Answer
<1>6. ASSUME NEW a \in Actors, Dump(a) \/ Open(a) PROVE Owes
  BY <1>0, <1>1, <1>6 DEF Dump, Open
<1>7. ASSUME NEW a \in Actors, Write(a) PROVE Owes
  <2>1. CASE a = EventLoop /\ step' = [step EXCEPT ![a] = "idle"] /\ UNCHANGED alarm
    BY <1>0, <1>1, <2>1
  <2>2. CASE a \in Threads /\ GoOn(a, target[a])
    BY <1>2, <2>2
  <2> QED
    BY <1>7, <2>1, <2>2 DEF Write
<1>8. ASSUME NEW a \in Actors, SaveFails(a) PROVE Owes
  <2>1. CASE a = EventLoop /\ step' = [step EXCEPT ![a] = "idle"] /\ UNCHANGED alarm
    BY <1>0, <1>1, <2>1
  <2>2. CASE a \in Threads /\ Abort(a)
    BY <1>0, <2>2 DEF Abort
  <2> QED
    BY <1>8, <2>1, <2>2 DEF SaveFails
<1>9. CASE Restart
  BY <1>9 DEF Restart
<1>10. CASE UNCHANGED vars
  BY <1>1, <1>10 DEF vars
<1> QED
  BY <1>0, <1>3, <1>4, <1>5, <1>6, <1>7, <1>8, <1>9, <1>10 DEF Next, NotifyDevices, Save

\* No alarm ends without having tried every device that it owed a notification.
THEOREM EveryoneOwed == Spec => []EveryoneIsOwed
<1>1. Init => AckInv /\ OweInv
  BY DEF Init, AckInv, AckedIsKept, OweInv, Actors
<1>2. OweInv => EveryoneIsOwed
  BY DEF OweInv, EveryoneIsOwed
<1> QED
  BY <1>1, <1>2, TypeCorrect, AckStep, OweStep, PTL DEF Spec
-----------------------------------------------------------------------------
\* What a thread leaves behind that begins to save.
LEMMA SaveStarted ==
    ASSUME TypeOK, SaveInv, NEW a \in Actors, ~ Saving(a), StartSave(a),
           UNCHANGED <<file, text>>
    PROVE  SaveInv'
<1>1. step' \in [Actors -> Steps] /\ step'[a] = "dump"
      /\ \A b \in Actors \ {a} : step'[b] = step[b]
  BY DEF StartSave, TypeOK, Steps
<1>2. Saving(a)' /\ \A b \in Actors \ {a} : Saving(b)' = Saving(b)
  BY <1>1 DEF Saving
<1>3. SavedUnlessRaced'
  BY <1>2 DEF SavedUnlessRaced
<1>4. ASSUME NEW c \in alone'
      PROVE  c = a /\ \A b \in Actors : Saving(b)' => b = a
  BY <1>2, <1>4 DEF StartSave
<1>5. ~ (step'[a] \in {"open", "write"}) /\ step'[a] # "write"
  BY <1>1
<1> QED
  BY <1>2, <1>3, <1>4, <1>5 DEF SaveInv, Saving

\* Whatever does not save, and changes neither the table nor the file, is fine.
LEMMA SaveUntouched ==
    ASSUME TypeOK, SaveInv, UNCHANGED <<subs, file, text, alone, clean>>,
           \A a \in Actors : Saving(a) \/ Saving(a)' => step'[a] = step[a]
    PROVE  SaveInv'
<1>1. \A a \in Actors : Saving(a)' = Saving(a)
  BY DEF Saving
<1>2. SavedUnlessRaced'
  BY <1>1 DEF SaveInv, SavedUnlessRaced, Loaded
<1>3. alone \subseteq Actors
  BY DEF TypeOK
<1>4. ASSUME NEW a \in alone' 
      PROVE  /\ Saving(a)'
             /\ \A b \in Actors : Saving(b)' => b = a
             /\ step'[a] \in {"open", "write"} => text'[a] = subs'
             /\ step'[a] = "write" => file'.length = 0
  BY <1>1, <1>3, <1>4 DEF SaveInv
<1> QED
  BY <1>2, <1>4 DEF SaveInv, Saving

\* The end of a save.
LEMMA SaveEnded ==
    ASSUME TypeOK, SaveInv, NEW a \in Actors, NEW ok \in BOOLEAN,
           Saving(a), EndSave(a, ok), subs' = subs,
           step' \in [Actors -> Steps], ~ Saving(a)',
           \A b \in Actors \ {a} : step'[b] = step[b],
           ok /\ a \in alone => Loaded' = subs
    PROVE  SaveInv'
<1>1. \A b \in Actors \ {a} : Saving(b)' = Saving(b)
  BY DEF Saving
<1>2. alone' = {}
  BY DEF EndSave, SaveInv, TypeOK
<1>3. clean' => Loaded' = subs'
  BY DEF EndSave
<1> QED
  BY <1>2, <1>3 DEF SaveInv, SavedUnlessRaced

\* A save that meets no other leaves the table in the file.
LEMMA SaveStep == TypeOK /\ SaveInv /\ [Next]_vars => SaveInv'
<1> SUFFICES ASSUME TypeOK, SaveInv, [Next]_vars PROVE SaveInv'
  OBVIOUS
<1>0. /\ EventLoop \in Actors /\ Threads \subseteq Actors
      /\ step \in [Actors -> Steps] /\ text \in [Actors -> Tables]
      /\ alone \subseteq Actors
  BY DEF Actors, TypeOK
<1>1. ASSUME NEW e \in Endpoints, Subscribe(e) PROVE SaveInv'
  BY <1>0, <1>1, SaveStarted DEF Subscribe, Saving
<1>2. ASSUME NEW e \in Endpoints, Unsubscribe(e) PROVE SaveInv'
  BY <1>0, <1>2, SaveStarted DEF Unsubscribe, Saving
<1>3. ASSUME NEW e \in Endpoints, Expire(e) PROVE SaveInv'
  BY <1>0, <1>3, SaveUntouched DEF Expire
<1>4. ASSUME NEW w \in Threads, NotifyAll(w) PROVE SaveInv'
  <2>1. \A b \in Actors : Saving(b) \/ Saving(b)' => step'[b] = step[b]
    BY <1>0, <1>4 DEF NotifyAll, Saving
  <2> QED
    BY <1>4, <2>1, SaveUntouched DEF NotifyAll
<1>5. ASSUME NEW w \in Threads, NEW e \in Endpoints, Answer(w, e) PROVE SaveInv'
  <2>1. CASE GoOn(w, e) /\ UNCHANGED <<subs, target, alone>>
    <3>1. \A b \in Actors : Saving(b) \/ Saving(b)' => step'[b] = step[b]
      BY <1>0, <1>5, <2>1 DEF Answer, GoOn, Saving
    <3> QED
      BY <1>5, <2>1, <3>1, SaveUntouched DEF Answer
  <2>2. CASE Prune(w, e)
    BY <1>0, <1>5, <2>2, SaveStarted DEF Answer, Prune, Saving
  <2> QED
    BY <1>5, <2>1, <2>2 DEF Answer
<1>6. ASSUME NEW a \in Actors, Dump(a) PROVE SaveInv'
  <2>1. /\ step'[a] = "open" /\ text'[a] = subs /\ step[a] = "dump"
        /\ \A b \in Actors \ {a} : step'[b] = step[b] /\ text'[b] = text[b]
    BY <1>0, <1>6 DEF Dump
  <2>2. \A b \in Actors : Saving(b)' = Saving(b)
    BY <2>1 DEF Saving
  <2>3. SavedUnlessRaced'
    BY <1>6, <2>2 DEF Dump, SaveInv, SavedUnlessRaced, Loaded
  <2>4. \A c \in alone : c = a
    BY <1>0, <2>1 DEF SaveInv, Saving
  <2> QED
    BY <1>0, <1>6, <2>1, <2>2, <2>3, <2>4 DEF Dump, SaveInv
<1>7. ASSUME NEW a \in Actors, Open(a) PROVE SaveInv'
  <2>1. /\ step'[a] = "write" /\ step[a] = "open" /\ file'.length = 0
        /\ \A b \in Actors \ {a} : step'[b] = step[b]
    BY <1>0, <1>7 DEF Open
  <2>2. \A b \in Actors : Saving(b)' = Saving(b)
    BY <2>1 DEF Saving
  <2>3. Saving(a)'
    BY <2>1 DEF Saving
  <2>4. \A c \in alone : c = a
    BY <1>0, <2>1 DEF SaveInv, Saving
  <2> QED
    BY <1>0, <1>7, <2>1, <2>2, <2>3, <2>4 DEF Open, SaveInv, SavedUnlessRaced
<1>8. ASSUME NEW a \in Actors, Write(a) PROVE SaveInv'
  <2>1. Saving(a) /\ EndSave(a, TRUE) /\ subs' = subs /\ file' = Overwritten(text[a])
    BY <1>8 DEF Write, Saving
  <2>2. /\ step' \in [Actors -> Steps] /\ ~ Saving(a)'
        /\ \A b \in Actors \ {a} : step'[b] = step[b]
    BY <1>0, <1>8 DEF Write, GoOn, Saving, Steps
  <2>3. ASSUME a \in alone PROVE Loaded' = subs
    <3>1. file.length = 0 /\ text[a] = subs
      BY <1>8, <2>3 DEF SaveInv, Write
    <3>2. Length[subs] \in Nat
      BY DEF TypeOK
    <3>3. file' = [holds |-> subs, length |-> Length[subs]]
      BY <2>1, <3>1, <3>2 DEF Overwritten
    <3>4. subs # Unreadable
      BY DEF TypeOK, Tables, Unreadable
    <3> QED
      BY <3>3, <3>4 DEF Loaded
  <2> QED
    BY <2>1, <2>2, <2>3, SaveEnded
<1>9. ASSUME NEW a \in Actors, SaveFails(a) PROVE SaveInv'
  <2>1. Saving(a) /\ EndSave(a, FALSE) /\ subs' = subs
    BY <1>9 DEF SaveFails, Saving
  <2>2. /\ step' \in [Actors -> Steps] /\ ~ Saving(a)'
        /\ \A b \in Actors \ {a} : step'[b] = step[b]
    BY <1>0, <1>9 DEF SaveFails, Abort, Saving, Steps
  <2> QED
    BY <2>1, <2>2, SaveEnded
<1>10. CASE Restart
  <2>1. alone' = {} /\ Loaded' = subs'
    BY <1>10 DEF Restart, Loaded
  <2> QED
    BY <2>1 DEF SaveInv, SavedUnlessRaced
<1>11. CASE UNCHANGED vars
  BY <1>11, SaveUntouched DEF vars
<1> QED
  BY <1>0, <1>1, <1>2, <1>3, <1>4, <1>5, <1>6, <1>7, <1>8, <1>9, <1>10, <1>11
  DEF Next, NotifyDevices, Save

\* Saves that do not overlap, and do not fail, leave the table in the file.
THEOREM Saved == Spec => []SavedUnlessRaced
<1>1. Init => SaveInv
  BY DEF Init, SaveInv, SavedUnlessRaced, Loaded, Saving
<1>2. SaveInv => SavedUnlessRaced
  BY DEF SaveInv
<1> QED
  BY <1>1, <1>2, TypeCorrect, SaveStep, PTL DEF Spec
=============================================================================
