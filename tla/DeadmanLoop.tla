---------------------------- MODULE DeadmanLoop ----------------------------
(***************************************************************************)
(* The dead-man's switch at work: clients arm, answer and cancel check-ins *)
(* through the API while the node's background task (_deadman_loop of      *)
(* boddos/api/server.py) polls due() and raises one alarm after the other. *)
(*                                                                         *)
(* The API handlers and the loop run on one event loop, so a step of the   *)
(* model is what runs between two awaits: due() and the first trigger are  *)
(* one step, and a client can act while an alert is being delivered.  One  *)
(* alert (contacts, push, audit, broadcast) takes at most MaxAlert units,  *)
(* the sleep between two polls PollPeriod units, and an awaited step that  *)
(* is due runs before the clock advances.  The audit record that ends      *)
(* api_deadman_arm is taken to succeed; what an exception does to the      *)
(* handlers and to the loop is in DuressAlerts.                            *)
(*                                                                         *)
(* Ghost state: `pledge` is what the client was told is armed, `episode`   *)
(* numbers the deadlines of a label, `alarms` logs the episodes alarmed,   *)
(* `answered` the episodes resolved before their deadline, and `lastPoll`  *)
(* is the time of the last poll.                                           *)
(***************************************************************************)
EXTENDS DeadMansSwitch, Sequences, FiniteSets

CONSTANTS
    PollPeriod,     \* asyncio.sleep(5)
    MaxAlert,       \* the longest one alert is in delivery
    NoPledge,       \* nothing is promised to the client for the label
    MaxTime,        \* bound on the clock
    MaxEpisodes,    \* bound on the deadlines of one label
    MaxRestarts     \* bound on the restarts of the node

ASSUME LoopAssumption ==
    /\ IsFiniteSet(Labels)
    /\ PollPeriod \in Nat \ {0}
    /\ MaxAlert \in Nat
    /\ NoPledge \notin [episode : Nat, deadline : Nat]
    /\ {MaxTime, MaxEpisodes, MaxRestarts} \subseteq Nat

VARIABLES
    loop,       \* what the loop awaits: its sleep, or the end of an alert
    loopBy,     \* when that await ends at the latest
    collected,  \* the result of due() not alarmed yet
    pledge, episode, alarms, answered, lastPoll,    \* ghosts
    restarts    \* how often the node has been restarted

vars == <<now, active, loop, loopBy, collected,
          pledge, episode, alarms, answered, lastPoll, restarts>>
ghosts == <<pledge, episode, answered>>
loopVars == <<loop, loopBy, collected, alarms, lastPoll>>

Miss == [label : Labels, episode : Nat]
Elements(s) == {s[i] : i \in DOMAIN s}

TypeOK ==
    /\ DeadManTypeOK
    /\ loop \in {"sleeping", "alerting"}
    /\ loopBy \in Nat
    /\ collected \subseteq Miss
    /\ pledge \in [Labels -> [episode : Nat, deadline : Nat] \cup {NoPledge}]
    /\ episode \in [Labels -> Nat]
    /\ alarms \in [Labels -> Seq(Nat)]
    /\ answered \subseteq Miss
    /\ lastPoll \in Nat
    /\ restarts \in Nat

Init ==
    /\ DeadManInit
    /\ loop = "sleeping"
    /\ loopBy = 0
    /\ collected = {}
    /\ pledge = [l \in Labels |-> NoPledge]
    /\ episode = [l \in Labels |-> 0]
    /\ alarms = [l \in Labels |-> <<>>]
    /\ answered = {}
    /\ lastPoll = 0
    /\ restarts = 0
-----------------------------------------------------------------------------
\* What the client believes after a call.

Promise(l, deadline) ==
    /\ episode' = [episode EXCEPT ![l] = @ + 1]
    /\ pledge' = [pledge EXCEPT ![l] = [episode |-> episode[l] + 1, deadline |-> deadline]]

Release(l) ==
    /\ pledge' = [pledge EXCEPT ![l] = NoPledge]
    /\ UNCHANGED episode

\* The episode of l that ends now, if it ends before its deadline.
NoteAnswer(l) ==
    answered' = answered \cup
        IF pledge[l] # NoPledge /\ now < pledge[l].deadline
        THEN {[label |-> l, episode |-> pledge[l].episode]}
        ELSE {}

\* POST /api/safety/deadman/arm
ApiArm(l, interval, recurring) ==
    /\ episode[l] < MaxEpisodes
    /\ Arm(l, interval, recurring)
    /\ Promise(l, now + interval)
    /\ NoteAnswer(l)
    /\ UNCHANGED <<now, loopVars, restarts>>

\* POST /api/safety/deadman/checkin; a recurring check-in is to be armed again.
ApiCheckIn(l) ==
    /\ CheckInArmed(l)
    /\ IF active[l].interval_s # NotRecurring
       THEN /\ episode[l] < MaxEpisodes
            /\ Promise(l, now + active[l].interval_s)
       ELSE Release(l)
    /\ NoteAnswer(l)
    /\ UNCHANGED <<now, loopVars, restarts>>

\* POST /api/safety/deadman/cancel
ApiCancel(l) ==
    /\ CancelArmed(l)
    /\ Release(l)
    /\ NoteAnswer(l)
    /\ UNCHANGED <<now, loopVars, restarts>>
-----------------------------------------------------------------------------
\* The background task.

\* Mutant of StartAlert: only the first of the batch is alarmed.
AlertFirstOnly(m, rest) ==
    /\ alarms' = [alarms EXCEPT ![m.label] = Append(@, m.episode)]
    /\ collected' = {}
    /\ loop' = "alerting"
    /\ loopBy' = now + MaxAlert

\* DuressState.trigger for the missed check-in m, the rest of the batch waiting.
StartAlert(m, rest) ==
    /\ alarms' = [alarms EXCEPT ![m.label] = Append(@, m.episode)]
    /\ collected' = rest
    /\ loop' = "alerting"
    /\ loopBy' = now + MaxAlert

Sleep ==
    /\ loop' = "sleeping"
    /\ loopBy' = now + PollPeriod
    /\ collected' = {}
    /\ UNCHANGED alarms

Batch == {[label |-> l, episode |-> episode[l]] : l \in Due}

\* The sleep is over: due() is called and the first of its results is alarmed.
Poll ==
    /\ loop = "sleeping"
    /\ now >= loopBy
    /\ MarkFired
    /\ lastPoll' = now
    /\ \/ Batch = {} /\ Sleep
       \/ \E m \in Batch : StartAlert(m, Batch \ {m})
    /\ UNCHANGED <<now, ghosts, restarts>>

\* An alert is out: the next of the batch follows, or the loop sleeps.
AlertDone ==
    /\ loop = "alerting"
    /\ \/ collected = {} /\ Sleep
       \/ \E m \in collected : StartAlert(m, collected \ {m})
    /\ UNCHANGED <<now, active, ghosts, lastPoll, restarts>>

\* The clock advances, never past a moment at which the loop is to run.
Tick ==
    /\ now < MaxTime
    /\ now < loopBy
    /\ now' = now + 1
    /\ UNCHANGED <<active, loopVars, ghosts, restarts>>

\* The node's process is restarted (deploy/boddos.service): nothing of the
\* dead-man's switch is on disk.
Restart ==
    /\ restarts < MaxRestarts
    /\ restarts' = restarts + 1
    /\ active' = [l \in Labels |-> Unarmed]
    /\ loop' = "sleeping"
    /\ loopBy' = now
    /\ collected' = {}
    /\ UNCHANGED <<now, alarms, lastPoll, ghosts>>

Next ==
    \/ \E l \in Labels :
          \/ \E i \in Intervals, r \in BOOLEAN : ApiArm(l, i, r)
          \/ ApiCheckIn(l)
          \/ ApiCancel(l)
    \/ Poll
    \/ AlertDone
    \/ Tick
    \/ Restart

Spec == Init /\ [][Next]_vars
-----------------------------------------------------------------------------
\* The longest time from a deadline to its alarm: the batch in delivery when
\* the deadline passes, one sleep, and the rest of the batch it is part of.
BatchTime == Cardinality(Labels) * MaxAlert
Window == PollPeriod + BatchTime + BatchTime - MaxAlert

\* A check-in that is armed and not answered has been alarmed once its deadline is
\* more than Window ago, whatever else the loop had to alarm meanwhile.
MissedIsAlarmed ==
    \A l \in Labels :
        Armed(l) /\ now > active[l].deadline + Window
            => episode[l] \in Elements(alarms[l])

\* The same for what the client was told is armed: "if you don't check in before
\* the deadline, it auto-triggers a duress alert" (safety/deadman.py).
PledgeIsKept ==
    \A l \in Labels :
        pledge[l] # NoPledge /\ now > pledge[l].deadline + Window
            => pledge[l].episode \in Elements(alarms[l])

\* No deadline is alarmed twice, and the alarms of a label go out in the order
\* of its deadlines, although the batch is worked off while clients re-arm.
AlarmedOnceInOrder ==
    \A l \in Labels : \A i, j \in DOMAIN alarms[l] :
        i < j => alarms[l][i] < alarms[l][j]

\* A check-in answered, cancelled or replaced before its deadline is never
\* alarmed, nor is it waiting to be.
NoFalseAlarm ==
    \A m \in answered : /\ m.episode \notin Elements(alarms[m.label])
                        /\ m \notin collected

\* What the client was told is armed is armed on the node: a recurring check-in
\* is armed again by each answer ("if set, re-arms on each check-in",
\* safety/deadman.py), and nothing else disarms one.
PledgeIsArmed ==
    \A l \in Labels : pledge[l] # NoPledge => Armed(l)
-----------------------------------------------------------------------------
\* The inductive strengthenings.  First, how episodes are numbered: the current
\* one is the last, and it is the one the table holds.
NumberInv ==
    \A l \in Labels :
        /\ pledge[l] # NoPledge => pledge[l].episode = episode[l]
        /\ Armed(l) => /\ pledge[l] # NoPledge
                       /\ pledge[l].deadline = active[l].deadline

Unfired(l) == Armed(l) /\ ~ active[l].fired

\* What is still to be alarmed is newer than everything alarmed for its label.
OrderInv ==
    /\ AlarmedOnceInOrder
    /\ loop = "sleeping" => collected = {}
    /\ \A m, n \in collected : m.label = n.label => m = n
    /\ \A m \in collected : /\ m.episode <= episode[m.label]
                            /\ Unfired(m.label) => m.episode # episode[m.label]
                            /\ \A e \in Elements(alarms[m.label]) : e < m.episode
    /\ \A l \in Labels : \A e \in Elements(alarms[l]) :
          /\ e <= episode[l]
          /\ Unfired(l) => e # episode[l]

\* A deadline that is in the future has not been alarmed and is not about to be.
AnswerInv ==
    /\ NoFalseAlarm
    /\ \A m \in answered : /\ m.episode <= episode[m.label]
                           /\ Armed(m.label) => m.episode # episode[m.label]
    /\ \A l \in Labels :
          pledge[l] # NoPledge /\ now < pledge[l].deadline
              => /\ episode[l] \notin Elements(alarms[l])
                 /\ [label |-> l, episode |-> episode[l]] \notin collected

\* Where the loop is in its cycle: the batch in hand shrinks by one with each
\* MaxAlert, so the time since the last poll is bounded, and an armed check-in is
\* either not due at that poll, or alarmed, or in the batch.
LatencyInv ==
    /\ lastPoll <= now /\ now <= loopBy
    /\ IsFiniteSet(collected)
    /\ loop = "sleeping" =>
          /\ collected = {}
          /\ loopBy <= lastPoll + BatchTime + PollPeriod
    /\ loop = "alerting" =>
          /\ Cardinality(collected) < Cardinality(Labels)
          /\ loopBy <= lastPoll + (Cardinality(Labels) - Cardinality(collected)) * MaxAlert
    /\ \A l \in Labels :
          /\ Unfired(l) => lastPoll <= active[l].deadline
          /\ Armed(l) /\ active[l].fired =>
                \/ episode[l] \in Elements(alarms[l])
                \/ /\ [label |-> l, episode |-> episode[l]] \in collected
                   /\ lastPoll <= active[l].deadline + BatchTime + PollPeriod
-----------------------------------------------------------------------------
\* The promise the loop keeps (CheckInPromise): promised is what is armed, and
\* what waits in the batch of the episodes resolved is still to be alarmed.
Standing == [l \in Labels |-> IF Armed(l) THEN pledge[l] ELSE NoPledge]
Current(l) == [label |-> l, episode |-> episode[l]]
Late == collected \ {Current(l) : l \in {k \in Labels : Armed(k)}}

Promised == INSTANCE CheckInPromise WITH pledge <- Standing, late <- Late

\* The loop with its polls, batches and sleeps does what the abstract promise
\* says: each alarm is one step, for a missed deadline, and none is overdue by
\* more than Window.
KeepsPromise == Promised!Spec
=============================================================================
