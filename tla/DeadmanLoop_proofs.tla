------------------------- MODULE DeadmanLoop_proofs -------------------------
(***************************************************************************)
(* Theorems about the dead-man's switch and the loop that polls it, for    *)
(* every set of labels, intervals, periods and bounds.                     *)
(***************************************************************************)
EXTENDS DeadmanLoop, FiniteSetTheorems, TLAPS

USE DeadManAssumption, LoopAssumption DEF DeadManAssumption, LoopAssumption

\* An armed entry is a CheckIn, and the two deadlines of a check-in are numbers.
LEMMA ArmedIsCheckIn ==
    ASSUME TypeOK, NEW l \in Labels, Armed(l)
    PROVE  active[l] \in CheckIn
  BY DEF TypeOK, DeadManTypeOK, Armed

\* Every operation of the API and of the loop keeps the types.
LEMMA TypeStep == TypeOK /\ [Next]_vars => TypeOK'
<1> SUFFICES ASSUME TypeOK, [Next]_vars PROVE TypeOK'
  OBVIOUS
<1>1. ASSUME NEW l \in Labels, NEW i \in Intervals, NEW r \in BOOLEAN, ApiArm(l, i, r)
      PROVE  TypeOK'
  BY <1>1 DEF ApiArm, Arm, Promise, NoteAnswer, loopVars, TypeOK, DeadManTypeOK, CheckIn, Miss
<1>2. ASSUME NEW l \in Labels, ApiCheckIn(l)
      PROVE  TypeOK'
  <2>1. active[l] \in CheckIn
    BY <1>2, ArmedIsCheckIn DEF ApiCheckIn, CheckInArmed
  <2>2. active' \in [Labels -> CheckIn \cup {Unarmed}]
    <3>1. ASSUME Rearms(l)
          PROVE  [active[l] EXCEPT !.deadline = now + active[l].interval_s, !.fired = FALSE]
                    \in CheckIn
      <4>1. active[l].interval_s \in Intervals
        BY <2>1, <3>1 DEF Rearms, CheckIn
      <4>2. active[l].interval_s \in Nat
        BY <4>1
      <4>3. now + active[l].interval_s \in Nat
        BY <4>2 DEF TypeOK, DeadManTypeOK
      <4> QED
        BY <2>1, <4>3 DEF CheckIn
    <3> QED
      BY <1>2, <3>1 DEF ApiCheckIn, CheckInArmed, TypeOK, DeadManTypeOK
  <2>3. CASE active[l].interval_s # NotRecurring
    <3>1. active[l].interval_s \in Nat
      <4>1. active[l].interval_s \in Intervals \cup {NotRecurring}
        BY <2>1 DEF CheckIn
      <4> QED
        BY <2>3, <4>1
    <3>2. now + active[l].interval_s \in Nat
      BY <3>1 DEF TypeOK, DeadManTypeOK
    <3>3. Promise(l, now + active[l].interval_s)
      BY <1>2, <2>3 DEF ApiCheckIn
    <3> QED
      BY <1>2, <2>2, <3>2, <3>3
      DEF ApiCheckIn, Promise, NoteAnswer, loopVars, TypeOK, DeadManTypeOK, Miss
  <2>4. CASE active[l].interval_s = NotRecurring
    <3>1. Release(l)
      BY <1>2, <2>4 DEF ApiCheckIn
    <3> QED
      BY <1>2, <2>2, <3>1
      DEF ApiCheckIn, Release, NoteAnswer, loopVars, TypeOK, DeadManTypeOK, Miss
  <2> QED
    BY <2>3, <2>4
<1>3. ASSUME NEW l \in Labels, ApiCancel(l)
      PROVE  TypeOK'
  BY <1>3
  DEF ApiCancel, CancelArmed, Release, NoteAnswer, loopVars, TypeOK, DeadManTypeOK, Miss
<1>4. CASE Poll
  <2>1. active' \in [Labels -> CheckIn \cup {Unarmed}]
    BY <1>4 DEF Poll, MarkFired, IsDue, Armed, TypeOK, DeadManTypeOK, CheckIn
  <2>2. Batch \subseteq Miss
    BY DEF Batch, Due, TypeOK, Miss
  <2>3. CASE Sleep
    BY <1>4, <2>1, <2>3 DEF Poll, Sleep, ghosts, TypeOK, DeadManTypeOK
  <2>4. ASSUME NEW m \in Batch, StartAlert(m, Batch \ {m})
        PROVE  TypeOK'
    BY <1>4, <2>1, <2>2, <2>4 DEF Poll, StartAlert, ghosts, TypeOK, DeadManTypeOK, Miss
  <2> QED
    BY <1>4, <2>3, <2>4 DEF Poll
<1>5. CASE AlertDone
  <2>1. CASE Sleep
    BY <1>5, <2>1 DEF AlertDone, Sleep, ghosts, TypeOK, DeadManTypeOK
  <2>2. ASSUME NEW m \in collected, StartAlert(m, collected \ {m})
        PROVE  TypeOK'
    BY <1>5, <2>2 DEF AlertDone, StartAlert, ghosts, TypeOK, DeadManTypeOK, Miss
  <2> QED
    BY <1>5, <2>1, <2>2 DEF AlertDone
<1>6. CASE Tick
  BY <1>6 DEF Tick, loopVars, ghosts, TypeOK, DeadManTypeOK
<1>7. CASE Restart
  BY <1>7 DEF Restart, ghosts, TypeOK, DeadManTypeOK
<1>8. CASE UNCHANGED vars
  BY <1>8 DEF vars, TypeOK, DeadManTypeOK
<1> QED
  BY <1>1, <1>2, <1>3, <1>4, <1>5, <1>6, <1>7, <1>8 DEF Next

\* The state of the check-ins, of the loop and of the ghosts has its type in
\* every reachable state.
THEOREM TypeCorrect == Spec => []TypeOK
<1>1. Init => TypeOK
  BY DEF Init, DeadManInit, TypeOK, DeadManTypeOK
<1> QED
  BY <1>1, TypeStep, PTL DEF Spec
-----------------------------------------------------------------------------
\* What the calls of a client have in common: they touch one label, and what is
\* armed or promised after the call is a deadline of its own.
ClientStep(l) ==
    /\ UNCHANGED <<now, loopVars>>
    /\ \A k \in Labels \ {l} : /\ active'[k] = active[k]
                               /\ pledge'[k] = pledge[k]
                               /\ episode'[k] = episode[k]
    /\ NoteAnswer(l)
    /\ episode'[l] \in {episode[l], episode[l] + 1}
    /\ Armed(l)' => pledge'[l] # NoPledge /\ pledge'[l].deadline = active'[l].deadline
    /\ pledge'[l] # NoPledge => /\ episode'[l] = episode[l] + 1
                                /\ pledge'[l].episode = episode'[l]

LEMMA ClientCalls ==
    ASSUME TypeOK, NEW l \in Labels,
           \/ \E i \in Intervals, r \in BOOLEAN : ApiArm(l, i, r)
           \/ ApiCheckIn(l)
           \/ ApiCancel(l)
    PROVE  ClientStep(l)
<1>1. ASSUME NEW i \in Intervals, NEW r \in BOOLEAN, ApiArm(l, i, r)
      PROVE  ClientStep(l)
  BY <1>1 DEF ApiArm, Arm, Promise, ClientStep, Armed, TypeOK, DeadManTypeOK
<1>2. ASSUME ApiCheckIn(l)
      PROVE  ClientStep(l)
  <2>1. active[l] \in CheckIn
    BY <1>2, ArmedIsCheckIn DEF ApiCheckIn, CheckInArmed
  <2>2. CASE active[l].interval_s # NotRecurring
    <3>1. Promise(l, now + active[l].interval_s)
      BY <1>2, <2>2 DEF ApiCheckIn
    <3>2. Armed(l)' => active'[l].deadline = now + active[l].interval_s
      <4>1. Armed(l)' => active'[l] = [active[l] EXCEPT !.deadline = now + active[l].interval_s,
                                                        !.fired = FALSE]
        BY <1>2 DEF ApiCheckIn, CheckInArmed, Armed, TypeOK, DeadManTypeOK
      <4> QED
        BY <2>1, <4>1 DEF CheckIn
    <3>3. /\ UNCHANGED <<now, loopVars>>
          /\ NoteAnswer(l)
          /\ \A k \in Labels \ {l} : active'[k] = active[k]
      BY <1>2 DEF ApiCheckIn, CheckInArmed, TypeOK, DeadManTypeOK
    <3>4. /\ \A k \in Labels \ {l} : pledge'[k] = pledge[k] /\ episode'[k] = episode[k]
          /\ episode'[l] = episode[l] + 1
          /\ pledge'[l] = [episode |-> episode[l] + 1, deadline |-> now + active[l].interval_s]
      BY <3>1 DEF Promise, TypeOK
    <3>5. pledge'[l] # NoPledge
      <4>1. active[l].interval_s \in Intervals
        BY <2>1, <2>2 DEF CheckIn
      <4>2. active[l].interval_s \in Nat
        BY <4>1
      <4>3. now + active[l].interval_s \in Nat /\ episode[l] + 1 \in Nat
        BY <4>2 DEF TypeOK, DeadManTypeOK
      <4> QED
        BY <3>4, <4>3
    <3> QED
      BY <3>2, <3>3, <3>4, <3>5 DEF ClientStep
  <2>3. CASE active[l].interval_s = NotRecurring
    <3>1. Release(l)
      BY <1>2, <2>3 DEF ApiCheckIn
    <3>2. ~ Armed(l)'
      BY <1>2, <2>3 DEF ApiCheckIn, CheckInArmed, Rearms, Armed, TypeOK, DeadManTypeOK
    <3> QED
      BY <1>2, <3>1, <3>2
      DEF ApiCheckIn, CheckInArmed, Release, ClientStep, TypeOK, DeadManTypeOK
  <2> QED
    BY <2>2, <2>3
<1>3. ASSUME ApiCancel(l)
      PROVE  ClientStep(l)
  BY <1>3 DEF ApiCancel, CancelArmed, Release, ClientStep, Armed, TypeOK, DeadManTypeOK
<1> QED
  BY <1>1, <1>2, <1>3

\* The steps of a behaviour, with the client's calls as one case.
LEMMA StepCases ==
    ASSUME TypeOK, [Next]_vars
    PROVE  \/ \E l \in Labels : ClientStep(l)
           \/ Poll
           \/ AlertDone
           \/ Tick
           \/ Restart
           \/ UNCHANGED vars
  BY ClientCalls DEF Next

\* MarkFired changes nothing but the mark of what is due.
LEMMA MarkFiredKeeps ==
    ASSUME TypeOK, MarkFired, NEW l \in Labels
    PROVE  /\ Armed(l)' <=> Armed(l)
           /\ Armed(l) => active'[l].deadline = active[l].deadline
           /\ Unfired(l)' <=> Unfired(l) /\ ~ IsDue(l)
<1>1. CASE IsDue(l)
  <2>1. active[l] \in CheckIn /\ Armed(l)
    BY <1>1, ArmedIsCheckIn DEF IsDue
  <2>2. active'[l] = [active[l] EXCEPT !.fired = TRUE]
    BY <1>1 DEF MarkFired
  <2>3. active'[l] \in CheckIn /\ active'[l].fired /\ active'[l].deadline = active[l].deadline
    BY <2>1, <2>2 DEF CheckIn
  <2>4. active'[l] # Unarmed
    BY <2>3 DEF CheckIn
  <2> QED
    BY <1>1, <2>1, <2>3, <2>4 DEF Armed, Unfired
<1>2. CASE ~ IsDue(l)
  BY <1>2 DEF MarkFired, Armed, Unfired
<1> QED
  BY <1>1, <1>2

LEMMA NumberStep == TypeOK /\ NumberInv /\ [Next]_vars => NumberInv'
<1> SUFFICES ASSUME TypeOK, NumberInv, [Next]_vars, NEW k \in Labels
             PROVE  /\ pledge'[k] # NoPledge => pledge'[k].episode = episode'[k]
                    /\ Armed(k)' => /\ pledge'[k] # NoPledge
                                    /\ pledge'[k].deadline = active'[k].deadline
  BY DEF NumberInv
<1>1. ASSUME NEW l \in Labels, ClientStep(l)
      PROVE  /\ pledge'[k] # NoPledge => pledge'[k].episode = episode'[k]
             /\ Armed(k)' => /\ pledge'[k] # NoPledge
                             /\ pledge'[k].deadline = active'[k].deadline
  BY <1>1 DEF ClientStep, NumberInv, Armed
<1>2. CASE Poll
  BY <1>2, MarkFiredKeeps DEF Poll, NumberInv, ghosts
<1>3. CASE AlertDone \/ Tick \/ UNCHANGED vars
  BY <1>3 DEF AlertDone, Tick, vars, NumberInv, Armed, ghosts
<1>4. CASE Restart
  BY <1>4 DEF Restart, NumberInv, Armed, ghosts
<1> QED
  BY <1>1, <1>2, <1>3, <1>4, StepCases
-----------------------------------------------------------------------------
\* Appending to a log: the old entries stay where they are.
LEMMA AppendKeeps ==
    ASSUME NEW s \in Seq(Nat), NEW e \in Nat
    PROVE  /\ DOMAIN s = 1 .. Len(s)
           /\ Len(s) \in Nat
           /\ DOMAIN Append(s, e) = 1 .. Len(s) + 1
           /\ \A i \in DOMAIN s : Append(s, e)[i] = s[i] /\ s[i] \in Nat
           /\ Append(s, e)[Len(s) + 1] = e
<1>1. DOMAIN s = 1 .. Len(s) /\ Len(s) \in Nat
  OBVIOUS
<1>2. DOMAIN Append(s, e) = 1 .. Len(s) + 1
  OBVIOUS
<1>3. \A i \in 1 .. Len(s) : Append(s, e)[i] = s[i] /\ s[i] \in Nat
  OBVIOUS
<1>4. Append(s, e)[Len(s) + 1] = e
  OBVIOUS
<1> QED
  BY <1>1, <1>2, <1>3, <1>4

\* An alarm adds its episode to the log of its label.
LEMMA AlertElements ==
    ASSUME TypeOK, NEW m \in Miss, NEW rest, StartAlert(m, rest)
    PROVE  /\ Elements(alarms'[m.label]) = Elements(alarms[m.label]) \cup {m.episode}
           /\ \A l \in Labels \ {m.label} : alarms'[l] = alarms[l]
<1> DEFINE s == alarms[m.label]
<1>1. m.label \in Labels /\ m.episode \in Nat /\ s \in Seq(Nat)
  BY DEF TypeOK, Miss
<1>2. alarms'[m.label] = Append(s, m.episode) /\ \A l \in Labels \ {m.label} : alarms'[l] = alarms[l]
  BY <1>1 DEF StartAlert, TypeOK
<1>3. /\ DOMAIN s = 1 .. Len(s)
      /\ DOMAIN Append(s, m.episode) = 1 .. Len(s) + 1
      /\ \A i \in DOMAIN s : Append(s, m.episode)[i] = s[i]
      /\ Append(s, m.episode)[Len(s) + 1] = m.episode
      /\ Len(s) \in Nat
  BY <1>1, AppendKeeps, SMTT(60)
<1>4. Elements(Append(s, m.episode)) = Elements(s) \cup {m.episode}
  BY <1>3 DEF Elements
<1> QED
  BY <1>2, <1>4

\* It keeps the logs in order if it is newer than the rest of its log.
LEMMA AlertLog ==
    ASSUME TypeOK, AlarmedOnceInOrder, NEW m \in Miss, NEW rest, StartAlert(m, rest),
           \A e \in Elements(alarms[m.label]) : e < m.episode
    PROVE  AlarmedOnceInOrder'
<1> DEFINE s == alarms[m.label]
<1>1. m.label \in Labels /\ m.episode \in Nat /\ s \in Seq(Nat)
  BY DEF TypeOK, Miss
<1>2. alarms'[m.label] = Append(s, m.episode) /\ \A l \in Labels \ {m.label} : alarms'[l] = alarms[l]
  BY <1>1 DEF StartAlert, TypeOK
<1>3. /\ DOMAIN s = 1 .. Len(s)
      /\ DOMAIN Append(s, m.episode) = 1 .. Len(s) + 1
      /\ \A i \in DOMAIN s : Append(s, m.episode)[i] = s[i] /\ s[i] \in Nat
      /\ Append(s, m.episode)[Len(s) + 1] = m.episode
      /\ Len(s) \in Nat
  BY <1>1, AppendKeeps, SMTT(60)
<1>4. \A i \in DOMAIN s : s[i] < m.episode
  BY DEF Elements
<1>5. \A i, j \in DOMAIN s : i < j => s[i] < s[j]
  BY <1>1 DEF AlarmedOnceInOrder
<1>6. \A i, j \in DOMAIN Append(s, m.episode) :
         i < j => Append(s, m.episode)[i] < Append(s, m.episode)[j]
  BY <1>3, <1>4, <1>5
<1> SUFFICES ASSUME NEW l \in Labels, NEW i \in DOMAIN alarms'[l], NEW j \in DOMAIN alarms'[l], i < j
             PROVE  alarms'[l][i] < alarms'[l][j]
  BY DEF AlarmedOnceInOrder
<1>7. CASE l = m.label
  BY <1>7, <1>2, <1>6
<1>8. CASE l # m.label
  BY <1>8, <1>2 DEF AlarmedOnceInOrder
<1> QED
  BY <1>7, <1>8

\* The batch and the logs stay in order: a client's call starts an episode above
\* all logged ones, a poll collects current episodes only, an alert moves the one
\* episode it alarms from the batch to the log.
LEMMA OrderStep == TypeOK /\ NumberInv /\ OrderInv /\ [Next]_vars => OrderInv'
<1> SUFFICES ASSUME TypeOK, NumberInv, OrderInv, [Next]_vars PROVE OrderInv'
  OBVIOUS
<1>e. /\ \A l \in Labels : episode[l] \in Nat /\ Elements(alarms[l]) \subseteq Nat
      /\ collected \subseteq Miss
  BY DEF TypeOK, Elements
<1>1. ASSUME NEW l \in Labels, ClientStep(l)
      PROVE  OrderInv'
  <2>1. collected' = collected /\ alarms' = alarms /\ loop' = loop
    BY <1>1 DEF ClientStep, loopVars
  <2>2. \A k \in Labels : /\ episode'[k] \in Nat
                          /\ episode[k] <= episode'[k]
                          /\ Unfired(k)' => \/ Unfired(k) /\ episode'[k] = episode[k]
                                            \/ episode'[k] = episode[k] + 1
    BY <1>1, <1>e DEF ClientStep, Unfired, Armed
  <2>3. AlarmedOnceInOrder' /\ (loop' = "sleeping" => collected' = {})
    BY <2>1 DEF OrderInv, AlarmedOnceInOrder
  <2>4. ASSUME NEW m \in collected
        PROVE  /\ m.episode <= episode'[m.label]
               /\ Unfired(m.label)' => m.episode # episode'[m.label]
    BY <2>2, <1>e DEF OrderInv, Miss
  <2>5. ASSUME NEW k \in Labels, NEW e \in Elements(alarms[k])
        PROVE  e <= episode'[k] /\ (Unfired(k)' => e # episode'[k])
    <3>1. e \in Nat /\ e <= episode[k] /\ (Unfired(k) => e # episode[k])
      BY <1>e DEF OrderInv
    <3> QED
      BY <2>2, <3>1, <1>e
  <2> QED
    BY <2>1, <2>3, <2>4, <2>5 DEF OrderInv
<1>2. CASE Poll
  <2>1. collected = {} /\ episode' = episode
    BY <1>2 DEF Poll, OrderInv, ghosts
  <2>2. \A k \in Labels : Unfired(k)' => Unfired(k) /\ ~ IsDue(k)
    BY <1>2, MarkFiredKeeps DEF Poll
  <2>3. CASE Sleep
    BY <2>1, <2>2, <2>3 DEF Sleep, OrderInv, AlarmedOnceInOrder
  <2>4. ASSUME NEW m \in Batch, StartAlert(m, Batch \ {m})
        PROVE  OrderInv'
    <3>1. \A n \in Batch : /\ n \in Miss
                           /\ n.episode = episode[n.label]
                           /\ IsDue(n.label)
                           /\ Unfired(n.label)
      BY <1>e DEF Batch, Due, Miss, IsDue, Unfired
    <3>2. \A n \in Batch : \A e \in Elements(alarms[n.label]) : e < n.episode
      <4> SUFFICES ASSUME NEW n \in Batch, NEW e \in Elements(alarms[n.label])
                   PROVE  e < n.episode
        OBVIOUS
      <4>1. n.label \in Labels
        BY <3>1 DEF Miss
      <4>2. e <= episode[n.label] /\ e # episode[n.label]
        BY <3>1, <4>1 DEF OrderInv
      <4> QED
        BY <3>1, <4>1, <4>2, <1>e
    <3>3. /\ AlarmedOnceInOrder'
          /\ Elements(alarms'[m.label]) = Elements(alarms[m.label]) \cup {m.episode}
          /\ \A k \in Labels \ {m.label} : alarms'[k] = alarms[k]
      BY <2>4, <3>1, <3>2, AlertLog, AlertElements DEF OrderInv
    <3>4. loop' = "alerting" /\ collected' = Batch \ {m}
      BY <2>4 DEF StartAlert
    <3>5. \A n, o \in Batch : n.label = o.label => n = o
      BY DEF Batch
    <3>6. ASSUME NEW n \in Batch \ {m}
          PROVE  /\ n.episode <= episode'[n.label]
                 /\ ~ Unfired(n.label)'
                 /\ \A e \in Elements(alarms'[n.label]) : e < n.episode
      BY <2>1, <2>2, <3>1, <3>2, <3>3, <3>5, <1>e DEF Miss
    <3>7. ASSUME NEW k \in Labels, NEW e \in Elements(alarms'[k])
          PROVE  e <= episode'[k] /\ (Unfired(k)' => e # episode'[k])
      <4>1. CASE e \in Elements(alarms[k])
        BY <4>1, <2>1, <2>2 DEF OrderInv
      <4>2. CASE k = m.label /\ e = m.episode
        BY <4>2, <2>1, <2>2, <3>1, <1>e
      <4> QED
        BY <4>1, <4>2, <3>3
    <3> QED
      BY <3>3, <3>4, <3>5, <3>6, <3>7 DEF OrderInv
  <2> QED
    BY <1>2, <2>3, <2>4 DEF Poll
<1>3. CASE AlertDone
  <2>1. episode' = episode /\ \A k \in Labels : Unfired(k)' <=> Unfired(k)
    BY <1>3 DEF AlertDone, ghosts, Unfired, Armed
  <2>2. CASE Sleep
    BY <2>1, <2>2 DEF Sleep, OrderInv, AlarmedOnceInOrder
  <2>3. ASSUME NEW m \in collected, StartAlert(m, collected \ {m})
        PROVE  OrderInv'
    <3>1. /\ AlarmedOnceInOrder'
          /\ Elements(alarms'[m.label]) = Elements(alarms[m.label]) \cup {m.episode}
          /\ \A k \in Labels \ {m.label} : alarms'[k] = alarms[k]
      BY <2>3, <1>e, AlertLog, AlertElements DEF OrderInv
    <3>2. loop' = "alerting" /\ collected' = collected \ {m}
      BY <2>3 DEF StartAlert
    <3>3. ASSUME NEW n \in collected \ {m}
          PROVE  /\ n.episode <= episode'[n.label]
                 /\ Unfired(n.label)' => n.episode # episode'[n.label]
                 /\ \A e \in Elements(alarms'[n.label]) : e < n.episode
      BY <2>1, <3>1, <1>e DEF OrderInv, Miss
    <3>4. ASSUME NEW k \in Labels, NEW e \in Elements(alarms'[k])
          PROVE  e <= episode'[k] /\ (Unfired(k)' => e # episode'[k])
      BY <2>1, <3>1, <1>e DEF OrderInv, Miss
    <3> QED
      BY <3>1, <3>2, <3>3, <3>4 DEF OrderInv
  <2> QED
    BY <1>3, <2>2, <2>3 DEF AlertDone
<1>4. CASE Tick \/ UNCHANGED vars
  BY <1>4 DEF Tick, vars, loopVars, ghosts, OrderInv, AlarmedOnceInOrder, Unfired, Armed
<1>5. CASE Restart
  <2>1. \A k \in Labels : ~ Unfired(k)'
    BY <1>5 DEF Restart, Unfired, Armed
  <2>2. collected' = {} /\ alarms' = alarms /\ episode' = episode
    BY <1>5 DEF Restart, ghosts
  <2> QED
    BY <2>1, <2>2 DEF OrderInv, AlarmedOnceInOrder
<1> QED
  BY <1>1, <1>2, <1>3, <1>4, <1>5, StepCases

\* No deadline is alarmed twice, and those of one label are alarmed in order,
\* whatever the clients do meanwhile and however often the node restarts.
THEOREM AlarmsInOrder == Spec => []AlarmedOnceInOrder
<1>1. Init => NumberInv /\ OrderInv
  BY DEF Init, DeadManInit, NumberInv, OrderInv, AlarmedOnceInOrder, Armed, Unfired, Elements
<1>2. OrderInv => AlarmedOnceInOrder
  BY DEF OrderInv
<1> QED
  BY <1>1, <1>2, TypeCorrect, NumberStep, OrderStep, PTL DEF Spec
-----------------------------------------------------------------------------
\* An alert is started only for a deadline that has passed.
LEMMA AnswerStep ==
    TypeOK /\ NumberInv /\ OrderInv /\ AnswerInv /\ [Next]_vars => AnswerInv'
<1> SUFFICES ASSUME TypeOK, NumberInv, OrderInv, AnswerInv, [Next]_vars PROVE AnswerInv'
  OBVIOUS
<1> DEFINE Ahead(l) == pledge[l] # NoPledge /\ now < pledge[l].deadline
           Cur(l) == [label |-> l, episode |-> episode[l]]
<1>e. /\ \A l \in Labels : episode[l] \in Nat
      /\ collected \subseteq Miss
      /\ answered \subseteq Miss
      /\ now \in Nat
      /\ \A l \in Labels : pledge[l] # NoPledge => pledge[l].deadline \in Nat
  BY DEF TypeOK, DeadManTypeOK
<1>m. \A m \in Miss : m = [label |-> m.label, episode |-> m.episode] /\ m.label \in Labels /\ m.episode \in Nat
  BY DEF Miss
<1>1. ASSUME NEW l \in Labels, ClientStep(l)
      PROVE  AnswerInv'
  <2>1. collected' = collected /\ alarms' = alarms /\ now' = now
    BY <1>1 DEF ClientStep, loopVars
  <2>2. \A k \in Labels : /\ episode'[k] \in Nat
                          /\ episode[k] <= episode'[k]
                          /\ Armed(k)' => \/ Armed(k) /\ episode'[k] = episode[k]
                                          \/ episode'[k] = episode[k] + 1
    BY <1>1, <1>e DEF ClientStep, Armed
  <2>3. Armed(l)' => episode'[l] = episode[l] + 1
    BY <1>1 DEF ClientStep
  <2>4. ASSUME NEW m \in answered'
        PROVE  /\ m.label \in Labels
               /\ m.episode \notin Elements(alarms[m.label])
               /\ m \notin collected
               /\ m.episode <= episode'[m.label]
               /\ Armed(m.label)' => m.episode # episode'[m.label]
    <3>1. CASE m \in answered
      <4>1. /\ m.episode \notin Elements(alarms[m.label])
            /\ m \notin collected
            /\ m.episode <= episode[m.label]
            /\ Armed(m.label) => m.episode # episode[m.label]
        BY <3>1 DEF AnswerInv, NoFalseAlarm
      <4> QED
        BY <3>1, <4>1, <1>e, <1>m, <2>2
    <3>2. CASE Ahead(l) /\ m = [label |-> l, episode |-> pledge[l].episode]
      <4>1. m = Cur(l)
        BY <3>2 DEF NumberInv
      <4> QED
        BY <3>2, <4>1, <1>e, <2>2, <2>3 DEF AnswerInv
    <3> QED
      BY <1>1, <3>1, <3>2 DEF ClientStep, NoteAnswer
  <2>5. ASSUME NEW k \in Labels, Ahead(k)'
        PROVE  episode'[k] \notin Elements(alarms[k]) /\ Cur(k)' \notin collected
    <3>1. CASE k # l
      BY <1>1, <2>1, <2>5, <3>1 DEF AnswerInv, ClientStep
    <3>2. CASE k = l
      <4>1. episode'[l] = episode[l] + 1
        BY <1>1, <2>5, <3>2 DEF ClientStep
      <4>2. \A e \in Elements(alarms[l]) : e <= episode[l]
        BY DEF OrderInv
      <4>3. \A m \in collected : m.label = l => m.episode <= episode[l]
        BY DEF OrderInv
      <4>4. episode'[l] \notin Elements(alarms[l])
        BY <1>e, <4>1, <4>2
      <4>5. Cur(l)' \notin collected
        BY <1>e, <4>1, <4>3
      <4> QED
        BY <3>2, <4>4, <4>5
    <3> QED
      BY <3>1, <3>2
  <2> QED
    BY <2>1, <2>4, <2>5 DEF AnswerInv, NoFalseAlarm
<1>2. ASSUME now' = now, pledge' = pledge, episode' = episode, answered' = answered,
             \A k \in Labels : Armed(k)' => Armed(k),
             \/ alarms' = alarms /\ collected' = {}
             \/ \E m \in Miss, rest \in SUBSET Miss :
                   /\ StartAlert(m, rest)
                   /\ \A n \in rest \cup {m} : n \notin answered /\ (n = Cur(n.label) => ~ Ahead(n.label))
      PROVE  AnswerInv'
  <2>1. CASE alarms' = alarms /\ collected' = {}
    BY <1>2, <2>1, <1>e, <1>m DEF AnswerInv, NoFalseAlarm
  <2>2. ASSUME NEW m \in Miss, NEW rest \in SUBSET Miss, StartAlert(m, rest),
               \A n \in rest \cup {m} : n \notin answered /\ (n = Cur(n.label) => ~ Ahead(n.label))
        PROVE  AnswerInv'
    <3>1. /\ Elements(alarms'[m.label]) = Elements(alarms[m.label]) \cup {m.episode}
          /\ \A l \in Labels \ {m.label} : alarms'[l] = alarms[l]
      BY <2>2, AlertElements
    <3>2. collected' = rest
      BY <2>2 DEF StartAlert
    <3>3. ASSUME NEW a \in answered
          PROVE  /\ a.episode \notin Elements(alarms'[a.label])
                 /\ a \notin collected'
                 /\ a.episode <= episode[a.label]
                 /\ Armed(a.label)' => a.episode # episode[a.label]
      BY <1>2, <2>2, <3>1, <3>2, <1>e, <1>m DEF AnswerInv, NoFalseAlarm
    <3>4. ASSUME NEW k \in Labels, Ahead(k)
          PROVE  episode[k] \notin Elements(alarms'[k]) /\ Cur(k) \notin collected'
      BY <2>2, <3>1, <3>2, <3>4, <1>e, <1>m DEF AnswerInv
    <3> QED
      BY <1>2, <3>3, <3>4 DEF AnswerInv, NoFalseAlarm
  <2> QED
    BY <1>2, <2>1, <2>2
<1>3. CASE Poll
  <2>1. /\ now' = now /\ pledge' = pledge /\ episode' = episode /\ answered' = answered
        /\ \A k \in Labels : Armed(k)' => Armed(k)
    BY <1>3, MarkFiredKeeps DEF Poll, ghosts
  <2>2. CASE Sleep
    BY <1>2, <2>1, <2>2 DEF Sleep
  <2>3. ASSUME NEW m \in Batch, StartAlert(m, Batch \ {m})
        PROVE  AnswerInv'
    <3>1. \A n \in Batch : /\ n \in Miss
                           /\ n = Cur(n.label)
                           /\ Armed(n.label)
                           /\ ~ Ahead(n.label)
      <4> SUFFICES ASSUME NEW l \in Due
                   PROVE  Cur(l) \in Miss /\ Armed(l) /\ ~ Ahead(l)
        BY DEF Batch
      <4>1. l \in Labels /\ Armed(l) /\ now >= active[l].deadline
        BY DEF Due, IsDue
      <4>2. pledge[l].deadline = active[l].deadline /\ pledge[l] # NoPledge
        BY <4>1 DEF NumberInv
      <4> QED
        BY <4>1, <4>2, <1>e DEF Miss
    <3>2. \A n \in Batch : n \notin answered
      BY <3>1, <1>m DEF AnswerInv
    <3> QED
      BY <1>2, <2>1, <2>3, <3>1, <3>2
  <2> QED
    BY <1>3, <2>2, <2>3 DEF Poll
<1>4. CASE AlertDone
  <2>1. /\ now' = now /\ pledge' = pledge /\ episode' = episode /\ answered' = answered
        /\ \A k \in Labels : Armed(k)' => Armed(k)
    BY <1>4 DEF AlertDone, ghosts, Armed
  <2>2. CASE Sleep
    BY <1>2, <2>1, <2>2 DEF Sleep
  <2>3. ASSUME NEW m \in collected, StartAlert(m, collected \ {m})
        PROVE  AnswerInv'
    <3>1. \A n \in collected : n \notin answered /\ (n = Cur(n.label) => ~ Ahead(n.label))
      BY <1>e, <1>m DEF AnswerInv, NoFalseAlarm
    <3> QED
      BY <1>2, <2>1, <2>3, <3>1, <1>e
  <2> QED
    BY <1>4, <2>2, <2>3 DEF AlertDone
<1>5. CASE Tick
  <2>1. now' = now + 1 /\ UNCHANGED <<active, alarms, collected, pledge, episode, answered>>
    BY <1>5 DEF Tick, loopVars, ghosts
  <2>2. \A k \in Labels : Ahead(k)' => Ahead(k)
    BY <2>1, <1>e
  <2> QED
    BY <2>1, <2>2 DEF AnswerInv, NoFalseAlarm, Armed
<1>6. CASE UNCHANGED vars
  BY <1>6 DEF vars, AnswerInv, NoFalseAlarm, Armed
<1>7. CASE Restart
  <2>1. /\ now' = now /\ pledge' = pledge /\ episode' = episode /\ answered' = answered
        /\ alarms' = alarms /\ collected' = {}
        /\ \A k \in Labels : Armed(k)' => Armed(k)
    BY <1>7 DEF Restart, ghosts, Armed
  <2> QED
    BY <1>2, <2>1
<1> QED
  BY <1>1, <1>3, <1>4, <1>5, <1>6, <1>7, StepCases

\* A check-in answered, cancelled or replaced before its deadline never raises an
\* alarm, however the calls interleave with the loop and its restarts.
THEOREM AnsweredIsSafe == Spec => []NoFalseAlarm
<1>1. Init => NumberInv /\ OrderInv /\ AnswerInv
  BY DEF Init, DeadManInit, NumberInv, OrderInv, AnswerInv, AlarmedOnceInOrder, NoFalseAlarm,
         Armed, Unfired, Elements
<1>2. AnswerInv => NoFalseAlarm
  BY DEF AnswerInv
<1> QED
  BY <1>1, <1>2, TypeCorrect, NumberStep, OrderStep, AnswerStep, PTL DEF Spec
-----------------------------------------------------------------------------
\* The latency bound.  What a client arms is not fired and not overdue.

LEMMA ClientArms ==
    ASSUME TypeOK, NEW l \in Labels,
           \/ \E i \in Intervals, r \in BOOLEAN : ApiArm(l, i, r)
           \/ ApiCheckIn(l)
           \/ ApiCancel(l)
    PROVE  Armed(l)' => Unfired(l)' /\ now <= active'[l].deadline
<1>1. ASSUME NEW i \in Intervals, NEW r \in BOOLEAN, ApiArm(l, i, r)
      PROVE  Unfired(l)' /\ now <= active'[l].deadline
  <2>1. active'[l] = [deadline   |-> now + i,
                      interval_s |-> IF r THEN i ELSE NotRecurring,
                      fired      |-> FALSE]
    BY <1>1 DEF ApiArm, Arm, TypeOK, DeadManTypeOK
  <2>2. i \in Nat /\ now + i \in Nat /\ now <= now + i
    BY DEF TypeOK, DeadManTypeOK
  <2>3. /\ active'[l] \in [deadline : Nat, interval_s : Nat \cup {NotRecurring}, fired : BOOLEAN]
        /\ ~ active'[l].fired
        /\ active'[l].deadline = now + i
    BY <2>1, <2>2
  <2> QED
    BY <2>2, <2>3 DEF Unfired, Armed
<1>2. ASSUME ApiCheckIn(l)
      PROVE  Armed(l)' => Unfired(l)' /\ now <= active'[l].deadline
  <2>1. active[l] \in CheckIn
    BY <1>2, ArmedIsCheckIn DEF ApiCheckIn, CheckInArmed
  <2>2. CASE Rearms(l)
    <3>1. active[l].interval_s \in Intervals
      BY <2>1, <2>2 DEF CheckIn, Rearms
    <3>2. active[l].interval_s \in Nat
      BY <3>1
    <3>4. active'[l] = [active[l] EXCEPT !.deadline = now + active[l].interval_s, !.fired = FALSE]
      BY <1>2, <2>2 DEF ApiCheckIn, CheckInArmed, TypeOK, DeadManTypeOK
    <3>5. now + active[l].interval_s \in Nat /\ now <= now + active[l].interval_s
      BY <3>2 DEF TypeOK, DeadManTypeOK
    <3>6. active'[l] \in CheckIn /\ active'[l].deadline = now + active[l].interval_s /\ ~ active'[l].fired
      BY <2>1, <3>4, <3>5 DEF CheckIn
    <3>7. active'[l] # Unarmed
      BY <3>6 DEF CheckIn
    <3> QED
      BY <3>5, <3>6, <3>7 DEF Unfired, Armed
  <2>3. CASE ~ Rearms(l)
    BY <1>2, <2>3 DEF ApiCheckIn, CheckInArmed, Armed, TypeOK, DeadManTypeOK
  <2> QED
    BY <2>2, <2>3
<1>3. ASSUME ApiCancel(l)
      PROVE  ~ Armed(l)'
  BY <1>3 DEF ApiCancel, CancelArmed, Armed, TypeOK, DeadManTypeOK
<1> QED
  BY <1>1, <1>2, <1>3 DEF Unfired

\* What is left of a batch time when c of n alerts are still waiting.
LEMMA BatchLeft ==
    ASSUME NEW n \in Nat, NEW c \in Nat, c < n
    PROVE  /\ (n - c) * MaxAlert \in Nat
           /\ n * MaxAlert \in Nat
           /\ MaxAlert <= (n - c) * MaxAlert
           /\ (n - c) * MaxAlert <= n * MaxAlert
           /\ c > 0 => (n - c) * MaxAlert <= n * MaxAlert - MaxAlert
           /\ c > 0 => (n - c) * MaxAlert + MaxAlert = (n - (c - 1)) * MaxAlert
  OBVIOUS

\* A poll collects at most one episode for each label.
LEMMA BatchSize ==
    IsFiniteSet(Batch) /\ Cardinality(Batch) <= Cardinality(Labels)
<1> DEFINE f == [l \in Due |-> [label |-> l, episode |-> episode[l]]]
<1>1. IsFiniteSet(Due) /\ Cardinality(Due) <= Cardinality(Labels)
  <2>1. Due \in SUBSET Labels
    BY DEF Due
  <2> QED
    BY <2>1, FS_Subset
<1>2. f \in Surjection(Due, Batch)
  BY DEF Batch, Surjection
<1>3. IsFiniteSet(Batch) /\ Cardinality(Batch) <= Cardinality(Due)
  BY <1>1, <1>2, FS_Surjection
<1> QED
  BY <1>1, <1>3, FS_CardinalityType

LEMMA LatencyStep == TypeOK /\ NumberInv /\ LatencyInv /\ [Next]_vars => LatencyInv'
<1> SUFFICES ASSUME TypeOK, NumberInv, LatencyInv, [Next]_vars PROVE LatencyInv'
  OBVIOUS
<1> DEFINE N == Cardinality(Labels)
           Cur(l) == [label |-> l, episode |-> episode[l]]
           Kept(l) == /\ Unfired(l) => lastPoll <= active[l].deadline
                      /\ Armed(l) /\ active[l].fired =>
                            \/ episode[l] \in Elements(alarms[l])
                            \/ /\ Cur(l) \in collected
                               /\ lastPoll <= active[l].deadline + BatchTime + PollPeriod
<1>n. /\ N \in Nat /\ MaxAlert \in Nat /\ PollPeriod \in Nat
      /\ now \in Nat /\ lastPoll \in Nat /\ loopBy \in Nat /\ Cardinality(collected) \in Nat
      /\ N * MaxAlert \in Nat /\ BatchTime = N * MaxAlert
      /\ lastPoll <= now /\ now <= loopBy
  <2>1. N \in Nat /\ Cardinality(collected) \in Nat
    BY FS_CardinalityType DEF LatencyInv
  <2> QED
    BY <2>1 DEF LatencyInv, TypeOK, DeadManTypeOK, BatchTime
<1>k. \A l \in Labels : Kept(l)
  BY DEF LatencyInv
<1>1. ASSUME NEW l \in Labels,
             \/ \E i \in Intervals, r \in BOOLEAN : ApiArm(l, i, r)
             \/ ApiCheckIn(l)
             \/ ApiCancel(l)
      PROVE  LatencyInv'
  <2>1. ClientStep(l)
    BY <1>1, ClientCalls
  <2>2. Armed(l)' => Unfired(l)' /\ now <= active'[l].deadline
    BY <1>1, ClientArms
  <2>3. UNCHANGED <<now, loop, loopBy, collected, alarms, lastPoll>>
    BY <2>1 DEF ClientStep, loopVars
  <2>5. ASSUME NEW k \in Labels
        PROVE  Kept(k)'
    <3>1. CASE k = l
      <4>1. Armed(l)' => active'[l].deadline \in Nat
        BY TypeStep DEF TypeOK, DeadManTypeOK, CheckIn, Armed
      <4> QED
        BY <3>1, <2>2, <2>3, <4>1, <1>n DEF Unfired
    <3>2. CASE k # l
      BY <3>2, <2>1, <2>3, <1>k DEF ClientStep, Unfired, Armed, BatchTime
    <3> QED
      BY <3>1, <3>2
  <2> QED
    BY <2>3, <2>5 DEF LatencyInv, BatchTime
<1>2. CASE Poll
  <2>1. /\ loop = "sleeping" /\ lastPoll' = now /\ now' = now
        /\ pledge' = pledge /\ episode' = episode
    BY <1>2 DEF Poll, ghosts
  <2>2. \A k \in Labels : /\ Armed(k)' <=> Armed(k)
                          /\ Armed(k) => active'[k].deadline = active[k].deadline
                          /\ Unfired(k)' <=> Unfired(k) /\ ~ IsDue(k)
    BY <1>2, MarkFiredKeeps DEF Poll
  <2>4. /\ loopBy <= lastPoll + N * MaxAlert + PollPeriod
        /\ collected = {}
    BY <2>1, <1>n DEF LatencyInv
  <2>5. \A k \in Labels : Armed(k) => active[k].deadline \in Nat
    BY DEF TypeOK, DeadManTypeOK, CheckIn, Armed
  \* What is not collected by this poll is due later, or was alarmed before.
  <2>6. ASSUME NEW k \in Labels, Unfired(k)'
        PROVE  now <= active'[k].deadline
    BY <2>2, <2>5, <2>6, <1>n DEF IsDue, Unfired
  <2>7. ASSUME NEW k \in Labels, Armed(k)', active'[k].fired
        PROVE  \/ episode[k] \in Elements(alarms[k])
               \/ /\ Cur(k) \in Batch
                  /\ now <= active'[k].deadline + N * MaxAlert + PollPeriod
    <3>1. CASE Unfired(k)
      <4>1. IsDue(k)
        BY <2>2, <2>7, <3>1 DEF Unfired
      <4>2. Cur(k) \in Batch
        BY <4>1 DEF Batch, Due
      <4>3. lastPoll <= active[k].deadline
        BY <3>1, <1>k
      <4>4. active'[k].deadline = active[k].deadline /\ active[k].deadline \in Nat
        BY <2>2, <2>5, <2>7
      <4> QED
        BY <4>2, <4>3, <4>4, <2>4, <1>n
    <3>2. CASE ~ Unfired(k)
      BY <2>2, <2>4, <2>7, <3>2, <1>k DEF Unfired
    <3> QED
      BY <3>1, <3>2
  <2>8. CASE Batch = {} /\ Sleep
    <3>1. \A k \in Labels : Kept(k)'
      BY <2>1, <2>6, <2>7, <2>8 DEF Sleep
    <3>2. /\ collected' = {} /\ IsFiniteSet(collected') /\ loop' = "sleeping"
          /\ loopBy' = now + PollPeriod
      BY <2>8, FS_EmptySet DEF Sleep
    <3> QED
      BY <2>1, <3>1, <3>2, <1>n DEF LatencyInv, BatchTime
  <2>9. ASSUME NEW m \in Batch, StartAlert(m, Batch \ {m})
        PROVE  LatencyInv'
    <3>1. /\ collected' = Batch \ {m} /\ loop' = "alerting"
          /\ loopBy' = now + MaxAlert
      BY <2>9 DEF StartAlert
    <3>2. /\ IsFiniteSet(collected') /\ Cardinality(collected') \in Nat
          /\ Cardinality(collected') < N
      <4>1. IsFiniteSet(Batch) /\ Cardinality(Batch) <= N /\ Cardinality(Batch) \in Nat
        BY BatchSize, FS_CardinalityType
      <4>2. /\ IsFiniteSet(Batch \ {m})
            /\ Cardinality(Batch \ {m}) = Cardinality(Batch) - 1
            /\ Cardinality(Batch \ {m}) \in Nat
        BY <4>1, FS_RemoveElement, FS_CardinalityType
      <4> QED
        BY <3>1, <4>1, <4>2, <1>n
    <3>3. MaxAlert <= (N - Cardinality(collected')) * MaxAlert
      BY <3>2, <1>n, BatchLeft
    <3>4. (N - Cardinality(collected')) * MaxAlert \in Nat
      BY <3>2, <1>n, BatchLeft
    <3>5. m \in Miss /\ m = Cur(m.label)
      BY DEF Batch, Due, Miss, TypeOK
    <3>6. /\ Elements(alarms'[m.label]) = Elements(alarms[m.label]) \cup {m.episode}
          /\ \A l \in Labels \ {m.label} : alarms'[l] = alarms[l]
      BY <2>9, <3>5, AlertElements
    <3>7. \A k \in Labels : Kept(k)'
      BY <2>1, <2>6, <2>7, <3>1, <3>5, <3>6 DEF BatchTime
    <3>8. loopBy' <= lastPoll' + (N - Cardinality(collected')) * MaxAlert
      BY <2>1, <3>1, <3>3, <3>4, <1>n
    <3>9. now <= loopBy'
      BY <3>1, <1>n
    <3> QED
      BY <2>1, <3>1, <3>2, <3>7, <3>8, <3>9, <1>n DEF LatencyInv, BatchTime
  <2> QED
    BY <1>2, <2>8, <2>9 DEF Poll
<1>3. CASE AlertDone
  <2>1. /\ loop = "alerting" /\ lastPoll' = lastPoll /\ now' = now
        /\ pledge' = pledge /\ episode' = episode /\ active' = active
    BY <1>3 DEF AlertDone, ghosts
  <2>3. /\ IsFiniteSet(collected) /\ Cardinality(collected) < N
        /\ loopBy <= lastPoll + (N - Cardinality(collected)) * MaxAlert
    BY <2>1 DEF LatencyInv
  <2>4. /\ (N - Cardinality(collected)) * MaxAlert \in Nat
        /\ (N - Cardinality(collected)) * MaxAlert <= N * MaxAlert
    BY <2>3, <1>n, BatchLeft
  <2>5. CASE collected = {} /\ Sleep
    <3>1. /\ collected' = {} /\ IsFiniteSet(collected') /\ loop' = "sleeping"
          /\ loopBy' = now + PollPeriod /\ alarms' = alarms
      BY <2>5, FS_EmptySet DEF Sleep
    <3>2. \A k \in Labels : Kept(k)'
      BY <2>1, <2>5, <3>1, <1>k DEF Unfired, Armed, BatchTime
    <3>3. loopBy' <= lastPoll' + N * MaxAlert + PollPeriod /\ now <= loopBy'
      BY <2>1, <2>3, <2>4, <3>1, <1>n
    <3> QED
      BY <2>1, <3>1, <3>2, <3>3, <1>n DEF LatencyInv, BatchTime
  <2>6. ASSUME NEW m \in collected, StartAlert(m, collected \ {m})
        PROVE  LatencyInv'
    <3>1. /\ collected' = collected \ {m} /\ loop' = "alerting"
          /\ loopBy' = now + MaxAlert
      BY <2>6 DEF StartAlert
    <3>2. /\ IsFiniteSet(collected') /\ Cardinality(collected') = Cardinality(collected) - 1
          /\ Cardinality(collected) > 0
      BY <2>3, <3>1, <1>n, FS_RemoveElement, FS_EmptySet
    <3>3. (N - Cardinality(collected)) * MaxAlert + MaxAlert
             = (N - Cardinality(collected')) * MaxAlert
      BY <2>3, <3>2, <1>n, BatchLeft
    <3>4. m \in Miss
      BY DEF TypeOK
    <3>5. /\ Elements(alarms'[m.label]) = Elements(alarms[m.label]) \cup {m.episode}
          /\ \A l \in Labels \ {m.label} : alarms'[l] = alarms[l]
      BY <2>6, <3>4, AlertElements
    <3>6. \A k \in Labels : Kept(k)'
      BY <2>1, <3>1, <3>5, <1>k DEF Unfired, Armed, BatchTime
    <3>7. loopBy' <= lastPoll' + (N - Cardinality(collected')) * MaxAlert
      <4>1. loopBy' <= lastPoll + ((N - Cardinality(collected)) * MaxAlert + MaxAlert)
        BY <2>1, <2>3, <2>4, <3>1, <1>n
      <4> QED
        BY <2>1, <3>3, <4>1
    <3>8. now <= loopBy' /\ Cardinality(collected') < N
      BY <2>3, <3>1, <3>2, <1>n
    <3> QED
      BY <2>1, <3>1, <3>2, <3>6, <3>7, <3>8, <1>n DEF LatencyInv, BatchTime
  <2> QED
    BY <1>3, <2>5, <2>6 DEF AlertDone
<1>4. CASE Tick
  BY <1>4, <1>n DEF Tick, LatencyInv, loopVars, ghosts, Unfired, Armed, BatchTime
<1>5. CASE Restart
  <2>1. /\ \A l \in Labels : ~ Armed(l)'
        /\ collected' = {} /\ IsFiniteSet(collected') /\ loop' = "sleeping"
        /\ loopBy' = now /\ now' = now /\ lastPoll' = lastPoll
    BY <1>5, FS_EmptySet DEF Restart, Armed
  <2>2. now <= lastPoll + N * MaxAlert + PollPeriod
    <3>1. CASE loop = "sleeping"
      BY <3>1, <1>n DEF LatencyInv
    <3>2. CASE loop = "alerting"
      <4>1. /\ Cardinality(collected) < N
            /\ loopBy <= lastPoll + (N - Cardinality(collected)) * MaxAlert
        BY <3>2 DEF LatencyInv
      <4>2. /\ (N - Cardinality(collected)) * MaxAlert \in Nat
            /\ (N - Cardinality(collected)) * MaxAlert <= N * MaxAlert
        BY <4>1, <1>n, BatchLeft
      <4> QED
        BY <4>1, <4>2, <1>n
    <3> QED
      BY <3>1, <3>2 DEF TypeOK
  <2> QED
    BY <2>1, <2>2, <1>n DEF LatencyInv, BatchTime, Unfired
<1>6. CASE UNCHANGED vars
  BY <1>6 DEF vars, LatencyInv, Unfired, Armed, BatchTime
<1> QED
  BY <1>1, <1>2, <1>3, <1>4, <1>5, <1>6 DEF Next

\* A check-in that is still armed has been alarmed when its deadline is more than
\* Window ago.
LEMMA LatencyBound == TypeOK /\ NumberInv /\ LatencyInv => MissedIsAlarmed
<1> SUFFICES ASSUME TypeOK, NumberInv, LatencyInv, NEW l \in Labels,
                    Armed(l), now > active[l].deadline + Window
             PROVE  episode[l] \in Elements(alarms[l])
  BY DEF MissedIsAlarmed
<1> DEFINE N == Cardinality(Labels)
<1>1. /\ N \in Nat /\ Cardinality(collected) \in Nat /\ N > 0
      /\ now \in Nat /\ lastPoll \in Nat /\ loopBy \in Nat
      /\ N * MaxAlert \in Nat /\ MaxAlert <= N * MaxAlert
  <2>1. N \in Nat /\ Cardinality(collected) \in Nat /\ N # 0
    BY FS_CardinalityType, FS_EmptySet DEF LatencyInv
  <2>2. N > 0
    BY <2>1
  <2>3. N * MaxAlert \in Nat /\ MaxAlert <= N * MaxAlert
    BY <2>1, <2>2
  <2> QED
    BY <2>1, <2>2, <2>3 DEF TypeOK, DeadManTypeOK
<1>2. active[l].deadline \in Nat
  BY DEF TypeOK, DeadManTypeOK, CheckIn, Armed
<1>3. Window = PollPeriod + N * MaxAlert + N * MaxAlert - MaxAlert
  BY DEF Window, BatchTime
\* Not collected yet: the loop would be past the end of its cycle.
<1>4. ASSUME Unfired(l)
      PROVE  FALSE
  <2>1. lastPoll <= active[l].deadline
    BY <1>4 DEF LatencyInv
  <2>2. loopBy <= lastPoll + N * MaxAlert + PollPeriod
    <3>1. CASE loop = "sleeping"
      BY <3>1, <1>1 DEF LatencyInv, BatchTime
    <3>2. CASE loop = "alerting"
      <4>1. /\ Cardinality(collected) < N
            /\ loopBy <= lastPoll + (N - Cardinality(collected)) * MaxAlert
        BY <3>2 DEF LatencyInv
      <4>2. /\ (N - Cardinality(collected)) * MaxAlert \in Nat
            /\ (N - Cardinality(collected)) * MaxAlert <= N * MaxAlert
        BY <4>1, <1>1, BatchLeft
      <4> QED
        BY <4>1, <4>2, <1>1
    <3> QED
      BY <3>1, <3>2 DEF TypeOK
  <2> QED
    BY <2>1, <2>2, <1>1, <1>2, <1>3 DEF LatencyInv
\* Waiting in the batch: the alerts before it would have run out of time.
<1>5. ASSUME [label |-> l, episode |-> episode[l]] \in collected,
             lastPoll <= active[l].deadline + BatchTime + PollPeriod
      PROVE  FALSE
  <2>1. loop = "alerting" /\ Cardinality(collected) > 0
    BY <1>1, <1>5, FS_EmptySet DEF LatencyInv, TypeOK
  <2>2. /\ Cardinality(collected) < N
        /\ loopBy <= lastPoll + (N - Cardinality(collected)) * MaxAlert
    BY <2>1 DEF LatencyInv
  <2>3. /\ (N - Cardinality(collected)) * MaxAlert \in Nat
        /\ (N - Cardinality(collected)) * MaxAlert <= N * MaxAlert - MaxAlert
    BY <2>1, <2>2, <1>1, BatchLeft
  <2>4. now <= loopBy /\ lastPoll <= active[l].deadline + N * MaxAlert + PollPeriod
    BY <1>5 DEF LatencyInv, BatchTime
  <2> QED
    BY <2>2, <2>3, <2>4, <1>1, <1>2, <1>3
<1> QED
  BY <1>2, <1>4, <1>5 DEF LatencyInv, Unfired

\* A check-in that is armed and not answered is alarmed within Window of its
\* deadline, for any number of labels, any poll period, any duration of an alert
\* and any number of restarts.
THEOREM MissIsAlarmed == Spec => []MissedIsAlarmed
<1>1. Init => NumberInv /\ LatencyInv
  <2> SUFFICES ASSUME Init PROVE NumberInv /\ LatencyInv
    OBVIOUS
  <2>1. BatchTime \in Nat
    BY FS_CardinalityType DEF BatchTime
  <2> QED
    BY <2>1, FS_EmptySet
    DEF Init, DeadManInit, NumberInv, LatencyInv, Armed, Unfired
<1> QED
  BY <1>1, LatencyStep, LatencyBound, TypeCorrect, NumberStep, PTL DEF Spec
-----------------------------------------------------------------------------
\* What the client was told is armed stays armed until it is resolved, on a node
\* that is not restarted and when no client asks for a recurring check-in with
\* the interval 0.
LEMMA PledgeStep ==
    ASSUME MaxRestarts = 0, 0 \notin Intervals
    PROVE  TypeOK /\ PledgeIsArmed /\ [Next]_vars => PledgeIsArmed'
<1> SUFFICES ASSUME TypeOK, PledgeIsArmed, [Next]_vars PROVE PledgeIsArmed'
  OBVIOUS
<1>1. ASSUME NEW l \in Labels,
             \/ \E i \in Intervals, r \in BOOLEAN : ApiArm(l, i, r)
             \/ ApiCheckIn(l)
             \/ ApiCancel(l)
      PROVE  PledgeIsArmed'
  <2>1. ClientStep(l)
    BY <1>1, ClientCalls
  <2>2. pledge'[l] # NoPledge => Armed(l)'
    <3>1. CASE \E i \in Intervals, r \in BOOLEAN : ApiArm(l, i, r)
      <4>1. PICK i \in Intervals, r \in BOOLEAN : ApiArm(l, i, r)
        BY <3>1
      <4>2. i \in Nat /\ now + i \in Nat
        BY DEF TypeOK, DeadManTypeOK
      <4>3. active'[l] = [deadline   |-> now + i,
                          interval_s |-> IF r THEN i ELSE NotRecurring,
                          fired      |-> FALSE]
        BY <4>1 DEF ApiArm, Arm, TypeOK, DeadManTypeOK
      <4>4. active'[l] \in [deadline : Nat, interval_s : Nat \cup {NotRecurring},
                            fired : BOOLEAN]
        BY <4>2, <4>3
      <4> QED
        BY <4>4 DEF Armed
    <3>2. CASE ApiCheckIn(l)
      <4>1. active[l] \in CheckIn
        BY <3>2, ArmedIsCheckIn DEF ApiCheckIn, CheckInArmed
      <4>2. CASE active[l].interval_s # NotRecurring
        <5>1. active[l].interval_s \in Intervals /\ active[l].interval_s # 0
          BY <4>1, <4>2 DEF CheckIn
        <5>2. Rearms(l)
          BY <4>2, <5>1 DEF Rearms
        <5>3. active'[l] = [active[l] EXCEPT !.deadline = now + active[l].interval_s,
                                             !.fired = FALSE]
          BY <3>2, <5>2 DEF ApiCheckIn, CheckInArmed, TypeOK, DeadManTypeOK
        <5>4. active[l].interval_s \in Nat
          BY <5>1
        <5>5. now + active[l].interval_s \in Nat
          BY <5>4 DEF TypeOK, DeadManTypeOK
        <5>6. active'[l] \in CheckIn
          BY <4>1, <5>3, <5>5 DEF CheckIn
        <5> QED
          BY <5>6 DEF Armed, CheckIn
      <4>3. CASE active[l].interval_s = NotRecurring
        BY <3>2, <4>3 DEF ApiCheckIn, Release, TypeOK
      <4> QED
        BY <4>2, <4>3
    <3>3. CASE ApiCancel(l)
      BY <3>3 DEF ApiCancel, Release, TypeOK
    <3> QED
      BY <1>1, <3>1, <3>2, <3>3
  <2> QED
    BY <2>1, <2>2 DEF ClientStep, PledgeIsArmed, Armed
<1>2. CASE Poll
  BY <1>2, MarkFiredKeeps DEF Poll, PledgeIsArmed, ghosts
<1>3. CASE AlertDone \/ Tick \/ UNCHANGED vars
  BY <1>3 DEF AlertDone, Tick, vars, PledgeIsArmed, Armed, ghosts
<1>4. CASE Restart
  BY <1>4 DEF Restart, TypeOK
<1> QED
  BY <1>1, <1>2, <1>3, <1>4 DEF Next

\* "If you don't check in before the deadline, it auto-triggers a duress alert":
\* under these two conditions the client's view holds, too.  A restart forgets what
\* is promised.
THEOREM PromiseIsKept ==
    ASSUME MaxRestarts = 0, 0 \notin Intervals
    PROVE  Spec => []PledgeIsKept
<1>1. Init => NumberInv /\ PledgeIsArmed
  BY DEF Init, DeadManInit, NumberInv, PledgeIsArmed, Armed
<1>2. TypeOK /\ PledgeIsArmed /\ [Next]_vars => PledgeIsArmed'
  BY PledgeStep
<1>3. TypeOK /\ NumberInv /\ PledgeIsArmed /\ MissedIsAlarmed => PledgeIsKept
  BY DEF NumberInv, PledgeIsArmed, MissedIsAlarmed, PledgeIsKept
<1> QED
  BY <1>1, <1>2, <1>3, MissIsAlarmed, TypeCorrect, NumberStep, PTL DEF Spec
-----------------------------------------------------------------------------
\* The refinement of CheckInPromise.  Episodes are counted from 1.
CountInv ==
    /\ \A l \in Labels : pledge[l] # NoPledge => episode[l] >= 1
    /\ \A m \in collected : m.episode >= 1

LEMMA CountStep == TypeOK /\ NumberInv /\ CountInv /\ [Next]_vars => CountInv'
<1> SUFFICES ASSUME TypeOK, NumberInv, CountInv, [Next]_vars PROVE CountInv'
  OBVIOUS
<1>1. ASSUME NEW l \in Labels, ClientStep(l) PROVE CountInv'
  <2>1. episode[l] \in Nat /\ collected' = collected
    BY <1>1 DEF TypeOK, ClientStep, loopVars
  <2>2. pledge'[l] # NoPledge => episode'[l] >= 1
    BY <1>1, <2>1 DEF ClientStep
  <2> QED
    BY <1>1, <2>1, <2>2 DEF ClientStep, CountInv
<1>2. CASE Poll
  <2>1. ASSUME NEW m \in Batch PROVE m.episode >= 1
    <3>1. PICK l \in Due : m = [label |-> l, episode |-> episode[l]]
      BY DEF Batch
    <3>2. l \in Labels /\ pledge[l] # NoPledge
      BY DEF Due, IsDue, NumberInv
    <3> QED
      BY <3>1, <3>2 DEF CountInv
  <2>2. collected' \subseteq Batch
    BY <1>2 DEF Poll, Sleep, StartAlert
  <2> QED
    BY <1>2, <2>1, <2>2 DEF Poll, ghosts, CountInv
<1>3. CASE AlertDone
  BY <1>3 DEF AlertDone, Sleep, StartAlert, ghosts, CountInv
<1>4. CASE Tick \/ Restart \/ UNCHANGED vars
  BY <1>4 DEF Tick, Restart, vars, ghosts, loopVars, CountInv
<1> QED
  BY <1>1, <1>2, <1>3, <1>4, StepCases

\* What the abstract specification sees of a label.
LEMMA StandingIs ==
    ASSUME NEW l \in Labels
    PROVE  /\ Armed(l) => Standing[l] = pledge[l]
           /\ ~ Armed(l) => Standing[l] = NoPledge
  BY DEF Standing

LEMMA AlarmedIs ==
    ASSUME NEW l, NEW e
    PROVE  Promised!Alarmed(l, e) <=> e \in Elements(alarms[l])
  BY DEF Promised!Alarmed, Elements

\* What the invariants say of the batch: what is collected is not alarmed yet, and
\* the deadline is over if the check-in is armed.
LEMMA BatchIsMissed ==
    ASSUME TypeOK, NumberInv, OrderInv, AnswerInv, NEW l \in Labels, Armed(l),
           Current(l) \in collected
    PROVE  Promised!Missed(l) /\ Standing[l].episode = episode[l]
<1>1. Standing[l] = pledge[l] /\ pledge[l] # NoPledge /\ pledge[l].episode = episode[l]
  BY StandingIs DEF NumberInv
<1>2. episode[l] \notin Elements(alarms[l])
  <2>1. Current(l).label = l /\ Current(l).episode = episode[l] /\ episode[l] \in Nat
    BY DEF Current, TypeOK
  <2> QED
    BY <2>1 DEF OrderInv
<1>3. now >= pledge[l].deadline
  <2>1. pledge[l].deadline \in Nat /\ now \in Nat
    BY <1>1 DEF TypeOK, DeadManTypeOK
  <2>2. ~ (now < pledge[l].deadline)
    BY <1>1 DEF AnswerInv, Current
  <2> QED
    BY <2>1, <2>2
<1> QED
  BY <1>1, <1>2, <1>3, AlarmedIs DEF Promised!Missed, Promised!Outstanding

\* A client's call leaves the alarms on their way as they are, or adds its own.
LEMMA CallResolves ==
    ASSUME TypeOK, NumberInv, OrderInv, AnswerInv, NEW l \in Labels, ClientStep(l),
           Armed(l)' => pledge'[l] # NoPledge
    PROVE  Promised!Resolve(l)
<1>1. /\ now' = now /\ alarms' = alarms /\ collected' = collected
      /\ \A k \in Labels \ {l} : Armed(k)' = Armed(k) /\ Current(k)' = Current(k)
  BY DEF ClientStep, loopVars, Armed, Current
\* The new episode is not in the batch.
<1>2. ASSUME Armed(l)' PROVE Current(l)' \notin collected
  <2>1. episode'[l] = episode[l] + 1 /\ episode[l] \in Nat
    BY <1>2 DEF ClientStep, TypeOK
  <2>2. Current(l)'.label = l /\ Current(l)'.episode = episode[l] + 1
    BY <2>1 DEF Current
  <2>3. \A m \in collected : m.label = l => m.episode <= episode[l] /\ m.episode \in Nat
    BY DEF OrderInv, TypeOK, Miss
  <2> QED
    BY <2>1, <2>2, <2>3
<1>3. \A k, j \in Labels : Current(k) = Current(j) => k = j
  BY DEF Current
<1>4. CASE Armed(l) /\ Current(l) \in collected
  <2>1. Promised!Missed(l) /\ Standing[l].episode = episode[l]
    BY <1>4, BatchIsMissed
  <2>2. Late' = Late \cup {Current(l)}
    BY <1>1, <1>2, <1>3, <1>4 DEF Late
  <2> QED
    BY <1>1, <2>1, <2>2 DEF Promised!Resolve, Current
<1>5. CASE ~ (Armed(l) /\ Current(l) \in collected)
  <2>1. Late' = Late
    BY <1>1, <1>2, <1>5 DEF Late
  <2> QED
    BY <1>1, <2>1 DEF Promised!Resolve
<1> QED
  BY <1>4, <1>5

\* Where an interval of 0 is never asked for, a recurring check-in that is answered
\* is armed again: a call is a promise or a release.
LEMMA CallKeepsPromise ==
    ASSUME 0 \notin Intervals, TypeOK, NumberInv, OrderInv, AnswerInv, NEW l \in Labels,
           \/ \E i \in Intervals, r \in BOOLEAN : ApiArm(l, i, r)
           \/ ApiCheckIn(l)
           \/ ApiCancel(l)
    PROVE  Promised!Promise(l) \/ Promised!Release(l)
<1>1. ClientStep(l)
  BY ClientCalls
<1>2. Promised!Resolve(l)
  BY <1>1, CallResolves DEF ClientStep
<1>3. \A k \in Labels \ {l} : Standing'[k] = Standing[k]
  BY <1>1 DEF ClientStep, Standing, Armed
<1>4. /\ Standing \in [Labels -> [episode : Nat, deadline : Nat] \cup {NoPledge}]
      /\ DOMAIN Standing' = Labels
  BY DEF Standing, TypeOK
\* The call promises a deadline d from now.
<1>5. ASSUME NEW d \in Intervals, Promise(l, now + d), Armed(l)'
      PROVE  Promised!Promise(l)
  <2>1. /\ episode' = [episode EXCEPT ![l] = @ + 1]
        /\ pledge'[l] = [episode |-> episode[l] + 1, deadline |-> now + d]
    BY <1>5 DEF Promise, TypeOK
  <2>2. Standing'[l] = [episode |-> episode[l] + 1, deadline |-> now + d]
    BY <1>5, <2>1 DEF Standing
  <2>3. Standing' = [Standing EXCEPT ![l] = [episode |-> episode[l] + 1,
                                             deadline |-> now + d]]
    <3> DEFINE s == Standing
               new == [episode |-> episode[l] + 1, deadline |-> now + d]
    <3>1. DOMAIN s' = Labels /\ s'[l] = new /\ \A k \in Labels \ {l} : s'[k] = s[k]
      BY <1>3, <1>4, <2>2
    <3>2. s' = [k \in Labels |-> s'[k]]
      BY DEF Standing
    <3>3. s = [k \in Labels |-> s[k]]
      BY DEF Standing
    <3> HIDE DEF s, new
    <3>4. s' = [s EXCEPT ![l] = new]
      BY <3>1, <3>2, <3>3
    <3> QED
      BY <3>4 DEF s, new
  <2> QED
    BY <1>2, <2>1, <2>3 DEF Promised!Promise
\* The call ends the promise.
<1>6. ASSUME Armed(l), ~ Armed(l)', episode' = episode
      PROVE  Promised!Release(l)
  <2>1. Standing[l] # NoPledge /\ Standing'[l] = NoPledge
    BY <1>6, StandingIs DEF NumberInv, Standing
  <2>2. Standing' = [Standing EXCEPT ![l] = NoPledge]
    <3> DEFINE s == Standing
    <3>1. DOMAIN s' = Labels /\ s'[l] = NoPledge /\ \A k \in Labels \ {l} : s'[k] = s[k]
      BY <1>3, <1>4, <2>1
    <3>2. s' = [k \in Labels |-> s'[k]]
      BY DEF Standing
    <3>3. s = [k \in Labels |-> s[k]]
      BY DEF Standing
    <3> HIDE DEF s
    <3>4. s' = [s EXCEPT ![l] = NoPledge]
      BY <3>1, <3>2, <3>3
    <3> QED
      BY <3>4 DEF s
  <2> QED
    BY <1>2, <1>6, <2>1, <2>2 DEF Promised!Release
<1>7. ASSUME NEW i \in Intervals, NEW r \in BOOLEAN, ApiArm(l, i, r)
      PROVE  Promised!Promise(l)
  <2>1. i \in Nat /\ now + i \in Nat
    BY DEF TypeOK, DeadManTypeOK
  <2>2. active'[l] = [deadline   |-> now + i,
                      interval_s |-> IF r THEN i ELSE NotRecurring,
                      fired      |-> FALSE]
    BY <1>7 DEF ApiArm, Arm, TypeOK, DeadManTypeOK
  <2>3. active'[l] \in [deadline : Nat, interval_s : Nat \cup {NotRecurring},
                        fired : BOOLEAN]
    BY <2>1, <2>2
  <2>4. Armed(l)'
    BY <2>3 DEF Armed
  <2> QED
    BY <1>5, <1>7, <2>4 DEF ApiArm
<1>8. ASSUME ApiCheckIn(l)
      PROVE  Promised!Promise(l) \/ Promised!Release(l)
  <2>1. active[l] \in CheckIn /\ Armed(l)
    BY <1>8, ArmedIsCheckIn DEF ApiCheckIn, CheckInArmed
  <2>2. CASE active[l].interval_s # NotRecurring
    <3>1. active[l].interval_s \in Intervals /\ active[l].interval_s # 0
      BY <2>1, <2>2 DEF CheckIn
    <3>2. active'[l] = [active[l] EXCEPT !.deadline = now + active[l].interval_s,
                                         !.fired = FALSE]
      BY <1>8, <2>2, <3>1 DEF ApiCheckIn, CheckInArmed, Rearms, TypeOK, DeadManTypeOK
    <3>3. now + active[l].interval_s \in Nat
      <4>1. active[l].interval_s \in Nat
        BY <3>1
      <4> QED
        BY <4>1 DEF TypeOK, DeadManTypeOK
    <3>4. active'[l] \in CheckIn
      BY <2>1, <3>2, <3>3 DEF CheckIn
    <3>5. Armed(l)'
      BY <3>4 DEF Armed, CheckIn
    <3>6. Promise(l, now + active[l].interval_s)
      BY <1>8, <2>2 DEF ApiCheckIn
    <3> QED
      BY <1>5, <3>1, <3>5, <3>6
  <2>3. CASE active[l].interval_s = NotRecurring
    <3>1. ~ Armed(l)' /\ episode' = episode
      BY <1>8, <2>3
      DEF ApiCheckIn, CheckInArmed, Rearms, Release, Armed, TypeOK, DeadManTypeOK
    <3> QED
      BY <1>6, <2>1, <3>1
  <2> QED
    BY <2>2, <2>3
<1>9. ASSUME ApiCancel(l)
      PROVE  Promised!Release(l)
  <2>1. Armed(l) /\ ~ Armed(l)' /\ episode' = episode
    BY <1>9 DEF ApiCancel, CancelArmed, Release, Armed, TypeOK, DeadManTypeOK
  <2> QED
    BY <1>6, <2>1
<1> QED
  BY <1>7, <1>8, <1>9

\* Every step of the loop and of its clients is one of the promise, or none.
LEMMA PromiseStep ==
    ASSUME 0 \notin Intervals, TypeOK, NumberInv, OrderInv, AnswerInv, CountInv,
           MissedIsAlarmed', [Next]_vars
    PROVE  [Promised!Next]_(Promised!vars)
<1>1. ASSUME NEW l \in Labels,
             \/ \E i \in Intervals, r \in BOOLEAN : ApiArm(l, i, r)
             \/ ApiCheckIn(l)
             \/ ApiCancel(l)
      PROVE  Promised!Next
  BY <1>1, CallKeepsPromise DEF Promised!Next
\* An alert raised for a label, of what the batch has of it.
<1>2. ASSUME NEW m \in Miss, NEW rest, StartAlert(m, rest),
             m.episode \in 1 .. episode[m.label],
             m.episode \notin Elements(alarms[m.label]),
             \/ Promised!Missed(m.label) /\ m.episode = Standing[m.label].episode
             \/ m \in Late,
             Late' = Late \ {m}, Standing' = Standing, now' = now, episode' = episode
      PROVE  Promised!Next
  <2>1. m.label \in Labels /\ m = [label |-> m.label, episode |-> m.episode]
    BY DEF Miss
  <2>2. alarms' = [alarms EXCEPT ![m.label] = Append(@, m.episode)]
    BY <1>2 DEF StartAlert
  <2>3. ~ Promised!Alarmed(m.label, m.episode)
    BY <1>2, AlarmedIs
  <2>4. Promised!Raise(m.label)
    BY <1>2, <2>1, <2>2, <2>3 DEF Promised!Raise
  <2> QED
    BY <2>1, <2>4 DEF Promised!Next
<1>3. CASE Poll
  <2>1. /\ now' = now /\ pledge' = pledge /\ episode' = episode /\ MarkFired
        /\ collected = {}
        /\ \/ Sleep
           \/ \E m \in Batch : StartAlert(m, Batch \ {m})
    BY <1>3 DEF Poll, ghosts, OrderInv
  <2>2. \A l \in Labels : Armed(l)' = Armed(l)
    <3>1. \A l \in Labels : Armed(l)' <=> Armed(l)
      BY <2>1, MarkFiredKeeps
    <3> QED
      BY <3>1 DEF Armed
  <2>3. Standing' = Standing
    BY <2>1, <2>2, Zenon DEF Standing
  <2>4. Late = {} /\ (collected' \subseteq Batch => Late' = {})
    <3>1. ASSUME NEW m \in Batch
          PROVE  m \in {Current(l) : l \in {k \in Labels : Armed(k)}}'
      <4>1. PICK l \in Due : m = [label |-> l, episode |-> episode[l]]
        BY DEF Batch
      <4>2. l \in Labels /\ Armed(l) /\ m = Current(l)'
        BY <2>1, <4>1 DEF Due, IsDue, Current
      <4> QED
        BY <2>2, <4>2
    <3> QED
      BY <2>1, <3>1 DEF Late
  <2>5. CASE Sleep
    BY <2>1, <2>3, <2>4, <2>5 DEF Sleep, Promised!vars
  <2>6. ASSUME NEW m \in Batch, StartAlert(m, Batch \ {m}) PROVE Promised!Next
    <3>1. PICK l \in Due : m = [label |-> l, episode |-> episode[l]]
      BY DEF Batch
    <3>2. /\ l \in Labels /\ Armed(l) /\ Unfired(l) /\ now >= active[l].deadline
          /\ episode[l] \in Nat
      BY DEF Due, IsDue, Unfired, TypeOK
    <3>3. /\ Standing[l] = pledge[l] /\ pledge[l] # NoPledge
          /\ pledge[l].episode = episode[l] /\ pledge[l].deadline = active[l].deadline
      BY <3>2, StandingIs DEF NumberInv
    <3>4. episode[l] \notin Elements(alarms[l]) /\ episode[l] \in 1 .. episode[l]
      BY <3>2, <3>3 DEF OrderInv, CountInv
    <3>5. Promised!Missed(l)
      BY <3>2, <3>3, <3>4, AlarmedIs DEF Promised!Missed, Promised!Outstanding
    <3>6. m \in Miss /\ m.label = l /\ m.episode = episode[l]
      BY <3>1, <3>2 DEF Miss
    <3>7. Late' = Late \ {m}
      BY <2>4, <2>6 DEF StartAlert
    <3> QED
      BY <1>2, <2>1, <2>3, <2>6, <3>3, <3>4, <3>5, <3>6, <3>7
  <2> QED
    BY <2>1, <2>5, <2>6
<1>4. CASE AlertDone
  <2>1. /\ now' = now /\ active' = active /\ pledge' = pledge /\ episode' = episode
        /\ \/ collected = {} /\ Sleep
           \/ \E m \in collected : StartAlert(m, collected \ {m})
    BY <1>4 DEF AlertDone, ghosts
  <2>2. /\ Standing' = Standing
        /\ {Current(l) : l \in {k \in Labels : Armed(k)}}'
             = {Current(l) : l \in {k \in Labels : Armed(k)}}
    BY <2>1 DEF Standing, Current, Armed
  <2>3. CASE collected = {} /\ Sleep
    <3>1. collected' = collected /\ alarms' = alarms
      BY <2>3 DEF Sleep
    <3>2. Late' = Late
      BY <2>2, <3>1 DEF Late
    <3> QED
      BY <2>1, <2>2, <3>1, <3>2 DEF Promised!vars
  <2>4. ASSUME NEW m \in collected, StartAlert(m, collected \ {m}) PROVE Promised!Next
    <3>1. m \in Miss /\ m.label \in Labels /\ m.episode \in Nat /\ episode[m.label] \in Nat
      BY DEF TypeOK, Miss
    <3>2. m.episode \in 1 .. episode[m.label] /\ m.episode \notin Elements(alarms[m.label])
      BY <3>1 DEF OrderInv, CountInv
    <3>3. Late' = Late \ {m}
      <4>1. collected' = collected \ {m}
        BY <2>4 DEF StartAlert
      <4> QED
        BY <2>2, <4>1 DEF Late
    <3>4. \/ Promised!Missed(m.label) /\ m.episode = Standing[m.label].episode
          \/ m \in Late
      <4>1. CASE m \in Late
        BY <4>1
      <4>2. CASE m \notin Late
        <5>1. PICK l \in Labels : Armed(l) /\ m = Current(l)
          BY <4>2 DEF Late
        <5>2. m.label = l /\ m.episode = episode[l]
          BY <5>1 DEF Current
        <5> QED
          BY <5>1, <5>2, BatchIsMissed
      <4> QED
        BY <4>1, <4>2
    <3> QED
      BY <1>2, <2>1, <2>2, <2>4, <3>1, <3>2, <3>3, <3>4
  <2> QED
    BY <2>1, <2>3, <2>4
<1>5. CASE Tick
  <2>1. /\ now' = now + 1 /\ active' = active /\ pledge' = pledge /\ episode' = episode
        /\ alarms' = alarms /\ collected' = collected
    BY <1>5 DEF Tick, ghosts, loopVars
  <2>2. Standing' = Standing /\ Late' = Late
    BY <2>1 DEF Standing, Late, Current, Armed
  <2>3. ASSUME NEW l \in Labels, Promised!Outstanding(l)
        PROVE  now < Standing[l].deadline + Window
    <3>1. /\ Standing[l] # NoPledge
          /\ Standing[l].episode \notin Elements(alarms[l])
      BY <2>3, AlarmedIs DEF Promised!Outstanding
    <3>2. Armed(l) /\ Standing[l] = pledge[l]
      BY <3>1, StandingIs
    <3>3. /\ pledge[l].episode = episode[l] /\ pledge[l].deadline = active[l].deadline
          /\ active[l].deadline \in Nat /\ now \in Nat
      BY <3>1, <3>2, ArmedIsCheckIn DEF NumberInv, CheckIn, TypeOK, DeadManTypeOK
    <3>4. ~ (now + 1 > active[l].deadline + Window)
      BY <2>1, <3>1, <3>2, <3>3 DEF MissedIsAlarmed, Armed
    <3>5. Window \in Int
      <4>1. Cardinality(Labels) \in Nat
        BY FS_CardinalityType
      <4> QED
        BY <4>1 DEF Window, BatchTime
    <3> QED
      BY <3>2, <3>3, <3>4, <3>5
  <2>4. Promised!Tick
    BY <2>1, <2>2, <2>3 DEF Promised!Tick
  <2> QED
    BY <2>4 DEF Promised!Next
<1>6. CASE Restart
  <2>1. /\ now' = now /\ episode' = episode /\ alarms' = alarms /\ collected' = {}
        /\ active' = [l \in Labels |-> Unarmed]
    BY <1>6 DEF Restart, ghosts
  <2>2. Standing' = [l \in Labels |-> NoPledge] /\ Late' = {}
    BY <2>1 DEF Standing, Late, Armed
  <2>3. Promised!Forget
    BY <2>1, <2>2 DEF Promised!Forget
  <2> QED
    BY <2>3 DEF Promised!Next
<1>7. CASE UNCHANGED vars
  BY <1>7 DEF vars, Promised!vars, Standing, Late, Current, Armed
<1> QED
  BY <1>1, <1>3, <1>4, <1>5, <1>6, <1>7 DEF Next

\* The loop with its polls, its batches and the clients that call in between does what
\* CheckInPromise promises, for any number of labels, any periods and durations, with
\* restarts.  The hypothesis excludes the check-in of which check_in() says that it is
\* armed again and which is deleted.
THEOREM LoopKeepsPromise ==
    ASSUME 0 \notin Intervals
    PROVE  Spec => KeepsPromise
<1>1. Init => Promised!Init
  BY DEF Init, DeadManInit, Promised!Init, Standing, Late, Armed
<1>2. TypeOK /\ NumberInv /\ OrderInv /\ AnswerInv /\ CountInv /\ MissedIsAlarmed'
        /\ [Next]_vars => [Promised!Next]_(Promised!vars)
  BY PromiseStep
<1>3. Init => NumberInv /\ OrderInv /\ AnswerInv /\ CountInv
  BY DEF Init, DeadManInit, NumberInv, OrderInv, AnswerInv, CountInv, NoFalseAlarm,
         AlarmedOnceInOrder, Armed, Unfired, Elements
<1> QED
  BY <1>1, <1>2, <1>3, TypeCorrect, MissIsAlarmed, NumberStep, OrderStep, AnswerStep,
     CountStep, PTL DEF Spec, KeepsPromise, Promised!Spec
=============================================================================
