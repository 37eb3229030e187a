------------------------ MODULE MeshRegistry_proofs ------------------------
(***************************************************************************)
(* Theorems about the registry of the mesh, for every set of nodes, every  *)
(* configuration of peers and every choice of the periods and timeouts.    *)
(***************************************************************************)
EXTENDS MeshRegistry, TLAPS

USE RegistryAssumption DEF RegistryAssumption

\* The number of peers a node is configured with, and who they are.
LEMMA PeersAreNodes ==
    ASSUME NEW n \in Nodes
    PROVE  /\ Len(PeersOf[n]) \in Nat
           /\ DOMAIN PeersOf[n] = 1 .. Len(PeersOf[n])
           /\ \A i \in 1 .. Len(PeersOf[n]) : PeersOf[n][i] \in Nodes
  OBVIOUS

\* The stages of a heartbeat depend on the configuration only.
LEMMA StagesFixed == \A k \in Nodes : Stages(k)' = Stages(k)
  BY DEF Stages

\* Where the heartbeat of a node goes on, the variables keep their types.
LEMMA GoOnTypes ==
    ASSUME TypeOK, NEW n \in Nodes, NEW s \in 1 .. Len(PeersOf[n]) + 1, GoOn(n, s)
    PROVE  /\ stage' \in [Nodes -> Nat]
           /\ \A k \in Nodes : stage'[k] \in Stages(k)
           /\ wakeBy' \in [Nodes -> Nat]
           /\ hellos' \subseteq Hello
<1>1. /\ Len(PeersOf[n]) \in Nat
      /\ s \in Nat /\ s <= Len(PeersOf[n]) + 1
  <2>1. Len(PeersOf[n]) \in Nat
    BY PeersAreNodes
  <2> QED
    BY <2>1
<1>2. /\ stage \in [Nodes -> Nat] /\ \A k \in Nodes : stage[k] \in Stages(k)
      /\ wakeBy \in [Nodes -> Nat] /\ hellos \subseteq Hello /\ now \in Nat
  BY DEF TypeOK
<1>3. stage' = [stage EXCEPT ![n] = s]
  BY DEF GoOn
<1>4. stage' \in [Nodes -> Nat]
  BY <1>1, <1>2, <1>3
<1>5. ASSUME NEW k \in Nodes
      PROVE  stage'[k] \in Stages(k)
  <2>1. CASE k = n
    <3>1. stage'[k] = s
      BY <1>2, <1>3, <2>1
    <3>2. s \in Stages(n)
      BY <1>1 DEF Stages
    <3> QED
      BY <2>1, <3>1, <3>2
  <2>2. CASE k # n
    BY <1>2, <1>3, <2>2
  <2> QED
    BY <2>1, <2>2
<1>6. CASE s <= Len(PeersOf[n])
  <2>1. /\ wakeBy' = [wakeBy EXCEPT ![n] = now + GreetMax]
        /\ hellos' = hellos \cup {[from |-> n, to |-> PeersOf[n][s], made |-> now]}
    BY <1>6 DEF GoOn
  <2>2. wakeBy' \in [Nodes -> Nat]
    BY <1>2, <2>1
  <2>3. PeersOf[n][s] \in Nodes
    BY <1>1, <1>6, PeersAreNodes
  <2>4. hellos' \subseteq Hello
    BY <1>2, <2>1, <2>3, SMTT(60) DEF Hello
  <2> QED
    BY <1>4, <1>5, <2>2, <2>4
<1>7. CASE ~ (s <= Len(PeersOf[n]))
  <2>1. wakeBy' = [wakeBy EXCEPT ![n] = now + Period] /\ hellos' = hellos
    BY <1>7 DEF GoOn
  <2>2. wakeBy' \in [Nodes -> Nat]
    BY <1>2, <2>1
  <2> QED
    BY <1>2, <1>4, <1>5, <2>1, <2>2
<1> QED
  BY <1>6, <1>7

\* Every step keeps the types.
LEMMA TypeStep == TypeOK /\ [Next]_vars => TypeOK'
<1> SUFFICES ASSUME TypeOK, [Next]_vars PROVE TypeOK'
  OBVIOUS
<1>1. ASSUME NEW n \in Nodes, Start(n) PROVE TypeOK'
  <2>1. Len(PeersOf[n]) \in Nat
    BY PeersAreNodes
  <2>2. 0 \in Stages(n)
    BY <2>1 DEF Stages
  <2>3. missed' \in [Nodes -> [Nodes -> 0 .. MaxMissed]]
    BY <1>1 DEF Start, TypeOK
  <2> QED
    BY <1>1, <2>2, <2>3, StagesFixed DEF Start, TypeOK
<1>2. ASSUME NEW n \in Nodes, Stop(n) PROVE TypeOK'
  BY <1>2, StagesFixed DEF Stop, TypeOK
<1>3. ASSUME NEW n \in Nodes, Refreshed(n) PROVE TypeOK'
  <2>1. 1 \in 1 .. Len(PeersOf[n]) + 1
    BY PeersAreNodes
  <2> QED
    BY <1>3, <2>1, GoOnTypes DEF Refreshed, TypeOK, Stages
<1>4. ASSUME NEW n \in Nodes, Greeted(n) PROVE TypeOK'
  <2>1. /\ Len(PeersOf[n]) \in Nat
        /\ stage[n] \in 1 .. Len(PeersOf[n])
        /\ PeersOf[n][stage[n]] \in Nodes
    BY <1>4, PeersAreNodes DEF Greeted, Greeting
  <2>2. stage[n] + 1 \in 1 .. Len(PeersOf[n]) + 1
    BY <2>1, SMTT(60)
  <2>3. missed' \in [Nodes -> [Nodes -> 0 .. MaxMissed]]
    <3>1. HelloOf(n).to \in Nodes
      BY <2>1 DEF HelloOf
    <3>2. missed \in [Nodes -> [Nodes -> 0 .. MaxMissed]]
      BY DEF TypeOK
    <3>3. CASE UNCHANGED missed
      BY <3>2, <3>3
    <3>4. CASE /\ missed[n][HelloOf(n).to] < MaxMissed
               /\ missed' = [missed EXCEPT ![n][HelloOf(n).to] = @ + 1]
      <4>1. missed[n][HelloOf(n).to] + 1 \in 0 .. MaxMissed
        BY <3>1, <3>2, <3>4
      <4> QED
        BY <3>1, <3>2, <3>4, <4>1
    <3> QED
      BY <1>4, <3>3, <3>4 DEF Greeted
  <2> QED
    BY <1>4, <2>2, <2>3, GoOnTypes, StagesFixed DEF Greeted, TypeOK
<1>5. ASSUME NEW n \in Nodes, Awake(n) PROVE TypeOK'
  <2>1. Len(PeersOf[n]) \in Nat
    BY PeersAreNodes
  <2>2. 0 \in Stages(n)
    BY <2>1 DEF Stages
  <2> QED
    BY <1>5, <2>2, StagesFixed DEF Awake, TypeOK
<1>6. ASSUME NEW h \in hellos, Receive(h) PROVE TypeOK'
  <2>1. h.from \in Nodes /\ h.to \in Nodes
    BY DEF TypeOK, Hello
  <2>2. lastSeen' \in [Nodes -> [Nodes -> Nat \cup {Unknown}]]
    BY <1>6, <2>1 DEF Receive, Upsert, TypeOK
  <2>3. missed' \in [Nodes -> [Nodes -> 0 .. MaxMissed]]
    BY <1>6, <2>1, SMTT(60) DEF Receive, TypeOK
  <2> QED
    BY <1>6, <2>2, <2>3 DEF Receive, TypeOK, Stages
<1>7. CASE Tick
  BY <1>7 DEF Tick, TypeOK, Stages
<1>8. CASE UNCHANGED vars
  BY <1>8 DEF vars, TypeOK, Stages
<1> QED
  BY <1>1, <1>2, <1>3, <1>4, <1>5, <1>6, <1>7, <1>8 DEF Next

\* The heartbeats, the greetings and the registries keep their types.
THEOREM TypeCorrect == Spec => []TypeOK
<1>1. Init => TypeOK
  BY PeersAreNodes DEF Init, TypeOK, Stages
<1> QED
  BY <1>1, TypeStep, PTL DEF Spec
-----------------------------------------------------------------------------
\* What a node that is down left behind is from before it went down.
LEMMA AgeStep == TypeOK /\ AgeInv /\ [Next]_vars => AgeInv'
<1> SUFFICES ASSUME TypeOK, AgeInv, [Next]_vars PROVE AgeInv'
  OBVIOUS
<1>0. ASSUME NEW n \in Nodes, NEW s, up[n], GoOn(n, s), UNCHANGED <<now, up, since, lastSeen>>
      PROVE  AgeInv'
  <2>1. ASSUME NEW h \in hellos'
        PROVE  h.made <= now /\ (~ up[h.from] => h.made <= since[h.from])
    <3>1. CASE h \in hellos
      BY <3>1 DEF AgeInv
    <3>2. CASE h = [from |-> n, to |-> PeersOf[n][s], made |-> now]
      BY <1>0, <3>2 DEF TypeOK
    <3> QED
      BY <1>0, <2>1, <3>1, <3>2 DEF GoOn
  <2> QED
    BY <1>0, <2>1 DEF AgeInv
<1>1. ASSUME NEW n \in Nodes, Start(n) PROVE AgeInv'
  BY <1>1 DEF Start, AgeInv, TypeOK, Hello
<1>2. ASSUME NEW n \in Nodes, Stop(n) PROVE AgeInv'
  <2>1. \A k \in Nodes : since'[k] <= now'
    BY <1>2 DEF Stop, AgeInv, TypeOK
  <2>2. ASSUME NEW h \in hellos
        PROVE  h.made <= now /\ (~ up'[h.from] => h.made <= since'[h.from])
    <3>1. h.from \in Nodes /\ h.made \in Nat
      BY DEF TypeOK, Hello
    <3> QED
      BY <1>2, <3>1 DEF Stop, AgeInv, TypeOK
  <2>3. ASSUME NEW k \in Nodes, NEW m \in Nodes, lastSeen'[m][k] # Unknown
        PROVE  /\ lastSeen'[m][k] <= now
               /\ ~ up'[k] => lastSeen'[m][k] <= since'[k] + Lateness
    <3>1. m # n /\ lastSeen'[m][k] = lastSeen[m][k]
      BY <1>2, <2>3 DEF Stop, TypeOK
    <3>2. lastSeen[m][k] \in Nat
      BY <2>3, <3>1 DEF TypeOK
    <3>3. lastSeen[m][k] <= now /\ (~ up[k] => lastSeen[m][k] <= since[k] + Lateness)
      BY <2>3, <3>1 DEF AgeInv
    <3> QED
      BY <1>2, <3>1, <3>2, <3>3, SMTT(60) DEF Stop, TypeOK
  <2> QED
    BY <1>2, <2>1, <2>2, <2>3 DEF Stop, AgeInv
<1>3. ASSUME NEW n \in Nodes, Refreshed(n) PROVE AgeInv'
  BY <1>0, <1>3 DEF Refreshed
<1>4. ASSUME NEW n \in Nodes, Greeted(n) PROVE AgeInv'
  BY <1>0, <1>4 DEF Greeted, Greeting
<1>5. ASSUME NEW n \in Nodes, Awake(n) PROVE AgeInv'
  BY <1>5 DEF Awake, AgeInv
<1>6. ASSUME NEW h \in hellos, Receive(h) PROVE AgeInv'
  <2>1. h.from \in Nodes /\ h.to \in Nodes /\ h.made \in Nat
    BY DEF TypeOK, Hello
  <2>2. ~ up[h.from] => now <= since[h.from] + Lateness
    BY <1>6, <2>1, SMTT(60) DEF Receive, AgeInv, TypeOK
  <2>3. ASSUME NEW k \in Nodes, NEW m \in Nodes, lastSeen'[m][k] # Unknown
        PROVE  /\ lastSeen'[m][k] <= now
               /\ ~ up[k] => lastSeen'[m][k] <= since[k] + Lateness
    <3>1. CASE lastSeen'[m][k] = lastSeen[m][k]
      BY <2>3, <3>1 DEF AgeInv
    <3>2. CASE k = h.from /\ m = h.to /\ lastSeen'[m][k] = now
      BY <2>2, <3>2 DEF TypeOK
    <3> QED
      BY <1>6, <2>1, <3>1, <3>2 DEF Receive, Upsert, TypeOK
  <2> QED
    BY <1>6, <2>3 DEF Receive, AgeInv
<1>7. CASE Tick
  <2>1. now' = now + 1 /\ hellos' \subseteq hellos /\ UNCHANGED <<up, since, lastSeen>>
    BY <1>7 DEF Tick
  <2>2. \A k \in Nodes : since'[k] <= now'
    BY <2>1 DEF AgeInv, TypeOK
  <2>3. ASSUME NEW h \in hellos'
        PROVE  h.made <= now' /\ (~ up'[h.from] => h.made <= since'[h.from])
    BY <2>1, SMTT(60) DEF AgeInv, TypeOK, Hello
  <2>4. ASSUME NEW k \in Nodes, NEW m \in Nodes, lastSeen'[m][k] # Unknown
        PROVE  /\ lastSeen'[m][k] <= now'
               /\ ~ up'[k] => lastSeen'[m][k] <= since'[k] + Lateness
    <3>1. lastSeen[m][k] \in Nat
      BY <2>1, <2>4 DEF TypeOK
    <3> QED
      BY <2>1, <2>4, <3>1, SMTT(60) DEF AgeInv, TypeOK
  <2> QED
    BY <2>2, <2>3, <2>4 DEF AgeInv
<1>8. CASE UNCHANGED vars
  BY <1>8 DEF vars, AgeInv
<1> QED
  BY <1>1, <1>2, <1>3, <1>4, <1>5, <1>6, <1>7, <1>8 DEF Next

\* A node that does not run is no longer listed when its last greetings are stale
\* and three heartbeats have passed, whatever the network has delivered since.
THEOREM AgesOut == Spec => []DownAgesOut
<1>1. Init => AgeInv
  BY DEF Init, AgeInv
<1>2. TypeOK /\ AgeInv => DownAgesOut
  <2> SUFFICES ASSUME TypeOK, AgeInv, NEW n \in Nodes, NEW m \in Nodes,
                      ~ up[n], now > since[n] + Lateness + Ttl, Listed(m, n)
               PROVE  FALSE
    BY DEF DownAgesOut
  <2>1. lastSeen[m][n] \in Nat /\ since[n] \in Nat /\ now \in Nat /\ Ttl \in Nat
    BY DEF Listed, TypeOK, Ttl
  <2>2. lastSeen[m][n] <= since[n] + Lateness
    BY DEF Listed, AgeInv
  <2>3. now - lastSeen[m][n] <= Ttl
    BY DEF Listed
  <2> QED
    BY <2>1, <2>2, <2>3
<1> QED
  BY <1>1, <1>2, TypeCorrect, AgeStep, PTL DEF Spec
-----------------------------------------------------------------------------
\* No await of a heartbeat is overdue, nor longer than it may be.
LEMMA PaceStep == TypeOK /\ PaceInv /\ [Next]_vars => PaceInv'
<1> SUFFICES ASSUME TypeOK, PaceInv, [Next]_vars, NEW k \in Nodes, up'[k]
             PROVE  now' <= wakeBy'[k] /\ wakeBy'[k] <= now' + WaitMax(k)'
  BY DEF PaceInv
<1>0. /\ Len(PeersOf[k]) \in Nat
      /\ now \in Nat /\ wakeBy[k] \in Nat /\ stage[k] \in Nat
      /\ up[k] => now <= wakeBy[k] /\ wakeBy[k] <= now + WaitMax(k)
      /\ WaitMax(k) \in Nat
  BY PeersAreNodes DEF TypeOK, PaceInv, WaitMax
<1>1. ASSUME UNCHANGED <<now, up, stage, wakeBy>>
      PROVE  now' <= wakeBy'[k] /\ wakeBy'[k] <= now' + WaitMax(k)'
  BY <1>0, <1>1 DEF WaitMax
<1>2. ASSUME NEW n \in Nodes, NEW s \in Nat \ {0}, GoOn(n, s), UNCHANGED <<now, up>>
      PROVE  now' <= wakeBy'[k] /\ wakeBy'[k] <= now' + WaitMax(k)'
  <2>1. stage' = [stage EXCEPT ![n] = s]
    BY <1>2 DEF GoOn
  <2>2. CASE k = n
    <3>1. stage'[k] = s
      BY <2>1, <2>2 DEF TypeOK
    <3>2. wakeBy'[k] = now + (IF s <= Len(PeersOf[k]) THEN GreetMax ELSE Period)
      BY <1>2, <2>2 DEF GoOn, TypeOK
    <3>3. WaitMax(k)' = IF s <= Len(PeersOf[k]) THEN GreetMax ELSE Period
      BY <3>1 DEF WaitMax
    <3> QED
      BY <1>0, <1>2, <3>2, <3>3, SMTT(60)
  <2>3. CASE k # n
    <3>1. stage'[k] = stage[k] /\ wakeBy'[k] = wakeBy[k]
      BY <1>2, <2>3 DEF GoOn, TypeOK
    <3>2. WaitMax(k)' = WaitMax(k)
      BY <3>1 DEF WaitMax
    <3> QED
      BY <1>0, <1>2, <3>1, <3>2
  <2> QED
    BY <2>2, <2>3
<1>3. ASSUME NEW n \in Nodes, Start(n)
      PROVE  now' <= wakeBy'[k] /\ wakeBy'[k] <= now' + WaitMax(k)'
  <2>1. CASE k = n
    <3>1. stage'[k] = 0 /\ wakeBy'[k] = now + RefreshMax /\ now' = now
      BY <1>3, <2>1 DEF Start, TypeOK
    <3> QED
      BY <1>0, <3>1 DEF WaitMax
  <2>2. CASE k # n
    <3>1. stage'[k] = stage[k] /\ wakeBy'[k] = wakeBy[k] /\ up'[k] = up[k] /\ now' = now
      BY <1>3, <2>2 DEF Start, TypeOK
    <3> QED
      BY <1>0, <3>1 DEF WaitMax
  <2> QED
    BY <2>1, <2>2
<1>4. ASSUME NEW n \in Nodes, Stop(n)
      PROVE  now' <= wakeBy'[k] /\ wakeBy'[k] <= now' + WaitMax(k)'
  <2>1. up[k]
    BY <1>4 DEF Stop, TypeOK
  <2> QED
    BY <1>0, <1>4, <2>1 DEF Stop, WaitMax
<1>5. ASSUME NEW n \in Nodes, Refreshed(n)
      PROVE  now' <= wakeBy'[k] /\ wakeBy'[k] <= now' + WaitMax(k)'
  BY <1>2, <1>5 DEF Refreshed
<1>6. ASSUME NEW n \in Nodes, Greeted(n)
      PROVE  now' <= wakeBy'[k] /\ wakeBy'[k] <= now' + WaitMax(k)'
  <2>1. stage[n] + 1 \in Nat \ {0}
    BY SMTT(60) DEF TypeOK
  <2> QED
    BY <1>2, <1>6, <2>1 DEF Greeted
<1>7. ASSUME NEW n \in Nodes, Awake(n)
      PROVE  now' <= wakeBy'[k] /\ wakeBy'[k] <= now' + WaitMax(k)'
  <2>1. CASE k = n
    <3>1. stage'[k] = 0 /\ wakeBy'[k] = now + RefreshMax /\ now' = now
      BY <1>7, <2>1 DEF Awake, TypeOK
    <3> QED
      BY <1>0, <3>1 DEF WaitMax
  <2>2. CASE k # n
    <3>1. stage'[k] = stage[k] /\ wakeBy'[k] = wakeBy[k] /\ up'[k] = up[k] /\ now' = now
      BY <1>7, <2>2 DEF Awake, TypeOK
    <3> QED
      BY <1>0, <3>1 DEF WaitMax
  <2> QED
    BY <2>1, <2>2
<1>8. ASSUME NEW h \in hellos, Receive(h)
      PROVE  now' <= wakeBy'[k] /\ wakeBy'[k] <= now' + WaitMax(k)'
  BY <1>1, <1>8 DEF Receive
<1>9. CASE Tick
  <2>1. now < wakeBy[k] /\ now' = now + 1 /\ wakeBy' = wakeBy /\ stage' = stage /\ up[k]
    BY <1>9 DEF Tick
  <2>2. WaitMax(k)' = WaitMax(k)
    BY <2>1 DEF WaitMax
  <2> QED
    BY <1>0, <2>1, <2>2
<1>10. CASE UNCHANGED vars
  BY <1>1, <1>10 DEF vars
<1> QED
  BY <1>3, <1>4, <1>5, <1>6, <1>7, <1>8, <1>9, <1>10 DEF Next

\* The little arithmetic of products that the bounds need.
LEMMA Products ==
    ASSUME NEW a \in Nat, NEW b \in Nat, NEW c \in Nat
    PROVE  /\ a * c \in Nat
           /\ (a + 1) * c = a * c + c
           /\ a <= b => a * c <= b * c
           /\ 0 * c = 0
  BY SMTT(30)

\* A little arithmetic, in the forms in which the steps need it.
LEMMA Increments ==
    ASSUME NEW a \in Nat, NEW b \in Nat
    PROVE  a + 1 \in Nat /\ a + 1 # a /\ (a <= b => a + 1 <= b + 1)
  OBVIOUS

LEMMA Slack ==
    ASSUME NEW d \in Int, NEW e \in Int, NEW x \in Int, NEW p \in Int, NEW q \in Int,
           NEW D \in Int, d <= x + p, e <= d + D, p + D <= q
    PROVE  e <= x + q
  OBVIOUS

LEMMA AsleepIsSoon ==
    ASSUME NEW t \in Nat, NEW w \in Nat, NEW i \in Nat, NEW p \in Nat, NEW r \in Nat,
           NEW d \in Nat, NEW g \in Nat, t <= w, w <= t + d, i <= p
    PROVE  /\ w + i + r \in Int
           /\ w <= w + i + r
           /\ w + i + r <= t + (r + p + d) + g
  OBVIOUS

LEMMA CycleIsNat ==
    ASSUME NEW n \in Nodes
    PROVE  Cycle(n) \in Nat /\ Cycle(n) = RefreshMax + Len(PeersOf[n]) * GreetMax + Period
<1> DEFINE PG == Len(PeersOf[n]) * GreetMax
<1>1. Len(PeersOf[n]) \in Nat
  BY PeersAreNodes
<1>2. PG \in Nat
  BY <1>1, Products
<1>3. Cycle(n) = RefreshMax + PG + Period
  BY DEF Cycle
<1> HIDE DEF PG
<1>4. Cycle(n) \in Nat
  BY <1>2, <1>3
<1> QED
  BY <1>4 DEF Cycle

\* A peer is greeted next not before the present await ends, and not later than a
\* cycle and a greeting from now.
DueSoon ==
    \A n \in Nodes : \A i \in 1 .. Len(PeersOf[n]) : up[n] =>
        /\ DueBy(n, i) \in Int
        /\ wakeBy[n] <= DueBy(n, i)
        /\ DueBy(n, i) <= now + Cycle(n) + GreetMax

LEMMA DueIsSoon == TypeOK /\ PaceInv => DueSoon
<1> SUFFICES ASSUME TypeOK, PaceInv, NEW n \in Nodes, NEW i \in 1 .. Len(PeersOf[n]), up[n]
             PROVE  /\ DueBy(n, i) \in Int
                    /\ wakeBy[n] <= DueBy(n, i)
                    /\ DueBy(n, i) <= now + Cycle(n) + GreetMax
  BY DEF DueSoon
<1> DEFINE P == Len(PeersOf[n])
           iG == i * GreetMax
           sG == stage[n] * GreetMax
           PG == P * GreetMax
<1>1. P \in Nat /\ i \in Nat /\ 1 <= i /\ i <= P /\ stage[n] \in Nat
  BY PeersAreNodes DEF TypeOK
<1>2. /\ iG \in Nat /\ sG \in Nat /\ PG \in Nat /\ iG <= PG
      /\ stage[n] <= i => sG <= iG
      /\ i <= stage[n] => iG <= sG
      /\ stage[n] <= P => sG <= PG
      /\ stage[n] = 0 => sG = 0
  <2>1. iG \in Nat /\ sG \in Nat /\ PG \in Nat
    BY <1>1, Products
  <2>2. iG <= PG
    BY <1>1, Products
  <2>3. stage[n] <= i => sG <= iG
    BY <1>1, Products
  <2>4. i <= stage[n] => iG <= sG
    BY <1>1, Products
  <2>5. stage[n] <= P => sG <= PG
    BY <1>1, Products
  <2>6. stage[n] = 0 => sG = 0
    BY Products
  <2> QED
    BY <2>1, <2>2, <2>3, <2>4, <2>5, <2>6
<1>3. Cycle(n) = RefreshMax + PG + Period
  BY CycleIsNat
<1>4. /\ now \in Nat /\ wakeBy[n] \in Nat
      /\ now <= wakeBy[n] /\ wakeBy[n] <= now + WaitMax(n)
  BY DEF TypeOK, PaceInv
<1>5. CASE Ahead(n, i)
  <2>1. DueBy(n, i) = wakeBy[n] + iG - sG /\ stage[n] <= i
    BY <1>1, <1>5 DEF DueBy, Ahead
  <2>2. CASE stage[n] = 0
    <3>1. WaitMax(n) = RefreshMax
      BY <2>2 DEF WaitMax
    <3> HIDE DEF P, iG, sG, PG
    <3> QED
      BY <1>2, <1>3, <1>4, <2>1, <2>2, <3>1
  <2>3. CASE stage[n] # 0
    <3>1. WaitMax(n) = GreetMax
      BY <1>1, <2>1, <2>3 DEF WaitMax
    <3> HIDE DEF P, iG, sG, PG
    <3> QED
      BY <1>2, <1>3, <1>4, <2>1, <3>1
  <2> QED
    BY <2>2, <2>3
<1>6. CASE ~ Ahead(n, i) /\ stage[n] <= P
  <2>1. DueBy(n, i) = wakeBy[n] + iG - sG + Cycle(n)
    BY <1>6 DEF DueBy
  <2>2. i <= stage[n] /\ stage[n] # 0
    BY <1>1, <1>6 DEF Ahead
  <2>3. WaitMax(n) = GreetMax
    BY <1>6, <2>2 DEF WaitMax
  <2> HIDE DEF P, iG, sG, PG
  <2> QED
    BY <1>2, <1>3, <1>4, <1>6, <2>1, <2>2, <2>3
<1>7. CASE ~ Ahead(n, i) /\ ~ (stage[n] <= P)
  <2>1. DueBy(n, i) = wakeBy[n] + iG + RefreshMax
    BY <1>7 DEF DueBy
  <2>2. WaitMax(n) = Period
    <3>1. stage[n] # 0
      BY <1>1, <1>7
    <3> QED
      BY <1>7, <3>1 DEF WaitMax
  <2> HIDE DEF P, iG, sG, PG
  <2> DEFINE w == wakeBy[n]
  <2>3. iG \in Nat /\ PG \in Nat /\ iG <= PG /\ Period \in Nat
    BY <1>2
  <2>4. now \in Nat /\ w \in Nat /\ now <= w /\ w <= now + Period
    BY <1>4, <2>2
  <2> HIDE DEF w
  <2>5. /\ w + iG + RefreshMax \in Int
        /\ w <= w + iG + RefreshMax
        /\ w + iG + RefreshMax <= now + (RefreshMax + PG + Period) + GreetMax
    BY <2>3, <2>4, AsleepIsSoon
  <2> QED
    BY <1>3, <2>1, <2>5 DEF w
<1> QED
  BY <1>5, <1>6, <1>7
-----------------------------------------------------------------------------
\* GapInv, for one node and one of its peers.
Within(n, i, m) ==
    \/ DueBy(n, i) <= since[n] + Spare(n, m)
    \/ DueBy(n, i) <= since[m] + Spare(n, m)
    \/ lastSeen[m][n] # Unknown /\ DueBy(n, i) <= lastSeen[m][n] + Spare(n, m)

GapOf(n, i, m) ==
    PeersOf[n][i] = m /\ n # m /\ up[n] /\ up[m] => Within(n, i, m)

LEMMA GapInvIsGapOf ==
    GapInv <=> \A n \in Nodes : \A i \in 1 .. Len(PeersOf[n]) : \A m \in Nodes : GapOf(n, i, m)
<1>1. \A n \in Nodes : DOMAIN PeersOf[n] = 1 .. Len(PeersOf[n])
  BY PeersAreNodes
<1>2. \A n \in Nodes : \A i \in 1 .. Len(PeersOf[n]) : PeersOf[n][i] \in Nodes
  BY PeersAreNodes
<1>3. GapInv <=> \A n \in Nodes : \A i \in 1 .. Len(PeersOf[n]) :
         n # PeersOf[n][i] /\ up[n] /\ up[PeersOf[n][i]] => Within(n, i, PeersOf[n][i])
  BY <1>1, Zenon DEF GapInv, Within
<1> QED
  BY <1>2, <1>3, Zenon DEF GapOf

\* What may be missed grows by a cycle with each miss.
SpareIsCycles ==
    \A n, m \in Nodes :
        /\ Spare(n, m) \in Nat
        /\ Cycle(n) + GreetMax <= Spare(n, m)
        /\ (missed[n][m] + 1 + 1) * Cycle(n) + GreetMax = Spare(n, m) + Cycle(n)

LEMMA SpareGrows == TypeOK => SpareIsCycles
<1> SUFFICES ASSUME TypeOK, NEW n \in Nodes, NEW m \in Nodes
             PROVE  /\ Spare(n, m) \in Nat
                    /\ Cycle(n) + GreetMax <= Spare(n, m)
                    /\ (missed[n][m] + 1 + 1) * Cycle(n) + GreetMax = Spare(n, m) + Cycle(n)
  BY DEF SpareIsCycles
<1> DEFINE a == missed[n][m] + 1
           c == Cycle(n)
           aC == a * c
<1>1. a \in Nat /\ 1 <= a /\ c \in Nat
  <2>1. missed[n][m] \in 0 .. MaxMissed
    BY DEF TypeOK
  <2> QED
    BY <2>1, CycleIsNat, SMTT(60)
<1> HIDE DEF a, c
<1>2. aC \in Nat
  BY <1>1, Products
<1>3. (a + 1) * c = aC + c
  BY <1>1, Products
<1>4. 1 * c <= aC
  BY <1>1, Products
<1>5. 1 * c = c
  BY <1>1
<1>6. Spare(n, m) = aC + GreetMax
  BY DEF Spare, a, c
<1> HIDE DEF aC
<1>7. /\ Spare(n, m) \in Nat
      /\ c + GreetMax <= Spare(n, m)
      /\ (a + 1) * c + GreetMax = Spare(n, m) + c
  BY <1>1, <1>2, <1>3, <1>4, <1>5, <1>6
<1> QED
  BY <1>7 DEF a, c

\* A node that has just started, or has just been greeted, is greeted in time.
LEMMA FreshIsWithin ==
    ASSUME TypeOK', DueSoon', SpareIsCycles', NEW n \in Nodes, NEW m \in Nodes,
           NEW i \in 1 .. Len(PeersOf[n]), up'[n],
           since'[n] = now' \/ since'[m] = now' \/ lastSeen'[m][n] = now'
    PROVE  Within(n, i, m)'
<1>1. /\ DueBy(n, i)' \in Int
      /\ DueBy(n, i)' <= now' + Cycle(n) + GreetMax
  BY DEF DueSoon, Cycle
<1>2. Spare(n, m)' \in Nat /\ Cycle(n) + GreetMax <= Spare(n, m)'
  BY DEF SpareIsCycles, Cycle
<1>3. now' \in Nat /\ now' # Unknown /\ Cycle(n) \in Nat
  BY CycleIsNat DEF TypeOK
<1>4. DueBy(n, i)' <= now' + Spare(n, m)'
  BY <1>1, <1>2, <1>3
<1> QED
  BY <1>3, <1>4 DEF Within

\* What is due no later than before, or is allowed as much more, is still timely.
LEMMA FrameIsWithin ==
    ASSUME TypeOK, DueSoon, SpareIsCycles, NEW n \in Nodes, NEW m \in Nodes,
           NEW i \in 1 .. Len(PeersOf[n]), up[n], Within(n, i, m),
           NEW D \in Nat,
           DueBy(n, i)' \in Int, DueBy(n, i)' <= DueBy(n, i) + D,
           Spare(n, m)' \in Nat, Spare(n, m) + D <= Spare(n, m)',
           since'[n] = since[n], since'[m] = since[m], lastSeen'[m][n] = lastSeen[m][n]
    PROVE  Within(n, i, m)'
<1>1. DueBy(n, i) \in Int /\ Spare(n, m) \in Nat /\ since[n] \in Nat /\ since[m] \in Nat
  BY DEF DueSoon, SpareIsCycles, TypeOK
<1>2. lastSeen[m][n] # Unknown => lastSeen[m][n] \in Nat
  BY DEF TypeOK
<1> DEFINE d == DueBy(n, i)
           e == DueBy(n, i)'
           p == Spare(n, m)
           q == Spare(n, m)'
<1>3. d \in Int /\ e \in Int /\ p \in Int /\ q \in Int /\ e <= d + D /\ p + D <= q
  BY <1>1
<1> HIDE DEF d, e, p, q
<1>4. \A x \in Int : d <= x + p => e <= x + q
  BY <1>3, Slack
<1>5. CASE DueBy(n, i) <= since[n] + Spare(n, m)
  BY <1>1, <1>4, <1>5, SMTT(60) DEF Within, d, e, p, q
<1>6. CASE DueBy(n, i) <= since[m] + Spare(n, m)
  BY <1>1, <1>4, <1>6, SMTT(60) DEF Within, d, e, p, q
<1>7. CASE lastSeen[m][n] # Unknown /\ DueBy(n, i) <= lastSeen[m][n] + Spare(n, m)
  BY <1>2, <1>4, <1>7 DEF Within, d, e, p, q
<1> QED
  BY <1>5, <1>6, <1>7 DEF Within

\* A heartbeat that has not moved is due when it was.
LEMMA DueUnchanged ==
    ASSUME NEW n \in Nodes, NEW i \in 1 .. Len(PeersOf[n]),
           stage'[n] = stage[n], wakeBy'[n] = wakeBy[n],
           stage[n] = i => (HelloOf(n) \in hellos' <=> HelloOf(n) \in hellos)
    PROVE  DueBy(n, i)' = DueBy(n, i)
<1>1. HelloOf(n)' = HelloOf(n)
  BY DEF HelloOf
<1>2. Ahead(n, i)' <=> Ahead(n, i)
  BY <1>1 DEF Ahead
<1> QED
  BY <1>2 DEF DueBy, Cycle

\* A heartbeat that goes on to its next peer, or to sleep, is not late for a peer
\* it has greeted or is still to greet; for one that missed its greeting it is a
\* cycle late.
LEMMA DueAfterGoOn ==
    ASSUME TypeOK, DueSoon, PaceInv, NEW n \in Nodes, NEW i \in 1 .. Len(PeersOf[n]),
           up[n], stage[n] <= Len(PeersOf[n]), GoOn(n, stage[n] + 1), now' = now
    PROVE  /\ DueBy(n, i)' \in Int
           /\ DueBy(n, i)' <= DueBy(n, i) + Cycle(n)
           /\ stage[n] # i \/ HelloOf(n) \notin hellos => DueBy(n, i)' <= DueBy(n, i)
<1> DEFINE P == Len(PeersOf[n])
           s == stage[n] + 1
           iG == i * GreetMax
           tG == stage[n] * GreetMax
           sG == s * GreetMax
           PG == P * GreetMax
           C == Cycle(n)
<1>1. /\ P \in Nat /\ i \in Nat /\ 1 <= i /\ i <= P
      /\ stage[n] \in Nat /\ s \in Nat /\ s <= P + 1
  <2>1. P \in Nat
    BY PeersAreNodes
  <2>2. stage[n] \in Nat /\ stage[n] <= P
    BY DEF TypeOK
  <2> QED
    BY <2>1, <2>2
<1>2. /\ now \in Nat /\ wakeBy[n] \in Nat /\ now <= wakeBy[n]
      /\ DueBy(n, i) \in Int
  <2>1. now \in Nat /\ wakeBy[n] \in Nat
    BY DEF TypeOK
  <2>2. now <= wakeBy[n]
    BY DEF PaceInv
  <2>3. DueBy(n, i) \in Int
    BY DEF DueSoon
  <2> QED
    BY <2>1, <2>2, <2>3
<1>3. iG \in Nat /\ tG \in Nat /\ PG \in Nat /\ sG = tG + GreetMax
  BY <1>1, Products
<1>4. C \in Nat /\ C = RefreshMax + PG + Period
  BY CycleIsNat
<1>5. stage'[n] = s
  BY DEF GoOn, TypeOK
<1>6. CASE s <= P
  <2>1. wakeBy'[n] = now + GreetMax
    BY <1>6 DEF GoOn, TypeOK
  <2>2. HelloOf(n)' \in hellos'
    <3>1. HelloOf(n)' = [from |-> n, to |-> PeersOf[n][s], made |-> now + GreetMax - GreetMax]
      <4> HIDE DEF s
      <4>1. HelloOf(n)' = [from |-> n, to |-> PeersOf[n][stage'[n]], made |-> wakeBy'[n] - GreetMax]
        BY DEF HelloOf
      <4>2. PeersOf[n][stage'[n]] = PeersOf[n][s]
        BY <1>5
      <4>3. wakeBy'[n] - GreetMax = now + GreetMax - GreetMax
        BY <1>2, <2>1
      <4> QED
        BY <4>1, <4>2, <4>3
    <3>2. now + GreetMax - GreetMax = now
      <4>1. \A a, b \in Nat : a + b - b = a
        OBVIOUS
      <4> QED
        BY <1>2, <4>1
    <3>3. hellos' = hellos \cup {[from |-> n, to |-> PeersOf[n][s], made |-> now]}
      BY <1>6 DEF GoOn
    <3>4. HelloOf(n)' = [from |-> n, to |-> PeersOf[n][s], made |-> now]
      BY <3>1, <3>2
    <3> QED
      BY <3>3, <3>4
  <2>3. CASE s <= i
    <3>1. Ahead(n, i)'
      BY <1>1, <1>5, <2>2, <2>3 DEF Ahead
    <3>2. DueBy(n, i)' = now + GreetMax + iG - sG
      BY <1>5, <2>1, <3>1 DEF DueBy
    <3>3. Ahead(n, i)
      BY <1>1, <2>3 DEF Ahead
    <3>4. DueBy(n, i) = wakeBy[n] + iG - tG
      BY <3>3 DEF DueBy
    <3> HIDE DEF P, s, iG, tG, sG, PG, C
    <3>5. /\ DueBy(n, i)' \in Int
          /\ DueBy(n, i)' <= DueBy(n, i)
          /\ DueBy(n, i)' <= DueBy(n, i) + C
      BY <1>2, <1>3, <1>4, <3>2, <3>4
    <3> QED
      BY <3>5 DEF C
  <2>4. CASE ~ (s <= i)
    <3>1. ~ Ahead(n, i)'
      BY <1>1, <1>5, <2>4 DEF Ahead
    <3>2. DueBy(n, i)' = now + GreetMax + iG - sG + C
      BY <1>5, <1>6, <2>1, <3>1 DEF DueBy, Cycle
    <3>3. /\ Ahead(n, i) => DueBy(n, i) = wakeBy[n] + iG - tG
          /\ ~ Ahead(n, i) => DueBy(n, i) = wakeBy[n] + iG - tG + C
      BY DEF DueBy
    <3>4. stage[n] # i \/ HelloOf(n) \notin hellos => ~ Ahead(n, i)
      BY <1>1, <2>4 DEF Ahead
    <3> HIDE DEF P, s, iG, tG, sG, PG, C
    <3>5. /\ DueBy(n, i)' \in Int
          /\ DueBy(n, i)' <= DueBy(n, i) + C
          /\ ~ Ahead(n, i) => DueBy(n, i)' <= DueBy(n, i)
      BY <1>2, <1>3, <1>4, <3>2, <3>3
    <3> QED
      BY <3>4, <3>5 DEF C
  <2> QED
    BY <2>3, <2>4
<1>7. CASE ~ (s <= P)
  <2>1. wakeBy'[n] = now + Period
    BY <1>7 DEF GoOn, TypeOK
  <2>2. stage[n] = P
    BY <1>1, <1>7
  <2>3. ~ Ahead(n, i)'
    BY <1>1, <1>5, <1>7 DEF Ahead
  <2>4. DueBy(n, i)' = now + Period + iG + RefreshMax
    BY <1>5, <1>7, <2>1, <2>3 DEF DueBy
  <2>5. /\ Ahead(n, i) => DueBy(n, i) = wakeBy[n] + iG - tG
        /\ ~ Ahead(n, i) => DueBy(n, i) = wakeBy[n] + iG - tG + C
    BY DEF DueBy
  <2>6. tG = PG
    BY <2>2
  <2>7. stage[n] # i \/ HelloOf(n) \notin hellos => ~ Ahead(n, i)
    BY <1>1, <2>2 DEF Ahead
  <2> HIDE DEF P, s, iG, tG, sG, PG, C
  <2>8. Period \in Nat
    OBVIOUS
  <2>9. /\ DueBy(n, i)' \in Int
        /\ DueBy(n, i)' <= DueBy(n, i) + C
        /\ ~ Ahead(n, i) => DueBy(n, i)' <= DueBy(n, i)
    BY <1>2, <1>3, <1>4, <2>4, <2>5, <2>6, <2>8
  <2> QED
    BY <2>7, <2>9 DEF C
<1> QED
  BY <1>6, <1>7

\* Every step keeps every peer's next greeting timely.
LEMMA GapStep ==
    ASSUME TypeOK, TypeOK', PaceInv, DueSoon, DueSoon', SpareIsCycles, SpareIsCycles',
           GapInv, [Next]_vars
    PROVE  GapInv'
<1>0. GapInv' <=>
      (\A n \in Nodes : \A i \in 1 .. Len(PeersOf[n]) : \A m \in Nodes : GapOf(n, i, m))'
  BY GapInvIsGapOf, PTL
<1> SUFFICES ASSUME NEW n \in Nodes, NEW i \in 1 .. Len(PeersOf[n]), NEW m \in Nodes,
                    PeersOf[n][i] = m, n # m, up'[n], up'[m]
             PROVE  Within(n, i, m)'
  BY <1>0 DEF GapOf
<1>1. up[n] /\ up[m] => Within(n, i, m)
  BY GapInvIsGapOf DEF GapOf
<1>2. /\ DueBy(n, i)' \in Int
      /\ Spare(n, m) \in Nat /\ Spare(n, m)' \in Nat
      /\ missed'[n][m] = missed[n][m] => Spare(n, m)' = Spare(n, m)
      /\ missed'[n][m] = missed[n][m] + 1 => Spare(n, m)' = Spare(n, m) + Cycle(n)
  <2>1. DueBy(n, i)' \in Int
    BY DEF DueSoon
  <2>2. /\ Spare(n, m) \in Nat /\ Spare(n, m)' \in Nat
        /\ (missed[n][m] + 1 + 1) * Cycle(n) + GreetMax = Spare(n, m) + Cycle(n)
    BY DEF SpareIsCycles
  <2>3. Spare(n, m)' = (missed'[n][m] + 1) * Cycle(n) + GreetMax
    BY DEF Spare, Cycle
  <2>4. Spare(n, m) = (missed[n][m] + 1) * Cycle(n) + GreetMax
    BY DEF Spare
  <2>5. missed'[n][m] = missed[n][m] => Spare(n, m)' = Spare(n, m)
    BY <2>3, <2>4
  <2>6. missed'[n][m] = missed[n][m] + 1 => Spare(n, m)' = Spare(n, m) + Cycle(n)
    BY <2>2, <2>3
  <2> QED
    BY <2>1, <2>2, <2>5, <2>6
<1>3. i \in Nat /\ Len(PeersOf[n]) \in Nat /\ 1 <= i /\ i <= Len(PeersOf[n])
  BY PeersAreNodes
\* The cases: a fresh start or greeting; nothing that concerns n and m; a heartbeat
\* of n that goes on.
<1>4. ASSUME since'[n] = now' \/ since'[m] = now' \/ lastSeen'[m][n] = now'
      PROVE  Within(n, i, m)'
  BY <1>4, FreshIsWithin
<1>5. ASSUME up[n], up[m], stage'[n] = stage[n], wakeBy'[n] = wakeBy[n],
             stage[n] = i => (HelloOf(n) \in hellos' <=> HelloOf(n) \in hellos),
             missed'[n][m] = missed[n][m],
             since'[n] = since[n], since'[m] = since[m], lastSeen'[m][n] = lastSeen[m][n]
      PROVE  Within(n, i, m)'
  <2>1. DueBy(n, i)' = DueBy(n, i)
    BY <1>5, DueUnchanged
  <2>2. DueBy(n, i)' <= DueBy(n, i) + 0 /\ Spare(n, m) + 0 <= Spare(n, m)'
    BY <1>2, <1>5, <2>1
  <2> QED
    BY <1>1, <1>2, <1>5, <2>2, FrameIsWithin
<1>6. ASSUME up[n], up[m], stage[n] <= Len(PeersOf[n]), GoOn(n, stage[n] + 1), now' = now,
             \/ missed'[n][m] = missed[n][m] /\ (stage[n] # i \/ HelloOf(n) \notin hellos)
             \/ missed'[n][m] = missed[n][m] + 1,
             since' = since, lastSeen' = lastSeen
      PROVE  Within(n, i, m)'
  <2>1. /\ DueBy(n, i)' <= DueBy(n, i) + Cycle(n)
        /\ stage[n] # i \/ HelloOf(n) \notin hellos => DueBy(n, i)' <= DueBy(n, i)
    BY <1>6, DueAfterGoOn
  <2>2. DueBy(n, i) \in Int /\ Cycle(n) \in Nat
    BY <1>6, CycleIsNat DEF DueSoon
  <2>3. CASE missed'[n][m] = missed[n][m] /\ (stage[n] # i \/ HelloOf(n) \notin hellos)
    <3>1. DueBy(n, i)' <= DueBy(n, i) + 0 /\ Spare(n, m) + 0 <= Spare(n, m)'
      BY <1>2, <2>1, <2>2, <2>3
    <3> QED
      BY <1>1, <1>2, <1>6, <3>1, FrameIsWithin
  <2>4. CASE missed'[n][m] = missed[n][m] + 1
    <3>1. Spare(n, m) + Cycle(n) <= Spare(n, m)'
      BY <1>2, <2>2, <2>4
    <3> QED
      BY <1>1, <1>2, <1>6, <2>1, <2>2, <3>1, FrameIsWithin
  <2> QED
    BY <1>6, <2>3, <2>4
<1>7. ASSUME NEW q \in Nodes, q # n, NEW s, GoOn(q, s),
             UNCHANGED <<now, up, lastSeen, since>>, missed'[n][m] = missed[n][m]
      PROVE  Within(n, i, m)'
  <2>1. stage'[n] = stage[n] /\ wakeBy'[n] = wakeBy[n]
    BY <1>7, ZenonT(60) DEF GoOn, TypeOK
  <2>2. HelloOf(n).from = n
    BY DEF HelloOf
  <2>3. HelloOf(n) \in hellos' <=> HelloOf(n) \in hellos
    BY <1>7, <2>2 DEF GoOn
  <2> QED
    BY <1>5, <1>7, <2>1, <2>3
<1>11. ASSUME NEW q \in Nodes, Start(q) PROVE Within(n, i, m)'
  <2>1. CASE q = n \/ q = m
    BY <1>4, <1>11, <2>1 DEF Start, TypeOK
  <2>2. CASE q # n /\ q # m
    <3>1. missed'[n][m] = missed[n][m]
      BY <1>11, <2>2 DEF Start, TypeOK
    <3>2. /\ up[n] /\ up[m] /\ stage'[n] = stage[n] /\ wakeBy'[n] = wakeBy[n]
          /\ since'[n] = since[n] /\ since'[m] = since[m]
          /\ hellos' = hellos /\ lastSeen' = lastSeen
      BY <1>11, <2>2 DEF Start, TypeOK
    <3> QED
      BY <1>5, <3>1, <3>2
  <2> QED
    BY <2>1, <2>2
<1>12. ASSUME NEW q \in Nodes, Stop(q) PROVE Within(n, i, m)'
  <2>1. q # n /\ q # m /\ up[n] /\ up[m]
    BY <1>12 DEF Stop, TypeOK
  <2>2. since'[n] = since[n] /\ since'[m] = since[m] /\ lastSeen'[m] = lastSeen[m]
    BY <1>12, <2>1 DEF Stop, TypeOK
  <2> QED
    BY <1>5, <1>12, <2>1, <2>2 DEF Stop
<1>13. ASSUME NEW q \in Nodes, Refreshed(q) PROVE Within(n, i, m)'
  <2>1. CASE q = n
    <3>1. stage[n] = 0 /\ GoOn(n, stage[n] + 1)
      BY <1>13, <2>1 DEF Refreshed
    <3> QED
      BY <1>3, <1>6, <1>13, <2>1, <3>1 DEF Refreshed
  <2>2. CASE q # n
    BY <1>7, <1>13, <2>2 DEF Refreshed
  <2> QED
    BY <2>1, <2>2
<1>14. ASSUME NEW q \in Nodes, Greeted(q) PROVE Within(n, i, m)'
  <2>1. missed \in [Nodes -> [Nodes -> 0 .. MaxMissed]]
    BY DEF TypeOK
  <2>2. HelloOf(q).to \in Nodes
    BY <1>14, PeersAreNodes DEF Greeted, Greeting, HelloOf
  <2>3. CASE q = n
    <3>1. up[n] /\ up[m] /\ stage[n] <= Len(PeersOf[n]) /\ GoOn(n, stage[n] + 1)
      BY <1>14, <2>3, <1>3 DEF Greeted, Greeting
    <3>2. stage[n] = i => HelloOf(n).to = m
      BY DEF HelloOf
    <3>3. \/ missed'[n][m] = missed[n][m] /\ (stage[n] # i \/ HelloOf(n) \notin hellos)
          \/ missed'[n][m] = missed[n][m] + 1
      <4>1. CASE UNCHANGED missed
        <5>1. HelloOf(n) \notin hellos \/ ~ up[HelloOf(n).to] \/ missed[n] # missed'[n]
          <6>1. ASSUME missed' = [missed EXCEPT ![n][HelloOf(n).to] = @ + 1]
                PROVE  missed[n] # missed'[n]
            <7> DEFINE k == HelloOf(n).to
            <7>1. k \in Nodes /\ missed[n][k] \in Nat
              BY <2>1, <2>2, <2>3
            <7>2. missed'[n][k] = missed[n][k] + 1
              BY <2>1, <6>1, <7>1
            <7>3. missed'[n][k] # missed[n][k]
              BY <7>1, <7>2, Increments
            <7> HIDE DEF k
            <7> QED
              BY <7>3
          <6> QED
            BY <1>14, <2>3, <6>1 DEF Greeted
        <5>2. stage[n] # i \/ HelloOf(n) \notin hellos
          BY <3>1, <3>2, <4>1, <5>1
        <5> QED
          BY <4>1, <5>2
      <4>2. CASE missed' = [missed EXCEPT ![n][HelloOf(n).to] = @ + 1]
        BY <2>1, <2>2, <2>3, <3>2, <4>2
      <4> QED
        BY <1>14, <2>3, <4>1, <4>2 DEF Greeted
    <3> QED
      BY <1>6, <1>14, <3>1, <3>3 DEF Greeted
  <2>4. CASE q # n
    <3>1. missed'[n][m] = missed[n][m]
      BY <1>14, <2>1, <2>4 DEF Greeted
    <3> QED
      BY <1>7, <1>14, <2>4, <3>1 DEF Greeted
  <2> QED
    BY <2>3, <2>4
<1>15. ASSUME NEW q \in Nodes, Awake(q) PROVE Within(n, i, m)'
  <2>1. CASE q = n
    <3>1. /\ up[n] /\ up[m] /\ stage[n] = Len(PeersOf[n]) + 1 /\ now = wakeBy[n]
          /\ stage'[n] = 0 /\ wakeBy'[n] = now + RefreshMax
          /\ UNCHANGED <<hellos, missed, since, lastSeen>>
      BY <1>15, <2>1 DEF Awake, Asleep, TypeOK
    <3>2. i * GreetMax \in Nat /\ 0 * GreetMax = 0 /\ wakeBy[n] \in Nat
      BY <1>3, Products DEF TypeOK
    <3>3. DueBy(n, i) = wakeBy[n] + i * GreetMax + RefreshMax
      BY <1>3, <3>1, SMTT(60) DEF DueBy, Ahead
    <3>4. DueBy(n, i)' = now + RefreshMax + i * GreetMax - 0 * GreetMax
      BY <1>3, <3>1 DEF DueBy, Ahead
    <3>5. DueBy(n, i)' <= DueBy(n, i) + 0
      <4> DEFINE iG == i * GreetMax
                 zG == 0 * GreetMax
      <4>1. iG \in Nat /\ zG = 0 /\ DueBy(n, i) = now + iG + RefreshMax
        BY <3>1, <3>2, <3>3
      <4>2. DueBy(n, i)' = now + RefreshMax + iG - zG /\ now \in Nat
        BY <3>1, <3>2, <3>4
      <4> HIDE DEF iG, zG
      <4> QED
        BY <4>1, <4>2
    <3>6. Spare(n, m) + 0 <= Spare(n, m)'
      BY <1>2, <3>1
    <3>7. /\ up[n] /\ Within(n, i, m)
          /\ since'[n] = since[n] /\ since'[m] = since[m] /\ lastSeen'[m][n] = lastSeen[m][n]
      BY <1>1, <3>1
    <3> QED
      BY <1>2, <3>5, <3>6, <3>7, FrameIsWithin
  <2>2. CASE q # n
    <3>1. stage'[n] = stage[n] /\ wakeBy'[n] = wakeBy[n]
      BY <1>15, <2>2 DEF Awake, TypeOK
    <3> QED
      BY <1>5, <1>15, <3>1 DEF Awake
  <2> QED
    BY <2>1, <2>2
<1>16. ASSUME NEW h \in hellos, Receive(h) PROVE Within(n, i, m)'
  <2>1. h.from \in Nodes /\ h.to \in Nodes /\ lastSeen \in [Nodes -> [Nodes -> Nat \cup {Unknown}]]
    BY DEF TypeOK, Hello
  <2>2. CASE h.from = n /\ h.to = m
    <3>1. lastSeen'[m][n] = now'
      BY <1>16, <2>1, <2>2 DEF Receive, Upsert
    <3> QED
      BY <1>4, <3>1
  <2>3. CASE ~ (h.from = n /\ h.to = m)
    <3>1. lastSeen'[m][n] = lastSeen[m][n]
      BY <1>16, <2>1, <2>3 DEF Receive, Upsert
    <3>2. missed'[n][m] = missed[n][m]
      BY <1>16, <2>1, <2>3 DEF Receive, TypeOK
    <3>3. stage[n] = i => HelloOf(n) # h
      BY <2>3 DEF HelloOf
    <3> QED
      BY <1>5, <1>16, <3>1, <3>2, <3>3 DEF Receive
  <2> QED
    BY <2>2, <2>3
<1>17. CASE Tick
  <2>1. up[n] /\ up[m] /\ now < wakeBy[n]
    BY <1>17 DEF Tick
  <2>2. now \in Nat /\ wakeBy[n] \in Nat
    BY DEF TypeOK
  <2>3. HelloOf(n).made = wakeBy[n] - GreetMax
    BY DEF HelloOf
  <2>4. now < HelloOf(n).made + Lateness
    BY <2>1, <2>2, <2>3, SMTT(60)
  <2>5. HelloOf(n) \in hellos' <=> HelloOf(n) \in hellos
    BY <1>17, <2>4 DEF Tick
  <2> QED
    BY <1>5, <1>17, <2>1, <2>5 DEF Tick
<1>18. CASE UNCHANGED vars
  BY <1>5, <1>18 DEF vars
<1> QED
  BY <1>11, <1>12, <1>13, <1>14, <1>15, <1>16, <1>17, <1>18 DEF Next

\* The later of two times, and what is past it.
LEMMA Latest ==
    ASSUME NEW a \in Nat, NEW b \in Nat
    PROVE  Later(a, b) \in Nat /\ a <= Later(a, b) /\ b <= Later(a, b)
  BY DEF Later

LEMMA Overdue ==
    ASSUME NEW t \in Int, NEW d \in Int, NEW x \in Int, NEW l \in Int, NEW p \in Int,
           NEW g \in Int, t <= d, d <= x + p, p <= g, x <= l
    PROVE  ~ (t > l + g) /\ t - x <= g
  OBVIOUS

\* If every next greeting is timely then no running node is missing.
LEMMA TimelyIsListed ==
    ASSUME TypeOK, PaceInv, DueSoon, SpareIsCycles, GapInv
    PROVE  RunningIsListed
<1> SUFFICES ASSUME NEW n \in Nodes, NEW m \in Nodes, NEW i \in 1 .. Len(PeersOf[n]),
                    PeersOf[n][i] = m, n # m, up[n], up[m],
                    now > Later(since[n], since[m]) + Gap(n), Gap(n) <= Ttl
             PROVE  Listed(m, n)
  BY PeersAreNodes DEF RunningIsListed
<1> DEFINE C == Cycle(n)
           mC == (missed[n][m] + 1) * C
           xC == (MaxMissed + 1) * C
<1>1. /\ now \in Nat /\ since[n] \in Nat /\ since[m] \in Nat /\ C \in Nat
      /\ lastSeen[m][n] # Unknown => lastSeen[m][n] \in Nat
      /\ missed[n][m] \in Nat /\ missed[n][m] <= MaxMissed
  <2>1. missed[n][m] \in 0 .. MaxMissed
    BY DEF TypeOK
  <2> QED
    BY <2>1, CycleIsNat DEF TypeOK
<1>2. now <= DueBy(n, i) /\ DueBy(n, i) \in Int
  <2>1. now <= wakeBy[n] /\ wakeBy[n] <= DueBy(n, i) /\ DueBy(n, i) \in Int
    BY DEF PaceInv, DueSoon
  <2> QED
    BY <1>1, <2>1, SMTT(60) DEF TypeOK
<1>3. mC \in Nat /\ xC \in Nat /\ mC <= xC
  <2>1. /\ missed[n][m] + 1 \in Nat /\ MaxMissed + 1 \in Nat
        /\ missed[n][m] + 1 <= MaxMissed + 1
    BY <1>1, Increments
  <2> HIDE DEF C
  <2> QED
    BY <1>1, <2>1, Products
<1>4. Spare(n, m) = mC + GreetMax /\ Gap(n) = xC + GreetMax
  BY DEF Spare, Gap
<1>5. Within(n, i, m)
  BY GapInvIsGapOf DEF GapOf
<1>6. Ttl \in Nat
  BY DEF Ttl
<1> HIDE DEF mC, xC, C
<1>7. Spare(n, m) \in Nat /\ Gap(n) \in Nat /\ Spare(n, m) <= Gap(n)
  BY <1>3, <1>4
<1>8. ~ (DueBy(n, i) <= since[n] + Spare(n, m)) /\ ~ (DueBy(n, i) <= since[m] + Spare(n, m))
  <2> DEFINE a == since[n]
             b == since[m]
             l == Later(a, b)
  <2>2. a \in Nat /\ b \in Nat /\ now > l + Gap(n)
    BY <1>1
  <2> HIDE DEF a, b
  <2>1. l \in Nat /\ a <= l /\ b <= l
    BY <2>2, Latest
  <2> HIDE DEF l
  <2>3. ~ (DueBy(n, i) <= a + Spare(n, m))
    BY <1>1, <1>2, <1>7, <2>1, <2>2, Overdue
  <2>4. ~ (DueBy(n, i) <= b + Spare(n, m))
    BY <1>1, <1>2, <1>7, <2>1, <2>2, Overdue
  <2> QED
    BY <2>3, <2>4 DEF a, b
<1>9. lastSeen[m][n] # Unknown /\ DueBy(n, i) <= lastSeen[m][n] + Spare(n, m)
  BY <1>5, <1>8 DEF Within
<1>10. now - lastSeen[m][n] <= Ttl
  <2> DEFINE x == lastSeen[m][n]
  <2>1. x \in Int /\ DueBy(n, i) <= x + Spare(n, m)
    BY <1>1, <1>9
  <2> HIDE DEF x
  <2>2. now - x <= Gap(n)
    BY <1>1, <1>2, <1>7, <2>1, Overdue
  <2>3. now - x <= Ttl
    BY <1>1, <1>6, <1>7, <2>1, <2>2
  <2> QED
    BY <2>3 DEF x
<1> QED
  BY <1>9, <1>10 DEF Listed

\* Two nodes that run for long enough know of each other if one greets the other:
\* for every number of nodes and peers, and every choice of the times.
THEOREM RunningListed == Spec => []RunningIsListed
<1>1. Init => PaceInv /\ GapInv
  BY DEF Init, PaceInv, GapInv
<1>2. Spec => [](TypeOK /\ PaceInv)
  BY <1>1, TypeCorrect, PaceStep, PTL DEF Spec
<1>3. Spec => [](DueSoon /\ SpareIsCycles)
  BY <1>2, DueIsSoon, SpareGrows, PTL
<1>4. TypeOK /\ TypeOK' /\ PaceInv /\ DueSoon /\ DueSoon' /\ SpareIsCycles /\ SpareIsCycles'
        /\ GapInv /\ [Next]_vars => GapInv'
  BY GapStep
<1>5. Spec => []GapInv
  BY <1>1, <1>2, <1>3, <1>4, PTL DEF Spec
<1>6. TypeOK /\ PaceInv /\ DueSoon /\ SpareIsCycles /\ GapInv => RunningIsListed
  BY TimelyIsListed
<1> QED
  BY <1>2, <1>3, <1>5, <1>6, PTL
=============================================================================
