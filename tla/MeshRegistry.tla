---------------------------- MODULE MeshRegistry ----------------------------
(***************************************************************************)
(* How the nodes of a mesh know of each other: every node greets its       *)
(* configured peers (_heartbeat_loop and _greet of boddos/api/server.py),  *)
(* a greeted node puts the sender in its registry (boddos/mesh/node.py),   *)
(* and an entry counts as long as it is younger than three heartbeats.     *)
(*                                                                         *)
(* One heartbeat asks the model server for its models (at most RefreshMax),*)
(* greets one peer after the other (at most GreetMax each) and sleeps.     *)
(* A greeting that is not answered in time may still be on its way: it     *)
(* counts until its signature is stale, Lateness after it was made.        *)
(* Nodes crash and start again, with an empty registry.  All clocks go     *)
(* alike, and a task that is due runs before the clock advances.           *)
(*                                                                         *)
(* Ghost state: since when each node has been in its present condition,    *)
(* and the greetings in a row that a running peer refused or did not get   *)
(* in time.                                                                *)
(***************************************************************************)
EXTENDS Integers, Sequences

CONSTANTS
    Nodes,
    PeersOf,        \* cfg.mesh.peers of each node
    Period,         \* cfg.mesh.heartbeat_seconds
    RefreshMax,     \* timeout of list_models
    GreetMax,       \* timeout of a greeting
    Lateness,       \* max_skew_s of the signatures
    MaxMissed,      \* a running peer misses no more greetings in a row
    Unknown,        \* the node is not a key of _peers
    MaxTime,        \* bound on the clock
    MaxStarts       \* bound on the starts of each node

ASSUME RegistryAssumption ==
    /\ PeersOf \in [Nodes -> Seq(Nodes)]
    /\ Period \in Nat \ {0}
    /\ RefreshMax \in Nat
    /\ GreetMax \in Nat
    /\ Lateness \in Nat
    /\ MaxMissed \in Nat
    /\ MaxTime \in Nat
    /\ GreetMax <= Lateness
    /\ Unknown \notin Nat
    /\ MaxStarts \in [Nodes -> Nat]

VARIABLES
    now,        \* the clock
    up,         \* the node's process runs
    stage,      \* of each node's heartbeat: asking for the models (0), greeting
                \* its n-th peer (n), or asleep (one more than it has peers)
    wakeBy,     \* when what the heartbeat awaits ends at the latest
    hellos,     \* the greetings on their way
    lastSeen,   \* _peers of each node: when it was greeted by each node
    starts,     \* how often each node has started
    \* ghosts
    since, missed

vars == <<now, up, stage, wakeBy, hellos, lastSeen, starts, since, missed>>

Stages(n) == 0 .. Len(PeersOf[n]) + 1
Hello == [from : Nodes, to : Nodes, made : Nat]

TypeOK ==
    /\ now \in Nat
    /\ up \in [Nodes -> BOOLEAN]
    /\ stage \in [Nodes -> Nat]
    /\ \A n \in Nodes : stage[n] \in Stages(n)
    /\ wakeBy \in [Nodes -> Nat]
    /\ hellos \subseteq Hello
    /\ lastSeen \in [Nodes -> [Nodes -> Nat \cup {Unknown}]]
    /\ starts \in [Nodes -> Nat]
    /\ since \in [Nodes -> Nat]
    /\ missed \in [Nodes -> [Nodes -> 0 .. MaxMissed]]

Init ==
    /\ now = 0
    /\ up = [n \in Nodes |-> FALSE]
    /\ stage = [n \in Nodes |-> 0]
    /\ wakeBy = [n \in Nodes |-> 0]
    /\ hellos = {}
    /\ lastSeen = [n \in Nodes |-> [m \in Nodes |-> Unknown]]
    /\ starts = [n \in Nodes |-> 0]
    /\ since = [n \in Nodes |-> 0]
    /\ missed = [n \in Nodes |-> [m \in Nodes |-> 0]]
-----------------------------------------------------------------------------
Greeting(n) == up[n] /\ stage[n] \in 1 .. Len(PeersOf[n])
Asleep(n) == up[n] /\ stage[n] = Len(PeersOf[n]) + 1
HelloOf(n) == [from |-> n, to |-> PeersOf[n][stage[n]], made |-> wakeBy[n] - GreetMax]

\* The heartbeat of n goes on to greet its s-th peer, or to sleep if it has none.
GoOn(n, s) ==
    /\ stage' = [stage EXCEPT ![n] = s]
    /\ IF s <= Len(PeersOf[n])
       THEN /\ wakeBy' = [wakeBy EXCEPT ![n] = now + GreetMax]
            /\ hellos' = hellos \cup {[from |-> n, to |-> PeersOf[n][s], made |-> now]}
       ELSE /\ wakeBy' = [wakeBy EXCEPT ![n] = now + Period]
            /\ UNCHANGED hellos

\* A node starts and asks for its models.
Start(n) ==
    /\ ~ up[n]
    /\ starts[n] < MaxStarts[n]
    /\ starts' = [starts EXCEPT ![n] = @ + 1]
    /\ up' = [up EXCEPT ![n] = TRUE]
    /\ since' = [since EXCEPT ![n] = now]
    /\ stage' = [stage EXCEPT ![n] = 0]
    /\ wakeBy' = [wakeBy EXCEPT ![n] = now + RefreshMax]
    /\ missed' = [m \in Nodes |-> [missed[m] EXCEPT ![n] = 0]]
    /\ UNCHANGED <<now, hellos, lastSeen>>

\* A node crashes or is shut down; its registry was in memory.
Stop(n) ==
    /\ up[n]
    /\ up' = [up EXCEPT ![n] = FALSE]
    /\ since' = [since EXCEPT ![n] = now]
    /\ lastSeen' = [lastSeen EXCEPT ![n] = [m \in Nodes |-> Unknown]]
    /\ UNCHANGED <<now, stage, wakeBy, hellos, missed, starts>>

\* The models are there, or the model server did not answer.
Refreshed(n) ==
    /\ up[n]
    /\ stage[n] = 0
    /\ GoOn(n, 1)
    /\ UNCHANGED <<now, up, lastSeen, since, missed, starts>>

\* Mutant of Upsert: an entry that exists is not touched.
UpsertOnce(m, n) ==
    lastSeen' = IF n = m \/ lastSeen[m][n] # Unknown
                THEN lastSeen ELSE [lastSeen EXCEPT ![m][n] = now]

\* upsert: the entry is made or touched; a node does not list itself.
Upsert(m, n) ==
    lastSeen' = IF n = m THEN lastSeen ELSE [lastSeen EXCEPT ![m][n] = now]

\* mesh_hello: a running node gets a greeting that is fresh.
Receive(h) ==
    /\ up[h.to]
    /\ now <= h.made + Lateness
    /\ hellos' = hellos \ {h}
    /\ Upsert(h.to, h.from)
    /\ missed' = [missed EXCEPT ![h.from][h.to] = 0]
    /\ UNCHANGED <<now, up, stage, wakeBy, since, starts>>

\* The greeting of the peer ends: it was answered, the peer is down, or it counts
\* as missed, because the peer refused it or did not answer in time.
Greeted(n) ==
    /\ Greeting(n)
    /\ \/ HelloOf(n) \notin hellos /\ UNCHANGED missed
       \/ ~ up[HelloOf(n).to] /\ UNCHANGED missed
       \/ /\ missed[n][HelloOf(n).to] < MaxMissed
          /\ missed' = [missed EXCEPT ![n][HelloOf(n).to] = @ + 1]
    /\ GoOn(n, stage[n] + 1)
    /\ UNCHANGED <<now, up, lastSeen, since, starts>>

\* The sleep is over.
Awake(n) ==
    /\ Asleep(n)
    /\ now = wakeBy[n]
    /\ stage' = [stage EXCEPT ![n] = 0]
    /\ wakeBy' = [wakeBy EXCEPT ![n] = now + RefreshMax]
    /\ UNCHANGED <<now, up, hellos, lastSeen, since, missed, starts>>

\* The clock advances, never past the moment at which a running node is to go on.
\* Greetings too late to be accepted are forgotten.
Tick ==
    /\ now < MaxTime
    /\ \A n \in Nodes : up[n] => now < wakeBy[n]
    /\ now' = now + 1
    /\ hellos' = {h \in hellos : now < h.made + Lateness}
    /\ UNCHANGED <<up, stage, wakeBy, lastSeen, since, missed, starts>>

Next ==
    \/ \E n \in Nodes : Start(n) \/ Stop(n) \/ Refreshed(n) \/ Greeted(n) \/ Awake(n)
    \/ \E h \in hellos : Receive(h)
    \/ Tick

Spec == Init /\ [][Next]_vars
-----------------------------------------------------------------------------
Ttl == 3 * Period

\* Mutant of Listed: every node ever heard of counts.
EverListed(m, n) == lastSeen[m][n] # Unknown

\* alive_peers: n is in the registry of m and was heard of within the time to live.
Listed(m, n) == lastSeen[m][n] # Unknown /\ now - lastSeen[m][n] <= Ttl

\* The longest time between two greetings that n's peer gets: what a heartbeat
\* takes, once more for each greeting missed, and the time one greeting takes.
Cycle(n) == RefreshMax + Len(PeersOf[n]) * GreetMax + Period
Gap(n) == (MaxMissed + 1) * Cycle(n) + GreetMax

Later(a, b) == IF a < b THEN b ELSE a

\* Two nodes that have both been running for long enough know of each other, if
\* one greets the other, whatever the other peers do, however their starts and
\* heartbeats are timed, and although greetings are missed: provided that three
\* heartbeats are long enough, which depends on the number of configured peers.
RunningIsListed ==
    \A n, m \in Nodes : \A i \in DOMAIN PeersOf[n] :
        /\ PeersOf[n][i] = m /\ n # m
        /\ up[n] /\ up[m]
        /\ now > Later(since[n], since[m]) + Gap(n)
        /\ Gap(n) <= Ttl
        => Listed(m, n)

\* A node that does not run is no longer listed, and so no longer routed to, once
\* the greetings it left on their way are stale and three heartbeats have passed.
DownAgesOut ==
    \A n, m \in Nodes :
        ~ up[n] /\ now > since[n] + Lateness + Ttl => ~ Listed(m, n)
-----------------------------------------------------------------------------
\* The inductive strengthenings.  Of DownAgesOut: what a node that is down has
\* left behind was made before it went down.
AgeInv ==
    /\ \A n \in Nodes : since[n] <= now
    /\ \A h \in hellos : /\ h.made <= now
                         /\ ~ up[h.from] => h.made <= since[h.from]
    /\ \A n, m \in Nodes : lastSeen[m][n] # Unknown =>
          /\ lastSeen[m][n] <= now
          /\ ~ up[n] => lastSeen[m][n] <= since[n] + Lateness

\* Of RunningIsListed: no await of a heartbeat is overdue or longer than it may be,
WaitMax(n) == IF stage[n] = 0 THEN RefreshMax
              ELSE IF stage[n] <= Len(PeersOf[n]) THEN GreetMax ELSE Period

PaceInv == \A n \in Nodes : up[n] => now <= wakeBy[n] /\ wakeBy[n] <= now + WaitMax(n)

\* ... and the time by which a heartbeat will have greeted its i-th peer next, or
\* missed it, is a cycle, and one more for each miss, after the last greeting.
Ahead(n, i) == stage[n] < i \/ (stage[n] = i /\ HelloOf(n) \in hellos)
DueBy(n, i) ==
    IF Ahead(n, i) THEN wakeBy[n] + i * GreetMax - stage[n] * GreetMax
    ELSE IF stage[n] <= Len(PeersOf[n])
         THEN wakeBy[n] + i * GreetMax - stage[n] * GreetMax + Cycle(n)
         ELSE wakeBy[n] + i * GreetMax + RefreshMax

Spare(n, m) == (missed[n][m] + 1) * Cycle(n) + GreetMax

GapInv ==
    \A n \in Nodes : \A i \in DOMAIN PeersOf[n] : LET m == PeersOf[n][i] IN
        n # m /\ up[n] /\ up[m] =>
            \/ DueBy(n, i) <= since[n] + Spare(n, m)
            \/ DueBy(n, i) <= since[m] + Spare(n, m)
            \/ lastSeen[m][n] # Unknown /\ DueBy(n, i) <= lastSeen[m][n] + Spare(n, m)
=============================================================================
