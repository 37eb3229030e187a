------------------------------ MODULE MeshAuth ------------------------------
(***************************************************************************)
(* The signatures between nodes (boddos/security/auth.py, MeshAuth): every *)
(* mesh request carries a timestamp and a nonce, and a node accepts it     *)
(* once, while it is fresh.                                                *)
(*                                                                         *)
(* One node receives what its peers sign.  The peers' clocks are off by a  *)
(* bounded amount, and the network delays, loses, duplicates and reorders: *)
(* a request that was sent may be delivered at any time, any number of     *)
(* times, or never.  Messages are told apart by their nonces, which        *)
(* secrets.token_hex(16) never repeats; the MAC of a genuine request is    *)
(* always right, so it is not modelled.  The clock counts units of which   *)
(* Grain make the second that int(time.time()) rounds down to.             *)
(***************************************************************************)
EXTENDS Integers, Sequences, FiniteSets

CONSTANTS
    Nonces,         \* the nonces drawn
    Offsets,        \* how far the peers' clocks are ahead of the node's
    Grain,          \* units in a second
    MaxSkew,        \* max_skew_s
    NonceTtl,       \* nonce_ttl_s
    GcAbove,        \* 4096: the cache is swept when it holds more
    Never,          \* not sent, or not in the cache
    MaxTime,        \* bound on the clock
    MaxRestarts     \* bound on the restarts of the node

ASSUME MeshAuthAssumption ==
    /\ IsFiniteSet(Nonces)
    /\ Offsets \subseteq Int
    /\ Grain \in Nat \ {0}
    /\ MaxSkew \in Nat
    /\ NonceTtl \in Nat
    /\ NonceTtl >= 2 * MaxSkew      \* 120 and 30
    /\ GcAbove \in Nat
    /\ Never \notin Int
    /\ {MaxTime, MaxRestarts} \subseteq Nat

VARIABLES
    now,        \* the node's clock
    stamp,      \* the timestamp each nonce was signed with
    seen,       \* _seen: when the node may forget each nonce
    answer,     \* what verify() said last, and of which nonce
    restarts,
    \* ghosts
    sentAt,     \* when each nonce was signed
    accepted    \* when the node, since its last start, accepted each nonce

vars == <<now, stamp, seen, answer, restarts, sentAt, accepted>>

Answers == {"none", "ok", "stale timestamp", "replayed nonce"}

TypeOK ==
    /\ now \in Nat
    /\ stamp \in [Nonces -> Int \cup {Never}]
    /\ seen \in [Nonces -> Int \cup {Never}]
    /\ answer \in [nonce : Nonces \cup {Never}, said : Answers]
    /\ restarts \in Nat
    /\ sentAt \in [Nonces -> Nat]
    /\ accepted \in [Nonces -> Seq(Nat)]

Init ==
    /\ now = 0
    /\ stamp = [n \in Nonces |-> Never]
    /\ seen = [n \in Nonces |-> Never]
    /\ answer = [nonce |-> Never, said |-> "none"]
    /\ restarts = 0
    /\ sentAt = [n \in Nonces |-> 0]
    /\ accepted = [n \in Nonces |-> <<>>]
-----------------------------------------------------------------------------
Seconds(t) == t - (t % Grain)
Distance(a, b) == IF a < b THEN b - a ELSE a - b

\* sign: a peer stamps a request with its own clock.
Sign(n) ==
    /\ stamp[n] = Never
    /\ \E o \in Offsets : stamp' = [stamp EXCEPT ![n] = Seconds(now + o)]
    /\ sentAt' = [sentAt EXCEPT ![n] = now]
    /\ UNCHANGED <<now, seen, answer, restarts, accepted>>

\* Mutant of Fresh: a timestamp from the future is not fresh.
FreshPast(n) == stamp[n] <= now /\ now - stamp[n] <= MaxSkew

Fresh(n) == Distance(now, stamp[n]) <= MaxSkew
Cached == {n \in Nonces : seen[n] # Never}

\* Mutant of Swept: a large cache is emptied.
SweptAll(n) == IF Cardinality(Cached) > GcAbove THEN Never ELSE seen[n]

\* _gc: what is past its time is forgotten, once there is much of it.
Swept(n) == IF Cardinality(Cached) > GcAbove /\ seen[n] # Never /\ seen[n] < now
            THEN Never ELSE seen[n]

Accept(n) ==
    /\ seen' = [m \in Nonces |-> IF m = n THEN now + NonceTtl ELSE Swept(m)]
    /\ accepted' = [accepted EXCEPT ![n] = Append(@, now)]

\* verify: the checks in the order of the code.
Deliver(n) ==
    /\ stamp[n] # Never
    /\ \/ /\ ~ Fresh(n)
          /\ answer' = [nonce |-> n, said |-> "stale timestamp"]
          /\ UNCHANGED <<seen, accepted>>
       \/ /\ Fresh(n)
          /\ seen[n] # Never
          /\ answer' = [nonce |-> n, said |-> "replayed nonce"]
          /\ UNCHANGED <<seen, accepted>>
       \/ /\ Fresh(n)
          /\ seen[n] = Never
          /\ answer' = [nonce |-> n, said |-> "ok"]
          /\ Accept(n)
    /\ UNCHANGED <<now, stamp, restarts, sentAt>>

Tick ==
    /\ now < MaxTime
    /\ now' = now + 1
    /\ UNCHANGED <<stamp, seen, answer, restarts, sentAt, accepted>>

\* The node restarts with an empty cache.
Restart ==
    /\ restarts < MaxRestarts
    /\ restarts' = restarts + 1
    /\ seen' = [n \in Nonces |-> Never]
    /\ accepted' = [n \in Nonces |-> <<>>]
    /\ UNCHANGED <<now, stamp, answer, sentAt>>

Next ==
    \/ \E n \in Nonces : Sign(n) \/ Deliver(n)
    \/ Tick
    \/ Restart

Spec == Init /\ [][Next]_vars
-----------------------------------------------------------------------------
\* Between two starts a node accepts a request once, however often the network
\* delivers it and whenever the cache is swept.
AcceptedOnce == \A n \in Nonces : Len(accepted[n]) <= 1

\* A request that reaches the node so soon that the delay, the distance of the
\* clocks and the rounding to seconds fit into MaxSkew is never called stale.
PromptIsFresh ==
    [][\A n \in Nonces :
         /\ answer' # answer
         /\ \A o \in Offsets :
               now - sentAt[n] + Distance(o, 0) + Grain - 1 <= MaxSkew
         => answer' # [nonce |-> n, said |-> "stale timestamp"]]_vars
-----------------------------------------------------------------------------
\* The inductive strengthening of AcceptedOnce: an accepted nonce was stamped
\* within MaxSkew of its acceptance, and it is in the cache until NonceTtl later.
Remembered(n) ==
    /\ Len(accepted[n]) = 1
    /\ stamp[n] # Never
    /\ accepted[n][1] <= now
    /\ Distance(accepted[n][1], stamp[n]) <= MaxSkew
    /\ \/ seen[n] = accepted[n][1] + NonceTtl
       \/ seen[n] = Never /\ accepted[n][1] + NonceTtl < now

ReplayInv == \A n \in Nonces : accepted[n] # <<>> => Remembered(n)
=============================================================================
