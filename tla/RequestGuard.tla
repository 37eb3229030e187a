---------------------------- MODULE RequestGuard ----------------------------
(***************************************************************************)
(* The _guard middleware of boddos/api/server.py and the rate limiter it   *)
(* asks (boddos/security/ratelimit.py): per client address a token bucket, *)
(* a count of failed token checks and a lockout.                           *)
(*                                                                         *)
(* The middleware decides without an await, so a request is one step.      *)
(* Time is counted in units in which a bucket regains Rate tokens.         *)
(* Requests to the exempt paths (/, /ui, /ws, ...) touch none of this.     *)
(*                                                                         *)
(* Ghost state: for each client a window that may open at any moment and   *)
(* the requests let through since, and the token checks failed since the   *)
(* last good one.                                                          *)
(***************************************************************************)
EXTENDS Integers

CONSTANTS
    Clients,        \* client addresses
    Capacity,       \* capacity of a bucket
    Rate,           \* tokens regained per unit of time
    Threshold,      \* lockout_threshold
    Lockout,        \* lockout_seconds
    NoBucket,       \* no request of the client was seen
    NotLocked,      \* the client is not a key of _locked
    MaxTime,        \* bound on the clock
    MaxCount        \* bound on the counts of the ghosts

ASSUME GuardAssumption ==
    /\ Capacity \in Nat \ {0}
    /\ Rate \in Nat
    /\ Threshold \in Nat \ {0}
    /\ Lockout \in Nat \ {0}
    /\ NoBucket \notin [tokens : Nat, last : Nat]
    /\ NotLocked \notin Nat
    /\ {MaxTime, MaxCount} \subseteq Nat

VARIABLES
    now,        \* the monotonic clock
    bucket,     \* _buckets
    fails,      \* _fails, 0 for a client that is not a key
    locked,     \* _locked: until when the client is locked out
    status,     \* the answer to the last request of each client
    \* ghosts
    window,     \* when the client's window opened, and the requests let through since
    guesses     \* token checks failed since the last good one, and when the first was

vars == <<now, bucket, fails, locked, status, window, guesses>>

Statuses == {"none", "passed", "unauthorized", "locked out", "rate limit"}

TypeOK ==
    /\ now \in Nat
    /\ bucket \in [Clients -> [tokens : Nat, last : Nat] \cup {NoBucket}]
    /\ fails \in [Clients -> Nat]
    /\ locked \in [Clients -> Nat \cup {NotLocked}]
    /\ status \in [Clients -> Statuses]
    /\ window \in [Clients -> [start : Nat, count : Nat]]
    /\ guesses \in [Clients -> [start : Nat, count : Nat]]

Empty(t) == [start |-> t, count |-> 0]

Init ==
    /\ now = 0
    /\ bucket = [c \in Clients |-> NoBucket]
    /\ fails = [c \in Clients |-> 0]
    /\ locked = [c \in Clients |-> NotLocked]
    /\ status = [c \in Clients |-> "none"]
    /\ window = [c \in Clients |-> Empty(0)]
    /\ guesses = [c \in Clients |-> Empty(0)]
-----------------------------------------------------------------------------
Smaller(a, b) == IF a < b THEN a ELSE b

\* is_locked: a lockout that has expired is forgotten with its failures.
IsLocked(c) == locked[c] # NotLocked /\ now < locked[c]
Expired(c) == locked[c] # NotLocked /\ now >= locked[c]
LockAfter(c) == IF Expired(c) THEN NotLocked ELSE locked[c]
\* Mutant of FailsAfter: the failures are forgotten with every request.
FailsAfterNone(c) == 0

FailsAfter(c) == IF Expired(c) THEN 0 ELSE fails[c]

\* Mutant of Tokens: the first unit of time regains nothing.
TokensSlow(c) == IF bucket[c] = NoBucket THEN Capacity
                 ELSE Smaller(Capacity, bucket[c].tokens +
                        (IF now > bucket[c].last THEN now - bucket[c].last - 1 ELSE 0) * Rate)

\* Mutant of Tokens: a bucket is filled beyond its capacity.
TokensUncapped(c) == IF bucket[c] = NoBucket THEN Capacity
                     ELSE bucket[c].tokens + (now - bucket[c].last) * Rate

\* allow: the tokens of the client's bucket once it is refilled.
Tokens(c) == IF bucket[c] = NoBucket THEN Capacity
             ELSE Smaller(Capacity, bucket[c].tokens + (now - bucket[c].last) * Rate)

SetTokens(c, n) == bucket' = [bucket EXCEPT ![c] = [tokens |-> n, last |-> now]]

\* The bucket pays for the request.
LetIn(c) ==
    /\ Tokens(c) >= 1
    /\ window[c].count < MaxCount
    /\ SetTokens(c, Tokens(c) - 1)
    /\ window' = [window EXCEPT ![c].count = @ + 1]

Answer(c, s) == status' = [status EXCEPT ![c] = s]

\* Locked out: nothing is touched.
RefuseLocked(c) ==
    /\ IsLocked(c)
    /\ Answer(c, "locked out")
    /\ UNCHANGED <<now, bucket, fails, locked, window, guesses>>

\* The bucket is empty; the refill is kept.
RefuseRate(c) ==
    /\ ~ IsLocked(c)
    /\ Tokens(c) < 1
    /\ SetTokens(c, Tokens(c))
    /\ fails' = [fails EXCEPT ![c] = FailsAfter(c)]
    /\ locked' = [locked EXCEPT ![c] = LockAfter(c)]
    /\ Answer(c, "rate limit")
    /\ UNCHANGED <<now, window, guesses>>

\* A request that needs no client token (the mesh, or client_auth not required).
PassOpen(c) ==
    /\ ~ IsLocked(c)
    /\ LetIn(c)
    /\ fails' = [fails EXCEPT ![c] = FailsAfter(c)]
    /\ locked' = [locked EXCEPT ![c] = LockAfter(c)]
    /\ Answer(c, "passed")
    /\ UNCHANGED <<now, guesses>>

\* Mutant of PassToken: the failures before a good check still count.
PassTokenRemembers(c) ==
    /\ ~ IsLocked(c)
    /\ LetIn(c)
    /\ fails' = [fails EXCEPT ![c] = FailsAfter(c)]
    /\ locked' = [locked EXCEPT ![c] = NotLocked]
    /\ guesses' = [guesses EXCEPT ![c] = Empty(now)]
    /\ Answer(c, "passed")
    /\ UNCHANGED now

\* record_success
PassToken(c) ==
    /\ ~ IsLocked(c)
    /\ LetIn(c)
    /\ fails' = [fails EXCEPT ![c] = 0]
    /\ locked' = [locked EXCEPT ![c] = NotLocked]
    /\ guesses' = [guesses EXCEPT ![c] = Empty(now)]
    /\ Answer(c, "passed")
    /\ UNCHANGED now

\* record_failure
RefuseToken(c) ==
    /\ ~ IsLocked(c)
    /\ guesses[c].count < MaxCount
    /\ LetIn(c)
    /\ fails' = [fails EXCEPT ![c] = FailsAfter(c) + 1]
    /\ locked' = [locked EXCEPT ![c] =
                    IF FailsAfter(c) + 1 >= Threshold THEN now + Lockout ELSE LockAfter(c)]
    /\ guesses' = [guesses EXCEPT ![c].start = IF guesses[c].count = 0 THEN now ELSE @,
                                  ![c].count = @ + 1]
    /\ Answer(c, "unauthorized")
    /\ UNCHANGED now

\* A window opens: the bound holds from whatever moment one starts to count.
OpenWindow(c) ==
    /\ window' = [window EXCEPT ![c] = Empty(now)]
    /\ UNCHANGED <<now, bucket, fails, locked, status, guesses>>

Tick ==
    /\ now < MaxTime
    /\ now' = now + 1
    /\ UNCHANGED <<bucket, fails, locked, status, window, guesses>>

Request(c) == \/ RefuseLocked(c) \/ RefuseRate(c)
              \/ PassOpen(c) \/ PassToken(c) \/ RefuseToken(c)

Next == \/ Tick
        \/ \E c \in Clients : Request(c) \/ OpenWindow(c)

Spec == Init /\ [][Next]_vars
-----------------------------------------------------------------------------
\* However a client spreads its requests, in no stretch of time does it get more
\* of them through than a full bucket and what is regained meanwhile.
RateIsBounded ==
    \A c \in Clients :
        window[c].count <= Capacity + Rate * (now - window[c].start)

\* A client whose token checks only fail gets Threshold of them, and Threshold
\* more for each Lockout that passes, however it paces them.
GuessesAreBounded ==
    \A c \in Clients :
        guesses[c].count <= Threshold * (1 + (now - guesses[c].start) \div Lockout)

\* A client is locked out only after Threshold failed checks with no good one in
\* between, and the lockout ends.
LockIsEarned ==
    \A c \in Clients : locked[c] # NotLocked =>
        /\ guesses[c].count >= Threshold
        /\ locked[c] <= now + Lockout

\* A client that waits until its bucket has regained a token is never refused for
\* its rate, whatever it did before: a refused request costs nothing.
PacedIsLetIn ==
    [][\A c \in Clients :
         /\ bucket[c] # NoBucket
         /\ bucket'[c] # bucket[c]
         /\ (now - bucket[c].last) * Rate >= 1
         => status'[c] # "rate limit"]_vars
-----------------------------------------------------------------------------
\* The inductive strengthening of RateIsBounded: what was let through in the
\* window and what is left in the bucket, together, were in a full bucket or
\* regained since the window opened.
BucketInv ==
    \A c \in Clients :
        /\ window[c].start <= now
        /\ bucket[c] = NoBucket => window[c].count = 0
        /\ bucket[c] # NoBucket =>
              /\ bucket[c].last <= now
              /\ bucket[c].tokens <= Capacity
              /\ \/ bucket[c].last < window[c].start /\ window[c].count = 0
                 \/ /\ window[c].start <= bucket[c].last
                    /\ window[c].count + bucket[c].tokens
                          <= Capacity + Rate * (bucket[c].last - window[c].start)

\* ... and of LockIsEarned and GuessesAreBounded: every Threshold failed checks that
\* no longer count towards a lockout were paid for with the time of a lockout;
\* for a client that is locked out, they all will have been when it ends.
Paid(c, t) == Threshold * ((t - guesses[c].start) \div Lockout)

LockInv ==
    \A c \in Clients :
        /\ guesses[c].start <= now
        /\ fails[c] <= guesses[c].count
        /\ locked[c] = NotLocked =>
              /\ fails[c] < Threshold
              /\ guesses[c].count <= fails[c] + Paid(c, now)
        /\ locked[c] # NotLocked =>
              /\ Threshold <= guesses[c].count
              /\ guesses[c].start + Lockout <= locked[c]
              /\ locked[c] <= now + Lockout
              /\ guesses[c].count <= Paid(c, locked[c])
=============================================================================
