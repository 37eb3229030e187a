---------------------------- MODULE Access_proofs ----------------------------
(***************************************************************************)
(* Theorems about what a request must pass and what it then changes: the   *)
(* one-time codes and the vault (SensitiveActions), and the rate limiter   *)
(* and its lockouts (RequestGuard).                                        *)
(*                                                                         *)
(* SecretsSurvive is inductive with the types.  That codes are timely is a *)
(* fact about division, of any two clocks.  RateIsBounded needs BucketInv, *)
(* the bounds on guesses and lockouts need LockInv.                        *)
(***************************************************************************)
EXTENDS RequestGuard, SensitiveActions, TLAPS

-----------------------------------------------------------------------------
(***************************************************************************)
(* The vault and the one-time codes.                                       *)
(***************************************************************************)

LEMMA SecretMapsAre ==
    ASSUME NEW data
    PROVE  data \in SecretMaps <=> \E known \in SUBSET Names : data \in [known -> Values]
BY DEF SecretMaps

\* A secret that is put in leaves the others as they were.
LEMMA WithOne ==
    ASSUME NEW data \in SecretMaps, NEW n \in Names, NEW v \in Values
    PROVE  /\ With(data, n, v) \in SecretMaps
           /\ n \in DOMAIN With(data, n, v) /\ With(data, n, v)[n] = v
           /\ \A m \in DOMAIN data \ {n} :
                 m \in DOMAIN With(data, n, v) /\ With(data, n, v)[m] = data[m]
<1>1. PICK known \in SUBSET Names : data \in [known -> Values]
  BY SecretMapsAre
<1>2. DOMAIN data = known /\ known \cup {n} \in SUBSET Names
  BY <1>1
<1>3. With(data, n, v) \in [known \cup {n} -> Values]
  BY <1>1, <1>2 DEF With
<1>4. With(data, n, v) \in SecretMaps
  BY <1>2, <1>3, SecretMapsAre
<1> QED
  BY <1>4 DEF With

LEMMA NoSecretsYet == NoSecrets \in SecretMaps /\ DOMAIN NoSecrets = {}
<1>1. DOMAIN NoSecrets = {} /\ NoSecrets \in [{} -> Values]
  BY DEF NoSecrets
<1>2. {} \in SUBSET Names
  OBVIOUS
<1> QED
  BY <1>1, <1>2, SecretMapsAre

\* An unlocked vault that can be read is the one of its passphrase.
LEMMA LoadIs ==
    ASSUME ActionTypeOK, pass # Locked, Load # Unreadable
    PROVE  /\ pass \in Passphrases /\ Load \in SecretMaps
           /\ \/ vault = Absent /\ Load = NoSecrets
              \/ /\ vault # Absent /\ vault # Torn
                 /\ vault.pass = pass /\ Load = vault.data
<1>1. pass \in Passphrases /\ vault \in VaultFiles \cup {Absent, Torn}
  BY DEF ActionTypeOK
<1>2. CASE vault = Absent
  BY <1>1, <1>2, NoSecretsYet DEF Load
<1>3. CASE vault # Absent
  <2>1. vault # Torn /\ vault.pass = pass /\ Load = vault.data
    BY <1>3 DEF Load
  <2>2. vault.data \in SecretMaps
    BY <1>1, <1>3, <2>1 DEF VaultFiles
  <2> QED
    BY <1>1, <1>3, <2>1, <2>2
<1> QED
  BY <1>2, <1>3

LEMMA SetStep ==
    ASSUME ActionTypeOK, SecretsSurvive, NEW n \in Names, NEW v \in Values, SetSecret(n, v)
    PROVE  ActionTypeOK' /\ SecretsSurvive'
<1>1. /\ pass # Locked /\ Load # Unreadable /\ vault' = Saved(With(Load, n, v))
      /\ clock' = clock /\ stage' = stage /\ proc' = proc /\ pass' = pass
      /\ \/ kept' = [kept EXCEPT ![n] = {<<v, pass>>}]
         \/ kept' = [kept EXCEPT ![n] = IF @ = {} THEN {} ELSE @ \cup {<<v, pass>>}]
  BY DEF SetSecret, runVars
<1>2. /\ pass \in Passphrases /\ Load \in SecretMaps
      /\ \/ vault = Absent /\ Load = NoSecrets
         \/ /\ vault # Absent /\ vault # Torn
            /\ vault.pass = pass /\ Load = vault.data
  BY <1>1, LoadIs
<1>3. /\ With(Load, n, v) \in SecretMaps
      /\ n \in DOMAIN With(Load, n, v) /\ With(Load, n, v)[n] = v
      /\ \A m \in DOMAIN Load \ {n} :
            m \in DOMAIN With(Load, n, v) /\ With(Load, n, v)[m] = Load[m]
  BY <1>2, WithOne
<1>4. /\ vault' \in VaultFiles /\ vault'.pass = pass /\ vault'.data = With(Load, n, v)
      /\ vault' # Absent /\ vault' # Torn
  BY <1>1, <1>2, <1>3, SensitiveAssumption DEF Saved, VaultFiles, SensitiveAssumption
<1>5. /\ kept' \in [Names -> SUBSET (Values \X Passphrases)]
      /\ kept'[n] # {} => <<v, pass>> \in kept'[n]
      /\ \A m \in Names \ {n} : kept'[m] = kept[m]
  <2>1. kept \in [Names -> SUBSET (Values \X Passphrases)]
    BY DEF ActionTypeOK
  <2>2. {<<v, pass>>} \in SUBSET (Values \X Passphrases)
    BY <1>2
  <2> QED
    BY <1>1, <2>1, <2>2
<1>6. ActionTypeOK'
  BY <1>1, <1>4, <1>5 DEF ActionTypeOK
<1>7. ASSUME NEW m \in Names \ {n}, kept[m] # {}
      PROVE  /\ m \in DOMAIN With(Load, n, v)
             /\ <<With(Load, n, v)[m], pass>> \in kept[m]
  <2>1. /\ vault # Absent /\ vault # Torn /\ vault.pass = pass /\ Load = vault.data
        /\ m \in DOMAIN vault.data /\ <<vault.data[m], vault.pass>> \in kept[m]
    <3>1. vault # Torn
      BY <1>2, SensitiveAssumption DEF SensitiveAssumption
    <3> QED
      BY <1>2, <1>7, <3>1 DEF SecretsSurvive
  <2> QED
    BY <1>3, <2>1
<1> QED
  BY <1>3, <1>4, <1>5, <1>6, <1>7 DEF SecretsSurvive

LEMMA ActionStep ==
    ActionTypeOK /\ SecretsSurvive /\ [ActionNext]_actionVars
        => ActionTypeOK' /\ SecretsSurvive'
<1> SUFFICES ASSUME ActionTypeOK, SecretsSurvive, [ActionNext]_actionVars
             PROVE  ActionTypeOK' /\ SecretsSurvive'
  OBVIOUS
<1>1. ASSUME UNCHANGED vaultVars PROVE SecretsSurvive'
  BY <1>1 DEF vaultVars, SecretsSurvive
<1>2. ASSUME NEW r \in Runs, NEW said \in Answers, EndRun(r, said),
             UNCHANGED <<clock, proc, pass, vaultVars>>
      PROVE  ActionTypeOK'
  <2>1. PICK a \in Answers : stage' = [stage EXCEPT ![r] = a]
    BY <1>2 DEF EndRun, Answers
  <2>2. stage' \in [Runs -> {"idle", "waiting"} \cup Answers]
    BY <2>1 DEF ActionTypeOK
  <2> QED
    BY <1>2, <2>2 DEF ActionTypeOK, vaultVars
<1>3. ASSUME NEW r \in Runs,
             RefuseRun(r) \/ RejectRun(r) \/ Collect(r) \/ TimeOut(r)
      PROVE  ActionTypeOK' /\ SecretsSurvive'
  <2>1. UNCHANGED <<clock, proc, pass, vaultVars>> /\ \E said \in Answers : EndRun(r, said)
    BY <1>3 DEF RefuseRun, RejectRun, Collect, TimeOut, Answers
  <2> QED
    BY <1>1, <1>2, <2>1
<1>4. ASSUME NEW r \in Runs, StartRun(r) \/ Exit(r)
      PROVE  ActionTypeOK' /\ SecretsSurvive'
  <2>1. UNCHANGED vaultVars /\ UNCHANGED <<clock, pass>>
    BY <1>4 DEF StartRun, Exit
  <2>2. /\ stage' \in [Runs -> {"idle", "waiting"} \cup Answers]
        /\ proc' \in [Runs -> {"none", "running", "exited"}]
    BY <1>4 DEF StartRun, Exit, ActionTypeOK
  <2> QED
    BY <1>1, <2>1, <2>2 DEF ActionTypeOK, vaultVars
<1>5. CASE SetTorn
  BY <1>5 DEF SetTorn, runVars, ActionTypeOK, SecretsSurvive
<1>6. CASE Restart
  <2>1. UNCHANGED vaultVars /\ clock' = clock /\ proc' = proc
    BY <1>6 DEF Restart
  <2>2. pass' \in Passphrases \cup {Locked} /\ stage' \in [Runs -> {"idle", "waiting"} \cup Answers]
    BY <1>6 DEF Restart, ActionTypeOK, Answers
  <2> QED
    BY <1>1, <2>1, <2>2 DEF ActionTypeOK, vaultVars
<1>7. CASE ClockTicks
  <2>1. UNCHANGED <<runVars, pass, vaultVars>> /\ clock' \in 0 .. MaxNow
    BY <1>7, SensitiveAssumption DEF ClockTicks, ActionTypeOK, SensitiveAssumption
  <2> QED
    BY <1>1, <2>1 DEF ActionTypeOK, runVars, vaultVars
<1>8. CASE UNCHANGED actionVars
  BY <1>1, <1>8 DEF actionVars, runVars, vaultVars, ActionTypeOK
<1> QED
  BY <1>3, <1>4, <1>5, <1>6, <1>7, <1>8, SetStep DEF ActionNext, Handle

LEMMA ActionStart == ActionInit => ActionTypeOK /\ SecretsSurvive
<1> SUFFICES ASSUME ActionInit PROVE ActionTypeOK /\ SecretsSurvive
  OBVIOUS
<1>1. 0 \in 0 .. MaxNow
  BY SensitiveAssumption DEF SensitiveAssumption
<1> QED
  BY <1>1 DEF ActionInit, ActionTypeOK, SecretsSurvive

\* The state of the commands, the vault and the clock has its types.
THEOREM ActionTypeCorrect == ActionSpec => []ActionTypeOK
BY ActionStart, ActionStep, PTL DEF ActionSpec

\* An acknowledged secret is in the vault, under its passphrase and with its value,
\* whatever is set after it and however the node is started, until a write of the
\* file is torn: for every set of names, values and passphrases.
THEOREM SecretsKept == ActionSpec => []SecretsSurvive
BY ActionStart, ActionStep, PTL DEF ActionSpec

-----------------------------------------------------------------------------
\* The periods of two clocks are as far apart as the clocks are.

LEMMA PeriodOf ==
    ASSUME NEW t \in Int
    PROVE  /\ CodeAt(t) \in Int
           /\ CodeAt(t) * Step <= t /\ t < (CodeAt(t) + 1) * Step
BY SensitiveAssumption DEF CodeAt, SensitiveAssumption

LEMMA StepOrder ==
    ASSUME NEW a \in Int, NEW b \in Int, a * Step < b * Step
    PROVE  a < b
BY SensitiveAssumption DEF SensitiveAssumption

LEMMA Distribute ==
    ASSUME NEW a \in Int, NEW b \in Int
    PROVE  /\ (a + b) * Step = a * Step + b * Step
           /\ (a + 1) * Step = a * Step + Step
           /\ a * Step \in Int
BY SensitiveAssumption DEF SensitiveAssumption

\* Clocks that are at most w periods apart are in periods at most w apart; ...
LEMMA PeriodsNear ==
    ASSUME NEW t \in Int, NEW u \in Int, NEW w \in Nat, t - u <= w * Step
    PROVE  CodeAt(t) <= CodeAt(u) + w
<1> DEFINE a == CodeAt(t)
           b == CodeAt(u)
<1>1. /\ a \in Int /\ a * Step <= t
      /\ b \in Int /\ u < (b + 1) * Step
  BY PeriodOf
<1> HIDE DEF a, b
<1>2. /\ ((b + 1) + w) * Step = (b + 1) * Step + w * Step
      /\ (b + 1) * Step \in Int /\ w * Step \in Int /\ a * Step \in Int
      /\ b + 1 \in Int /\ (b + 1) + w \in Int
  BY <1>1, Distribute
<1>3. a * Step < ((b + 1) + w) * Step
  BY <1>1, <1>2
<1>4. a < (b + 1) + w
  BY <1>1, <1>2, <1>3, StepOrder
<1> QED
  BY <1>1, <1>4 DEF a, b

\* ... and those at least w periods apart are in periods at least w apart.
LEMMA PeriodsFar ==
    ASSUME NEW t \in Int, NEW u \in Int, NEW w \in Nat, t - u >= w * Step
    PROVE  CodeAt(t) >= CodeAt(u) + w
<1> DEFINE a == CodeAt(t)
           b == CodeAt(u)
<1>1. /\ a \in Int /\ t < (a + 1) * Step
      /\ b \in Int /\ b * Step <= u
  BY PeriodOf
<1> HIDE DEF a, b
<1>2. /\ (b + w) * Step = b * Step + w * Step
      /\ b * Step \in Int /\ w * Step \in Int /\ (a + 1) * Step \in Int
      /\ b + w \in Int /\ a + 1 \in Int
  BY <1>1, Distribute
<1>3. (b + w) * Step < (a + 1) * Step
  BY <1>1, <1>2
<1>4. b + w < a + 1
  BY <1>1, <1>2, <1>3, StepOrder
<1> QED
  BY <1>1, <1>4 DEF a, b

LEMMA CodesTimelyNow == ActionTypeOK => CodesAreTimely
<1> SUFFICES ASSUME ActionTypeOK, NEW d \in 0 .. clock, NEW s \in Skews
             PROVE  LET off == IF s < d THEN d - s ELSE s - d
                    IN  /\ off <= Window * Step => Verify(CodeAt(ShownAt(d, s)))
                        /\ off >= (Window + 1) * Step => ~ Verify(CodeAt(ShownAt(d, s)))
  BY DEF CodesAreTimely
<1> DEFINE t == ShownAt(d, s)
           off == IF s < d THEN d - s ELSE s - d
           a == CodeAt(t)
           b == CodeAt(clock)
<1>1. /\ clock \in Int /\ d \in Int /\ s \in Int /\ t \in Int /\ off \in Nat
      /\ Window \in Nat /\ Window + 1 \in Nat
      /\ off = t - clock \/ off = clock - t
      /\ t - clock <= off /\ clock - t <= off
  BY SensitiveAssumption DEF ActionTypeOK, Skews, ShownAt, SensitiveAssumption
<1>2. a \in Int /\ b \in Int
  BY <1>1, PeriodOf
<1>w. Window * Step \in Int /\ (Window + 1) * Step \in Int
  <2>1. Window \in Int /\ Window + 1 \in Int
    BY <1>1
  <2> QED
    BY <2>1, Distribute
<1>v. Verify(a) <=> \E w \in -Window .. Window : a = b + w
  BY DEF Verify
<1> HIDE DEF t, off
<1>3. ASSUME off <= Window * Step PROVE Verify(a)
  <2>1. t - clock <= Window * Step /\ clock - t <= Window * Step
    BY <1>1, <1>3, <1>w
  <2>2. a <= b + Window /\ b <= a + Window
    BY <1>1, <2>1, PeriodsNear
  <2> HIDE DEF a, b
  <2>3. a - b \in -Window .. Window /\ a = b + (a - b)
    BY <1>1, <1>2, <2>2
  <2> QED
    BY <1>v, <2>3
<1>4. ASSUME off >= (Window + 1) * Step PROVE ~ Verify(a)
  <2>1. t - clock >= (Window + 1) * Step \/ clock - t >= (Window + 1) * Step
    BY <1>1, <1>4, <1>w
  <2>2. a >= b + (Window + 1) \/ b >= a + (Window + 1)
    BY <1>1, <2>1, PeriodsFar
  <2> HIDE DEF a, b
  <2> QED
    BY <1>1, <1>2, <1>v, <2>2
<1> QED
  BY <1>3, <1>4 DEF off, t

\* A code that is prompt passes and one that is long past does not, on whichever
\* side of a boundary of the periods the clocks are: for every length of a period,
\* every window and every skew.
THEOREM CodesTimely == ActionSpec => []CodesAreTimely
BY CodesTimelyNow, ActionTypeCorrect, PTL

-----------------------------------------------------------------------------
(***************************************************************************)
(* The rate limiter and its lockouts.                                      *)
(***************************************************************************)

USE GuardAssumption DEF GuardAssumption

\* What a refilled bucket holds is a number of tokens up to the capacity.
LEMMA TokensBounded ==
    ASSUME TypeOK, BucketInv, NEW c \in Clients
    PROVE  /\ Tokens(c) \in Nat
           /\ Tokens(c) <= Capacity
           /\ bucket[c] = NoBucket => Tokens(c) = Capacity
           /\ bucket[c] # NoBucket =>
                 Tokens(c) <= bucket[c].tokens + (now - bucket[c].last) * Rate
<1>1. CASE bucket[c] = NoBucket
  BY <1>1 DEF Tokens
<1>2. CASE bucket[c] # NoBucket
  <2>1. /\ now \in Nat /\ bucket[c].tokens \in Nat /\ bucket[c].last \in Nat
        /\ bucket[c].last <= now
    BY <1>2 DEF TypeOK, BucketInv
  <2>2. now - bucket[c].last \in Nat
    BY <2>1
  <2>3. (now - bucket[c].last) * Rate \in Nat
    BY <2>2
  <2> QED
    BY <1>2, <2>1, <2>3 DEF Tokens, Smaller
<1> QED
  BY <1>1, <1>2

LEMMA TypeStep == TypeOK /\ BucketInv /\ [Next]_vars => TypeOK'
<1> SUFFICES ASSUME TypeOK, BucketInv, [Next]_vars PROVE TypeOK'
  OBVIOUS
<1>1. CASE Tick
  BY <1>1 DEF Tick, TypeOK
<1>2. ASSUME NEW c \in Clients, OpenWindow(c)
      PROVE  TypeOK'
  BY <1>2 DEF OpenWindow, Empty, TypeOK
<1>3. ASSUME NEW c \in Clients, RefuseLocked(c)
      PROVE  TypeOK'
  BY <1>3 DEF RefuseLocked, Answer, TypeOK, Statuses
<1>4. ASSUME NEW c \in Clients, RefuseRate(c)
      PROVE  TypeOK'
  BY <1>4, TokensBounded
  DEF RefuseRate, SetTokens, LockAfter, FailsAfter, Answer, TypeOK, Statuses
<1>5. ASSUME NEW c \in Clients, LetIn(c)
      PROVE  /\ bucket' \in [Clients -> [tokens : Nat, last : Nat] \cup {NoBucket}]
             /\ window' \in [Clients -> [start : Nat, count : Nat]]
  <2>1. Tokens(c) - 1 \in Nat
    BY <1>5, TokensBounded DEF LetIn
  <2> QED
    BY <1>5, <2>1 DEF LetIn, SetTokens, TypeOK
<1>6. ASSUME NEW c \in Clients, PassOpen(c)
      PROVE  TypeOK'
  BY <1>5, <1>6 DEF PassOpen, LockAfter, FailsAfter, Answer, TypeOK, Statuses
<1>7. ASSUME NEW c \in Clients, PassToken(c)
      PROVE  TypeOK'
  BY <1>5, <1>7 DEF PassToken, Empty, Answer, TypeOK, Statuses
<1>8. ASSUME NEW c \in Clients, RefuseToken(c)
      PROVE  TypeOK'
  <2>1. FailsAfter(c) + 1 \in Nat /\ now + Lockout \in Nat
    BY DEF FailsAfter, TypeOK
  <2>2. /\ fails' \in [Clients -> Nat]
        /\ locked' \in [Clients -> Nat \cup {NotLocked}]
    BY <1>8, <2>1 DEF RefuseToken, LockAfter, TypeOK
  <2>3. guesses' \in [Clients -> [start : Nat, count : Nat]]
    <3>1. guesses[c].count + 1 \in Nat /\ now \in Nat /\ guesses[c].start \in Nat
      BY DEF TypeOK
    <3> QED
      BY <1>8, <3>1 DEF RefuseToken, TypeOK
  <2> QED
    BY <1>5, <1>8, <2>2, <2>3 DEF RefuseToken, Answer, TypeOK, Statuses
<1>9. CASE UNCHANGED vars
  BY <1>9 DEF vars, TypeOK
<1> QED
  BY <1>1, <1>2, <1>3, <1>4, <1>6, <1>7, <1>8, <1>9 DEF Next, Request

\* Time that passes and refills distribute over the rate.
LEMMA Refilled ==
    ASSUME NEW a \in Nat, NEW b \in Nat, NEW d \in Nat, a <= b, b <= d
    PROVE  /\ Rate * (b - a) + (d - b) * Rate = Rate * (d - a)
           /\ Rate * (d - a) \in Nat
           /\ Rate * (b - a) \in Nat
           /\ Rate * (b - a) <= Rate * (d - a)
  OBVIOUS

LEMMA BucketStep == TypeOK /\ BucketInv /\ [Next]_vars => BucketInv'
<1> SUFFICES ASSUME TypeOK, BucketInv, [Next]_vars PROVE BucketInv'
  OBVIOUS
<1>1. CASE Tick
  BY <1>1 DEF Tick, TypeOK, BucketInv
<1>2. ASSUME NEW c \in Clients, OpenWindow(c)
      PROVE  BucketInv'
  <2>1. /\ window'[c].start = now /\ window'[c].count = 0
        /\ \A d \in Clients \ {c} : window'[d] = window[d]
        /\ bucket' = bucket /\ now' = now
    BY <1>2 DEF OpenWindow, Empty, TypeOK
  <2>2. Rate * (now - now) = 0 /\ now \in Nat
    BY DEF TypeOK
  <2>3. bucket[c] # NoBucket =>
            /\ bucket[c].last \in Nat /\ bucket[c].tokens \in Nat
            /\ bucket[c].last < now \/ bucket[c].last = now
            /\ bucket[c].tokens <= Capacity
    <3>1. bucket[c] # NoBucket =>
              bucket[c].last \in Nat /\ bucket[c].tokens \in Nat /\ bucket[c].last <= now
      BY DEF TypeOK, BucketInv
    <3> QED
      BY <2>2, <3>1 DEF BucketInv
  <2>4. bucket[c] # NoBucket /\ bucket[c].last = now =>
            0 + bucket[c].tokens <= Capacity + Rate * (bucket[c].last - now)
    BY <2>2, <2>3
  <2>5. ASSUME NEW d \in Clients \ {c}
        PROVE  /\ window[d].start <= now
               /\ bucket[d] = NoBucket => window[d].count = 0
               /\ bucket[d] # NoBucket =>
                     /\ bucket[d].last <= now
                     /\ bucket[d].tokens <= Capacity
                     /\ \/ bucket[d].last < window[d].start /\ window[d].count = 0
                        \/ /\ window[d].start <= bucket[d].last
                           /\ window[d].count + bucket[d].tokens
                                 <= Capacity + Rate * (bucket[d].last - window[d].start)
    BY DEF BucketInv
  <2>6. /\ now <= now
        /\ bucket[c] # NoBucket =>
              /\ bucket[c].last <= now
              /\ bucket[c].tokens <= Capacity
              /\ \/ bucket[c].last < now
                 \/ /\ now <= bucket[c].last
                    /\ 0 + bucket[c].tokens <= Capacity + Rate * (bucket[c].last - now)
    BY <2>2, <2>3, <2>4
  <2> QED
    BY <2>1, <2>5, <2>6 DEF BucketInv
\* Refilling, and taking a token for a request that is counted, keep the balance.
<1>3. ASSUME NEW c \in Clients, NEW k \in {0, 1}, k <= Tokens(c),
             SetTokens(c, Tokens(c) - k),
             \A d \in Clients \ {c} : window'[d] = window[d],
             window'[c].start = window[c].start,
             window'[c].count = window[c].count + k,
             now' = now
      PROVE  BucketInv'
  <2>1. /\ now \in Nat /\ Tokens(c) \in Nat /\ window[c].start \in Nat /\ window[c].count \in Nat
        /\ window[c].start <= now /\ Tokens(c) <= Capacity
    BY TokensBounded DEF TypeOK, BucketInv
  <2>2. window[c].count + Tokens(c) <= Capacity + Rate * (now - window[c].start)
    <3>1. Rate * (now - window[c].start) \in Nat
      BY <2>1, Refilled
    <3>2. CASE bucket[c] = NoBucket
      BY <2>1, <3>1, <3>2 DEF BucketInv
    <3>3. CASE bucket[c] # NoBucket /\ bucket[c].last < window[c].start
      BY <2>1, <3>1, <3>3, TokensBounded DEF BucketInv, TypeOK
    <3>4. CASE bucket[c] # NoBucket /\ window[c].start <= bucket[c].last
      <4>1. /\ bucket[c].last \in Nat /\ bucket[c].tokens \in Nat /\ bucket[c].last <= now
            /\ Tokens(c) <= bucket[c].tokens + (now - bucket[c].last) * Rate
        BY <3>4, TokensBounded DEF BucketInv, TypeOK
      <4>2. window[c].count + bucket[c].tokens
              <= Capacity + Rate * (bucket[c].last - window[c].start)
        BY <2>1, <3>4, <4>1 DEF BucketInv
      <4>3. Rate * (bucket[c].last - window[c].start) + (now - bucket[c].last) * Rate
              = Rate * (now - window[c].start)
        BY <2>1, <3>4, <4>1, Refilled
      <4>4. /\ Rate * (bucket[c].last - window[c].start) \in Nat
            /\ (now - bucket[c].last) * Rate \in Nat
        <5>1. bucket[c].last - window[c].start \in Nat /\ now - bucket[c].last \in Nat
          BY <2>1, <3>4, <4>1
        <5> QED
          BY <5>1
      <4> QED
        BY <2>1, <3>1, <4>1, <4>2, <4>3, <4>4
    <3> QED
      BY <2>1, <3>2, <3>3, <3>4 DEF TypeOK
  <2>3. bucket'[c] = [tokens |-> Tokens(c) - k, last |-> now]
    BY <1>3 DEF SetTokens, TypeOK
  <2>4. bucket'[c].tokens = Tokens(c) - k /\ bucket'[c].last = now
    BY <2>3
  <2>5. window'[c].start = window[c].start /\ window'[c].count = window[c].count + k
    BY <1>3
  <2>6. bucket'[c] # NoBucket
    <3>1. Tokens(c) - k \in Nat
      BY <1>3, <2>1
    <3> QED
      BY <2>1, <2>3, <3>1
  <2>7. window'[c].count + bucket'[c].tokens <= Capacity + Rate * (now - window'[c].start)
    BY <2>1, <2>2, <2>4, <2>5
  <2>8. bucket'[c].tokens <= Capacity
    BY <1>3, <2>1, <2>4
  <2>9. \A d \in Clients \ {c} : bucket'[d] = bucket[d] /\ window'[d] = window[d]
    BY <1>3 DEF SetTokens, TypeOK
  <2> DEFINE Balance(d) ==
               /\ window'[d].start <= now
               /\ bucket'[d] = NoBucket => window'[d].count = 0
               /\ bucket'[d] # NoBucket =>
                     /\ bucket'[d].last <= now
                     /\ bucket'[d].tokens <= Capacity
                     /\ \/ bucket'[d].last < window'[d].start /\ window'[d].count = 0
                        \/ /\ window'[d].start <= bucket'[d].last
                           /\ window'[d].count + bucket'[d].tokens
                                 <= Capacity + Rate * (bucket'[d].last - window'[d].start)
  <2>10. Balance(c)
    BY <2>1, <2>4, <2>5, <2>6, <2>7, <2>8
  <2>11. ASSUME NEW d \in Clients \ {c} PROVE Balance(d)
    BY <2>9 DEF BucketInv
  <2>12. \A d \in Clients : Balance(d)
    BY <2>10, <2>11
  <2> QED
    BY <1>3, <2>12 DEF BucketInv
<1>4. ASSUME NEW c \in Clients, RefuseRate(c)
      PROVE  BucketInv'
  <2>1. window' = window /\ now' = now /\ SetTokens(c, Tokens(c))
    BY <1>4 DEF RefuseRate
  <2>2. window[c].count \in Nat /\ window[c].count + 0 = window[c].count
    BY DEF TypeOK
  <2>3. Tokens(c) - 0 = Tokens(c) /\ 0 <= Tokens(c)
    BY TokensBounded
  <2> QED
    BY <1>3, <2>1, <2>2, <2>3
<1>5. ASSUME NEW c \in Clients, LetIn(c), now' = now
      PROVE  BucketInv'
  <2>1. /\ \A d \in Clients \ {c} : window'[d] = window[d]
        /\ window'[c].start = window[c].start
        /\ window'[c].count = window[c].count + 1
    BY <1>5 DEF LetIn, TypeOK
  <2> QED
    BY <1>3, <1>5, <2>1, TokensBounded DEF LetIn
<1>6. ASSUME NEW c \in Clients, RefuseLocked(c)
      PROVE  BucketInv'
  BY <1>6 DEF RefuseLocked, BucketInv
<1>7. ASSUME NEW c \in Clients, PassOpen(c) \/ PassToken(c) \/ RefuseToken(c)
      PROVE  BucketInv'
  BY <1>5, <1>7 DEF PassOpen, PassToken, RefuseToken
<1>8. CASE UNCHANGED vars
  BY <1>8 DEF vars, BucketInv
<1> QED
  BY <1>1, <1>2, <1>4, <1>6, <1>7, <1>8 DEF Next, Request

\* The state of the guard has its types: no bucket is ever overdrawn.
THEOREM TypeCorrect == Spec => []TypeOK
<1>1. Init => TypeOK /\ BucketInv
  BY DEF Init, Empty, TypeOK, BucketInv, Statuses
<1> QED
  BY <1>1, TypeStep, BucketStep, PTL DEF Spec

\* In no stretch of time does a client get more requests through than a full
\* bucket and what is regained meanwhile, for every capacity and rate.
THEOREM RateBound == Spec => []RateIsBounded
<1>1. Init => TypeOK /\ BucketInv
  BY DEF Init, Empty, TypeOK, BucketInv, Statuses
<1>2. TypeOK /\ BucketInv => RateIsBounded
  <2> SUFFICES ASSUME TypeOK, BucketInv, NEW c \in Clients
               PROVE  window[c].count <= Capacity + Rate * (now - window[c].start)
    BY DEF RateIsBounded
  <2>1. /\ now \in Nat /\ window[c].start \in Nat /\ window[c].count \in Nat
        /\ window[c].start <= now
    BY DEF TypeOK, BucketInv
  <2>2. Rate * (now - window[c].start) \in Nat
    BY <2>1, Refilled
  <2>3. CASE window[c].count = 0
    BY <2>1, <2>2, <2>3
  <2>4. CASE bucket[c] # NoBucket /\ window[c].start <= bucket[c].last
    <3>1. /\ bucket[c].last \in Nat /\ bucket[c].tokens \in Nat /\ bucket[c].last <= now
      BY <2>4 DEF BucketInv, TypeOK
    <3>2. window[c].count + bucket[c].tokens
              <= Capacity + Rate * (bucket[c].last - window[c].start)
      BY <2>1, <2>4, <3>1 DEF BucketInv
    <3>3. Rate * (bucket[c].last - window[c].start) <= Rate * (now - window[c].start)
      BY <2>1, <2>4, <3>1, Refilled
    <3>4. Rate * (bucket[c].last - window[c].start) \in Nat
      BY <2>1, <2>4, <3>1, Refilled
    <3> QED
      BY <2>1, <2>2, <3>1, <3>2, <3>3, <3>4
  <2> QED
    BY <2>3, <2>4 DEF BucketInv
<1> QED
  BY <1>1, <1>2, TypeStep, BucketStep, PTL DEF Spec

\* One lockout more is Threshold guesses more.
LEMMA OneLockoutMore ==
    ASSUME NEW a \in Nat
    PROVE  /\ Threshold * (a \div Lockout) \in Nat
           /\ Threshold * ((a + Lockout) \div Lockout)
                 = Threshold * (a \div Lockout) + Threshold
<1>1. a \div Lockout \in Nat
  OBVIOUS
<1>2. (a + Lockout) \div Lockout = (a \div Lockout) + 1
  OBVIOUS
<1>3. ASSUME NEW i \in Nat
      PROVE  Threshold * i \in Nat /\ Threshold * (i + 1) = Threshold * i + Threshold
  OBVIOUS
<1> QED
  BY <1>1, <1>2, <1>3

\* More time is no fewer lockouts.
LEMMA LockoutsMonotonic ==
    ASSUME NEW a \in Nat, NEW b \in Nat, a <= b
    PROVE  Threshold * (a \div Lockout) <= Threshold * (b \div Lockout)
<1>1. a \div Lockout \in Nat /\ b \div Lockout \in Nat
  OBVIOUS
<1>2. a \div Lockout <= b \div Lockout
  OBVIOUS
<1>3. ASSUME NEW i \in Nat, NEW j \in Nat, i <= j
      PROVE  Threshold * i <= Threshold * j
  BY <1>3
<1> QED
  BY <1>1, <1>2, <1>3

LEMMA NoLockout == Threshold * (0 \div Lockout) = 0
<1>1. 0 \div Lockout = 0
  OBVIOUS
<1> QED
  BY <1>1

\* LockInv of one client: since when it has been guessing and how often, its
\* failures and its lockout.
LockOf(t, start, count, f, lock) ==
    /\ start <= t
    /\ f <= count
    /\ lock = NotLocked =>
          /\ f < Threshold
          /\ count <= f + Threshold * ((t - start) \div Lockout)
    /\ lock # NotLocked =>
          /\ Threshold <= count
          /\ start + Lockout <= lock
          /\ lock <= t + Lockout
          /\ count <= Threshold * ((lock - start) \div Lockout)

LEMMA LockInvIsLockOf ==
    LockInv <=> \A c \in Clients :
                   LockOf(now, guesses[c].start, guesses[c].count, fails[c], locked[c])
  BY DEF LockInv, LockOf, Paid

\* A client that is not locked out any more has paid for its failures.
LEMMA Settled ==
    ASSUME TypeOK, LockInv, NEW c \in Clients, ~ IsLocked(c)
    PROVE  /\ LockAfter(c) = NotLocked
           /\ FailsAfter(c) \in Nat
           /\ FailsAfter(c) < Threshold
           /\ LockOf(now, guesses[c].start, guesses[c].count, FailsAfter(c), NotLocked)
<1>1. /\ now \in Nat /\ guesses[c].start \in Nat /\ guesses[c].count \in Nat
      /\ fails[c] \in Nat /\ guesses[c].start <= now
  BY DEF TypeOK, LockInv
<1>2. CASE locked[c] = NotLocked
  BY <1>1, <1>2 DEF LockAfter, FailsAfter, Expired, LockInv, LockOf, Paid
<1>3. CASE locked[c] # NotLocked
  <2>1. /\ locked[c] \in Nat /\ locked[c] <= now /\ guesses[c].start <= locked[c]
        /\ guesses[c].count <= Threshold * ((locked[c] - guesses[c].start) \div Lockout)
    BY <1>1, <1>3 DEF IsLocked, TypeOK, LockInv, Paid
  <2>2. /\ locked[c] - guesses[c].start \in Nat /\ now - guesses[c].start \in Nat
        /\ locked[c] - guesses[c].start <= now - guesses[c].start
    BY <1>1, <2>1
  <2>3. /\ Threshold * ((locked[c] - guesses[c].start) \div Lockout) \in Nat
        /\ Threshold * ((now - guesses[c].start) \div Lockout) \in Nat
        /\ Threshold * ((locked[c] - guesses[c].start) \div Lockout)
              <= Threshold * ((now - guesses[c].start) \div Lockout)
    BY <2>2, OneLockoutMore, LockoutsMonotonic
  <2>4. guesses[c].count <= 0 + Threshold * ((now - guesses[c].start) \div Lockout)
    BY <1>1, <2>1, <2>3
  <2>5. LockAfter(c) = NotLocked /\ FailsAfter(c) = 0
    BY <1>1, <1>3, <2>1 DEF LockAfter, FailsAfter, Expired
  <2> QED
    BY <1>1, <2>4, <2>5 DEF LockOf
<1> QED
  BY <1>2, <1>3

LEMMA LockStep == TypeOK /\ LockInv /\ [Next]_vars => LockInv'
<1> SUFFICES ASSUME TypeOK, LockInv, [Next]_vars PROVE LockInv'
  OBVIOUS
<1>0. ASSUME NEW c \in Clients
      PROVE  /\ now \in Nat /\ guesses[c].start \in Nat /\ guesses[c].count \in Nat
             /\ fails[c] \in Nat /\ locked[c] \in Nat \cup {NotLocked}
             /\ guesses[c].start <= now
             /\ LockOf(now, guesses[c].start, guesses[c].count, fails[c], locked[c])
  BY LockInvIsLockOf DEF TypeOK, LockInv
\* What one client does leaves the others alone.
<1>1. ASSUME NEW c \in Clients, now' = now,
             \A d \in Clients \ {c} : /\ guesses'[d] = guesses[d]
                                      /\ fails'[d] = fails[d]
                                      /\ locked'[d] = locked[d],
             LockOf(now, guesses'[c].start, guesses'[c].count, fails'[c], locked'[c])
      PROVE  LockInv'
  <2>1. ASSUME NEW d \in Clients
        PROVE  LockOf(now', guesses'[d].start, guesses'[d].count, fails'[d], locked'[d])
    <3>1. CASE d = c
      BY <1>1, <3>1
    <3>2. CASE d # c
      <4>1. guesses'[d] = guesses[d] /\ fails'[d] = fails[d] /\ locked'[d] = locked[d]
        BY <1>1, <3>2
      <4> QED
        BY <1>0, <1>1, <4>1
    <3> QED
      BY <3>1, <3>2
  <2> QED
    BY <2>1 DEF LockInv, LockOf, Paid
<1>2. CASE Tick
  <2>1. ASSUME NEW c \in Clients
        PROVE  LockOf(now + 1, guesses[c].start, guesses[c].count, fails[c], locked[c])
    <3> DEFINE d == now - guesses[c].start
    <3>1. d \in Nat /\ d + 1 \in Nat /\ d <= d + 1 /\ (now + 1) - guesses[c].start = d + 1
      BY <1>0
    <3>2. /\ Threshold * (d \div Lockout) \in Nat
          /\ Threshold * ((d + 1) \div Lockout) \in Nat
          /\ Threshold * (d \div Lockout) <= Threshold * ((d + 1) \div Lockout)
      BY <3>1, OneLockoutMore, LockoutsMonotonic
    <3> QED
      BY <1>0, <3>1, <3>2 DEF LockOf
  <2>2. now' = now + 1 /\ guesses' = guesses /\ fails' = fails /\ locked' = locked
    BY <1>2 DEF Tick
  <2> QED
    BY <2>1, <2>2 DEF LockInv, LockOf, Paid
<1>3. ASSUME NEW c \in Clients, OpenWindow(c) \/ RefuseLocked(c) PROVE LockInv'
  BY <1>3 DEF OpenWindow, RefuseLocked, LockInv, Paid
<1>4. ASSUME NEW c \in Clients, RefuseRate(c) \/ PassOpen(c) PROVE LockInv'
  <2>1. /\ ~ IsLocked(c) /\ now' = now /\ guesses' = guesses
        /\ fails' = [fails EXCEPT ![c] = FailsAfter(c)]
        /\ locked' = [locked EXCEPT ![c] = LockAfter(c)]
    BY <1>4 DEF RefuseRate, PassOpen
  <2>2. fails'[c] = FailsAfter(c) /\ locked'[c] = NotLocked
    BY <2>1, Settled DEF TypeOK
  <2>3. LockOf(now, guesses'[c].start, guesses'[c].count, fails'[c], locked'[c])
    BY <2>1, <2>2, Settled
  <2>4. \A d \in Clients \ {c} : fails'[d] = fails[d] /\ locked'[d] = locked[d]
    BY <2>1 DEF TypeOK
  <2> QED
    BY <1>1, <2>1, <2>3, <2>4
<1>5. ASSUME NEW c \in Clients, PassToken(c) PROVE LockInv'
  <2>1. /\ now' = now /\ guesses'[c] = Empty(now) /\ fails'[c] = 0 /\ locked'[c] = NotLocked
        /\ \A d \in Clients \ {c} : /\ guesses'[d] = guesses[d]
                                    /\ fails'[d] = fails[d]
                                    /\ locked'[d] = locked[d]
    BY <1>5 DEF PassToken, TypeOK
  <2>2. now - now = 0 /\ Threshold * (0 \div Lockout) = 0
    BY <1>0, NoLockout
  <2>3. LockOf(now, now, 0, 0, NotLocked)
    BY <1>0, <2>2 DEF LockOf
  <2> QED
    BY <1>1, <2>1, <2>3 DEF Empty
<1>6. ASSUME NEW c \in Clients, RefuseToken(c) PROVE LockInv'
  <2> DEFINE f == FailsAfter(c)
             s == IF guesses[c].count = 0 THEN now ELSE guesses[c].start
             n == guesses[c].count
  <2>1. /\ now' = now /\ ~ IsLocked(c)
        /\ fails'[c] = f + 1
        /\ locked'[c] = IF f + 1 >= Threshold THEN now + Lockout ELSE NotLocked
        /\ \A d \in Clients \ {c} : /\ guesses'[d] = guesses[d]
                                    /\ fails'[d] = fails[d]
                                    /\ locked'[d] = locked[d]
    BY <1>6, Settled DEF RefuseToken, TypeOK
  <2>2. guesses'[c].start = s /\ guesses'[c].count = n + 1
    BY <1>6 DEF RefuseToken, TypeOK
  <2>3. /\ f \in Nat /\ f < Threshold
        /\ LockOf(now, guesses[c].start, n, f, NotLocked)
    BY <2>1, Settled
  <2>4. s \in Nat /\ s <= now /\ n \in Nat /\ now - s \in Nat /\ now \in Nat
    BY <1>0
  <2> DEFINE paid == Threshold * ((now - s) \div Lockout)
  <2>5. paid \in Nat /\ Threshold * ((now - s + Lockout) \div Lockout) = paid + Threshold
    BY <2>4, OneLockoutMore
  <2>6. n <= f + paid
    <3>1. CASE n = 0
      BY <2>3, <2>5, <3>1
    <3>2. CASE n # 0
      <4>1. s = guesses[c].start
        BY <3>2
      <4>2. n <= f + Threshold * ((now - guesses[c].start) \div Lockout)
        BY <2>3 DEF LockOf
      <4> QED
        BY <4>1, <4>2
    <3> QED
      BY <3>1, <3>2
  <2>7. f <= n
    BY <2>3 DEF LockOf
  <2>8. (now + Lockout) - s = now - s + Lockout
    BY <2>4
  <2> HIDE DEF f, s, n
  <2>9. CASE f + 1 >= Threshold
    <3>1. f + 1 = Threshold
      BY <2>3, <2>9
    <3>2. LockOf(now, s, n + 1, f + 1, now + Lockout)
      <4>1. /\ f + 1 <= n + 1 /\ Threshold <= n + 1 /\ n + 1 <= paid + Threshold
        BY <2>3, <2>4, <2>5, <2>6, <2>7, <3>1
      <4>2. now + Lockout # NotLocked
        BY <2>4
      <4>3. s + Lockout <= now + Lockout
        BY <2>4
      <4>4. n + 1 <= Threshold * (((now + Lockout) - s) \div Lockout)
        BY <2>5, <2>8, <4>1
      <4> QED
        BY <2>4, <4>1, <4>2, <4>3, <4>4 DEF LockOf
    <3> QED
      BY <1>1, <2>1, <2>2, <2>9, <3>2
  <2>10. CASE f + 1 < Threshold
    <3>1. n + 1 <= f + 1 + paid /\ f + 1 <= n + 1
      BY <2>3, <2>4, <2>5, <2>6, <2>7
    <3>2. LockOf(now, s, n + 1, f + 1, NotLocked)
      BY <2>4, <2>10, <3>1 DEF LockOf
    <3>3. locked'[c] = NotLocked
      BY <2>1, <2>3, <2>10
    <3> QED
      BY <1>1, <2>1, <2>2, <3>2, <3>3
  <2> QED
    BY <2>3, <2>9, <2>10
<1>7. CASE UNCHANGED vars
  BY <1>7 DEF vars, LockInv, Paid
<1> QED
  BY <1>2, <1>3, <1>4, <1>5, <1>6, <1>7 DEF Next, Request

LEMMA LockInit == Init => LockInv
<1>1. 0 - 0 = 0 /\ Threshold * (0 \div Lockout) = 0
  BY NoLockout
<1>2. LockOf(0, 0, 0, 0, NotLocked)
  BY <1>1 DEF LockOf
<1>3. SUFFICES ASSUME Init
               PROVE  \A c \in Clients :
                  LockOf(now, guesses[c].start, guesses[c].count, fails[c], locked[c])
  BY LockInvIsLockOf
<1>4. \A c \in Clients : /\ now = 0 /\ fails[c] = 0 /\ locked[c] = NotLocked
                          /\ guesses[c].start = 0 /\ guesses[c].count = 0
  BY <1>3 DEF Init, Empty
<1> QED
  BY <1>2, <1>4

\* No client is locked out without Threshold failed checks in a row, and no lockout
\* lasts longer than it should, for every threshold and duration.
THEOREM LockEarned == Spec => []LockIsEarned
<1>1. Init => TypeOK /\ BucketInv /\ LockInv
  BY LockInit DEF Init, Empty, TypeOK, BucketInv, Statuses
<1>2. LockInv => LockIsEarned
  BY DEF LockInv, LockIsEarned
<1> QED
  BY <1>1, <1>2, TypeStep, BucketStep, LockStep, PTL DEF Spec

\* A client that guesses tokens gets Threshold guesses, and Threshold more for every
\* lockout that passes, for every threshold and duration.
THEOREM GuessBound == Spec => []GuessesAreBounded
<1>1. Init => TypeOK /\ BucketInv /\ LockInv
  BY LockInit DEF Init, Empty, TypeOK, BucketInv, Statuses
<1>2. TypeOK /\ LockInv => GuessesAreBounded
  <2> SUFFICES ASSUME TypeOK, LockInv, NEW c \in Clients
               PROVE  guesses[c].count
                         <= Threshold * (1 + (now - guesses[c].start) \div Lockout)
    BY DEF GuessesAreBounded
  <2> DEFINE d == now - guesses[c].start
             paid == Threshold * (d \div Lockout)
  <2>1. /\ now \in Nat /\ guesses[c].start \in Nat /\ guesses[c].count \in Nat
        /\ fails[c] \in Nat /\ d \in Nat
    BY DEF TypeOK, LockInv
  <2>2. /\ paid \in Nat
        /\ Threshold * ((d + Lockout) \div Lockout) = paid + Threshold
    BY <2>1, OneLockoutMore
  <2>3. Threshold * (1 + d \div Lockout) = paid + Threshold
    <3>1. ASSUME NEW i \in Nat PROVE Threshold * (1 + i) = Threshold * i + Threshold
      OBVIOUS
    <3>2. d \div Lockout \in Nat
      BY <2>1
    <3> QED
      BY <3>1, <3>2
  <2>4. CASE locked[c] = NotLocked
    BY <2>1, <2>2, <2>3, <2>4 DEF LockInv, Paid
  <2>5. CASE locked[c] # NotLocked
    <3>1. /\ locked[c] \in Nat /\ guesses[c].start <= locked[c]
          /\ locked[c] <= now + Lockout
          /\ guesses[c].count <= Threshold * ((locked[c] - guesses[c].start) \div Lockout)
      BY <2>1, <2>5 DEF TypeOK, LockInv, Paid
    <3>2. /\ locked[c] - guesses[c].start \in Nat
          /\ d + Lockout \in Nat
          /\ locked[c] - guesses[c].start <= d + Lockout
      BY <2>1, <3>1
    <3>3. /\ Threshold * ((locked[c] - guesses[c].start) \div Lockout) \in Nat
          /\ Threshold * ((locked[c] - guesses[c].start) \div Lockout)
                <= Threshold * ((d + Lockout) \div Lockout)
      BY <3>2, OneLockoutMore, LockoutsMonotonic
    <3> QED
      BY <2>1, <2>2, <2>3, <3>1, <3>3
  <2> QED
    BY <2>4, <2>5
<1> QED
  BY <1>1, <1>2, TypeStep, BucketStep, LockStep, PTL DEF Spec

\* A client that has waited for a token is let in, or refused for something else,
\* for every capacity and rate.
THEOREM PacedPasses == Spec => PacedIsLetIn
<1>1. ASSUME TypeOK, Next, NEW c \in Clients, bucket[c] # NoBucket,
             bucket'[c] # bucket[c], (now - bucket[c].last) * Rate >= 1
      PROVE  status'[c] # "rate limit"
  <2>1. PICK d \in Clients : Request(d)
    BY <1>1 DEF Next, Tick, OpenWindow
  <2>2. \E n, s : SetTokens(d, n) /\ Answer(d, s)
    BY <1>1, <2>1 DEF Request, RefuseLocked, RefuseRate, PassOpen, PassToken, RefuseToken, LetIn
  <2>3. d = c
    BY <1>1, <2>2 DEF SetTokens, TypeOK
  <2>4. Tokens(c) >= 1
    <3> DEFINE regained == (now - bucket[c].last) * Rate
    <3>1. /\ bucket[c].tokens \in Nat /\ bucket[c].last \in Nat /\ now \in Nat
          /\ Capacity \in Nat /\ Capacity >= 1
      BY <1>1 DEF TypeOK
    <3>2. regained \in Int
      BY <3>1
    <3>3. regained >= 1
      BY <1>1
    <3>4. Tokens(c) = Smaller(Capacity, bucket[c].tokens + regained)
      BY <1>1 DEF Tokens
    <3> HIDE DEF regained
    <3> QED
      BY <3>1, <3>2, <3>3, <3>4 DEF Smaller
  <2>5. Tokens(c) \in Int
    <3>1. /\ bucket[c].tokens \in Nat /\ bucket[c].last \in Nat /\ now \in Nat
      BY <1>1 DEF TypeOK
    <3> QED
      BY <1>1, <3>1 DEF Tokens, Smaller
  <2>6. ~ RefuseRate(c)
    <3>1. RefuseRate(c) => Tokens(c) < 1
      BY DEF RefuseRate
    <3> QED
      BY <2>4, <2>5, <3>1
  <2>7. \E s \in {"locked out", "passed", "unauthorized"} : Answer(c, s)
    BY <2>1, <2>3, <2>6 DEF Request, RefuseLocked, PassOpen, PassToken, RefuseToken
  <2> QED
    BY <1>1, <2>7 DEF Answer, TypeOK
<1>2. TypeOK /\ [Next]_vars =>
         [\A c \in Clients :
            /\ bucket[c] # NoBucket
            /\ bucket'[c] # bucket[c]
            /\ (now - bucket[c].last) * Rate >= 1
            => status'[c] # "rate limit"]_vars
  BY <1>1
<1> QED
  BY <1>2, TypeCorrect, PTL DEF Spec, PacedIsLetIn
=============================================================================
