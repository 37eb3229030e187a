-------------------------- MODULE SensitiveActions --------------------------
(***************************************************************************)
(* The actions that ask for a one-time code, with what they act on: a      *)
(* command of the operating-system agent (api_agent_run and agent/         *)
(* os_agent.py) and a secret put into the vault (api_vault_set and         *)
(* security/vault.py); the codes are those of security/totp.py.            *)
(*                                                                         *)
(* A handler runs without a suspension up to its await; only a command has *)
(* one, for its process to end or for the timeout.  The vault's is one     *)
(* step: read the file, decrypt it, put the secret in, write it anew.      *)
(*                                                                         *)
(* A code is told apart by the period it is made for, without collisions.  *)
(* AES-GCM is symbolic: a file opens with the passphrase it was written    *)
(* with, and a file that is not whole opens with none.                     *)
(*                                                                         *)
(* The clock and what every module has have names of their own here:       *)
(* Access_proofs extends this module together with RequestGuard.           *)
(***************************************************************************)
EXTENDS Integers

CONSTANTS
    Runs,           \* requests that run a command
    Names, Values,  \* of secrets
    Passphrases,    \* BODDOS_VAULT_PASSPHRASE, one start or another
    Locked,         \* no passphrase is set
    Absent, Torn,   \* there is no vault file; it was not written to its end
    Unreadable,     \* load() raises
    NoCode,         \* a request without a code
    Require2FA,     \* require_2fa, with a secret configured
    Step, Window,   \* totp.verify: 30 seconds, 1 period either way
    MaxSkew,        \* by how much a phone's clock may be off
    MaxNow          \* bound on the clock

\* The values of secrets by their names, and the files that hold them.
SecretMaps == UNION {[known -> Values] : known \in SUBSET Names}
VaultFiles == [pass : Passphrases, data : SecretMaps]

ASSUME SensitiveAssumption ==
    /\ {Window, MaxSkew, MaxNow} \subseteq Nat
    /\ Step \in Nat \ {0}
    /\ Require2FA \in BOOLEAN
    /\ Locked \notin Passphrases
    /\ {Absent, Torn} \cap VaultFiles = {} /\ Absent # Torn

VARIABLES
    clock,      \* time.time()
    stage,      \* of a request: idle, waiting for its process, or its answer
    proc,       \* its process: none, running or exited
    pass,       \* the passphrase of the vault
    vault,      \* the vault file
    \* ghost
    kept        \* what each name may hold: the secret last acknowledged, with its
                \* passphrase, and those written since by a request that failed

runVars == <<stage, proc>>
vaultVars == <<vault, kept>>
actionVars == <<clock, runVars, pass, vaultVars>>

NoSecrets == [n \in {} |-> n]

Answers == {"refused", "rejected", "done", "timed out", "raised", "lost"}

ActionTypeOK ==
    /\ clock \in 0 .. MaxNow
    /\ stage \in [Runs -> {"idle", "waiting"} \cup Answers]
    /\ proc \in [Runs -> {"none", "running", "exited"}]
    /\ pass \in Passphrases \cup {Locked}
    /\ vault \in VaultFiles \cup {Absent, Torn}
    /\ kept \in [Names -> SUBSET (Values \X Passphrases)]

ActionInit ==
    /\ clock = 0
    /\ stage = [r \in Runs |-> "idle"]
    /\ proc = [r \in Runs |-> "none"]
    /\ pass \in Passphrases \cup {Locked}
    /\ vault = Absent
    /\ kept = [n \in Names |-> {}]
-----------------------------------------------------------------------------
\* _hotp: the code of the period a clock is in.
CodeAt(time) == time \div Step

\* Mutant of Verify: range(-window, window).
VerifyShort(code) == \E w \in -Window .. Window - 1 : code = CodeAt(clock) + w

Verify(code) == \E w \in -Window .. Window : code = CodeAt(clock) + w

\* When a phone whose clock is off by s showed the code that was typed d ago.
ShownAt(d, s) == clock - d + s
Skews == -MaxSkew .. MaxSkew

\* What a request may bring: any code a phone has shown, or none.
Typed == {CodeAt(ShownAt(d, s)) : d \in 0 .. clock, s \in Skews} \cup {NoCode}

\* _require_2fa
Passes(code) == Require2FA => code # NoCode /\ Verify(code)

\* The record that ends a handler may raise (a full disk): the answer is a 500.
EndRun(r, said) == \E a \in {said, "raised"} : stage' = [stage EXCEPT ![r] = a]

\* A command without a valid code.
RefuseRun(r) ==
    /\ stage[r] = "idle"
    /\ \E code \in Typed : ~ Passes(code)
    /\ EndRun(r, "refused")
    /\ UNCHANGED <<clock, proc, pass, vaultVars>>

\* The agent is disabled, the command not confirmed, not parsed, empty or not
\* allowed, or there is no such program; or (a 500) no directory to work in: no
\* process starts.
RejectRun(r) ==
    /\ stage[r] = "idle"
    /\ \E code \in Typed : Passes(code)
    /\ EndRun(r, "rejected")
    /\ UNCHANGED <<clock, proc, pass, vaultVars>>

\* The process exists before the first suspension.
StartRun(r) ==
    /\ stage[r] = "idle"
    /\ \E code \in Typed : Passes(code)
    /\ stage' = [stage EXCEPT ![r] = "waiting"]
    /\ proc' = [proc EXCEPT ![r] = "running"]
    /\ UNCHANGED <<clock, pass, vaultVars>>

\* The program ends by itself; nobody else ends it.
Exit(r) ==
    /\ proc[r] = "running"
    /\ proc' = [proc EXCEPT ![r] = "exited"]
    /\ UNCHANGED <<clock, stage, pass, vaultVars>>

\* communicate() returns.
Collect(r) ==
    /\ stage[r] = "waiting"
    /\ proc[r] = "exited"
    /\ EndRun(r, "done")
    /\ UNCHANGED <<clock, proc, pass, vaultVars>>

\* Mutant of TimeOut: the timeout is on the start of the process only.
TimeOutStart(r) ==
    /\ stage[r] = "waiting" /\ proc[r] = "none"
    /\ EndRun(r, "timed out")
    /\ UNCHANGED <<clock, proc, pass, vaultVars>>

\* wait_for() gives up after 30 seconds, whether or not the process has ended by
\* then, and leaves it alone.
TimeOut(r) ==
    /\ stage[r] = "waiting"
    /\ EndRun(r, "timed out")
    /\ UNCHANGED <<clock, proc, pass, vaultVars>>
-----------------------------------------------------------------------------
\* Mutant of Load: a file that cannot be decrypted counts as an empty one.
LoadForgiving ==
    IF vault \in {Absent, Torn} \/ vault.pass # pass THEN NoSecrets ELSE vault.data

Load ==
    IF vault = Absent THEN NoSecrets
    ELSE IF vault = Torn \/ vault.pass # pass THEN Unreadable
    ELSE vault.data

\* SecretVault.save, when it ends.
Saved(data) == [pass |-> pass, data |-> data]

With(data, n, v) == [m \in DOMAIN data \cup {n} |-> IF m = n THEN v ELSE data[m]]

\* SecretVault.set on an unlocked vault with a valid code.  If the record behind
\* it raises, the secret is in the file and the client is told that it failed.
SetSecret(n, v) ==
    /\ pass # Locked
    /\ \E code \in Typed : Passes(code)
    /\ Load # Unreadable
    /\ vault' = Saved(With(Load, n, v))
    /\ \/ kept' = [kept EXCEPT ![n] = {<<v, pass>>}]
       \/ kept' = [kept EXCEPT ![n] = IF @ = {} THEN {} ELSE @ \cup {<<v, pass>>}]
    /\ UNCHANGED <<clock, runVars, pass>>

\* The node is killed or the disk is full between the truncation of the file and
\* the end of the write.
SetTorn ==
    /\ pass # Locked
    /\ \E code \in Typed : Passes(code)
    /\ Load # Unreadable
    /\ vault' = Torn
    /\ UNCHANGED <<clock, runVars, pass, kept>>

\* A start of the node, perhaps with another passphrase.  Requests under way are
\* lost; their processes may be left.
Restart ==
    /\ pass' \in Passphrases \cup {Locked}
    /\ stage' = [r \in Runs |-> IF stage[r] = "waiting" THEN "lost" ELSE stage[r]]
    /\ UNCHANGED <<clock, proc, vaultVars>>

ClockTicks ==
    /\ clock < MaxNow
    /\ clock' = clock + 1
    /\ UNCHANGED <<runVars, pass, vaultVars>>

Handle(r) == Collect(r) \/ TimeOut(r)

ActionNext ==
    \/ \E r \in Runs : RefuseRun(r) \/ RejectRun(r) \/ StartRun(r) \/ Exit(r)
    \/ \E r \in Runs : Handle(r)
    \/ \E n \in Names, v \in Values : SetSecret(n, v)
    \/ SetTorn
    \/ Restart
    \/ ClockTicks

\* The event loop resumes a handler when its process has ended or after the
\* timeout.  Nothing is assumed of programs and clients.
ActionSpec ==
    /\ ActionInit /\ [][ActionNext]_actionVars
    /\ \A r \in Runs : WF_actionVars(Handle(r))
-----------------------------------------------------------------------------
\* A secret that was acknowledged stays in the vault, under its passphrase and
\* with its value, through sets of other secrets, sets that fail behind the write,
\* restarts, and starts with a wrong passphrase; unless a write of the file was torn.
SecretsSurvive ==
    \A n \in Names : kept[n] # {} /\ vault # Torn =>
        /\ vault # Absent
        /\ n \in DOMAIN vault.data
        /\ <<vault.data[n], vault.pass>> \in kept[n]

\* A code typed and sent promptly on a phone whose clock is about right passes,
\* on whichever side of a boundary of the periods either clock is; one that was
\* shown long ago, or is far ahead, does not.
CodesAreTimely ==
    \A d \in 0 .. clock, s \in Skews :
        LET off == IF s < d THEN d - s ELSE s - d
        IN  /\ off <= Window * Step => Verify(CodeAt(ShownAt(d, s)))
            /\ off >= (Window + 1) * Step => ~ Verify(CodeAt(ShownAt(d, s)))

\* Every command is answered, even if its program never ends, and as it is: a
\* result is that of a process that has ended, a rejected command has not been
\* started, and only behind a timeout, an error or a restart is one left running.
Told(r) ==
    \/ stage[r] = "done" /\ proc[r] = "exited"
    \/ stage[r] \in {"refused", "rejected"} /\ proc[r] = "none"
    \/ stage[r] \in {"timed out", "raised", "lost"}

RunsEnd == \A r \in Runs : stage[r] # "idle" ~> Told(r)
=============================================================================
