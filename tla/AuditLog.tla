------------------------------ MODULE AuditLog ------------------------------
(***************************************************************************)
(* The audit log (boddos/security/audit.py): one JSON line for a record,   *)
(* each with the hash of the one before it.                                *)
(*                                                                         *)
(* record() reads the last line and appends a line, under a lock, so it is *)
(* one step.  The append may be torn: the process is killed or the disk is *)
(* full after a part of the line was written.  Lines that were written may *)
(* also be damaged later.                                                  *)
(*                                                                         *)
(* An entry is told apart by its number (in the code, by its time).  The   *)
(* hash of an entry is symbolic and without collisions: the hash before    *)
(* it, with the number appended.  Garbage is a line json.loads() refuses.  *)
(*                                                                         *)
(* LogSpec and its parts have names of their own: Trust_proofs extends     *)
(* this module together with MeshAuth.                                     *)
(***************************************************************************)
EXTENDS Naturals, FiniteSets, FiniteSetsExt, Sequences, SequencesExt

CONSTANTS
    Garbage,        \* a line that is not JSON
    MaxRecords,     \* bound on the calls of record()
    MaxTears,       \* bound on the writes that are torn
    MaxDamages      \* bound on the lines damaged

VARIABLES
    file,       \* the lines of the file
    records,    \* how often record() was called
    \* ghosts
    returned,   \* the entries record() returned to its caller
    tears, damages

logVars == <<file, records, returned, tears, damages>>

Genesis == <<>>     \* "0" * 64
Ids == 0 .. MaxRecords
JsonEntries == [id : Ids, prev : Seq(Ids), hash : Seq(Ids)]
Entries == JsonEntries \cup {Garbage}

ASSUME AuditLogAssumption ==
    /\ {MaxRecords, MaxTears, MaxDamages} \subseteq Nat
    /\ Garbage \notin JsonEntries

LogTypeOK ==
    /\ file \in Seq([entry : Entries, eol : BOOLEAN])
    /\ records \in Ids
    /\ returned \subseteq 1 .. records
    /\ tears \in 0 .. MaxTears
    /\ damages \in 0 .. MaxDamages

LogInit ==
    /\ file = <<>>
    /\ records = 0
    /\ returned = {}
    /\ tears = 0
    /\ damages = 0
-----------------------------------------------------------------------------
\* _last_hash: a last line that cannot be read counts as no line.
LastHash == IF file = <<>> \/ Last(file).entry = Garbage
            THEN Genesis ELSE Last(file).entry.hash

\* The entry record() makes.
NewEntry == [id |-> records + 1, prev |-> LastHash,
             hash |-> Append(LastHash, records + 1)]

\* Mutant of Write: what follows a line that is garbage continues it.
WriteMerges(entry, eol) ==
    file' = IF file = <<>> \/ (Last(file).eol /\ Last(file).entry # Garbage)
            THEN Append(file, [entry |-> entry, eol |-> eol])
            ELSE [file EXCEPT ![Len(file)] = [entry |-> Garbage, eol |-> eol]]

\* Mutant of Write: a line without an end is overwritten.
WriteOver(entry, eol) ==
    file' = IF file = <<>> \/ Last(file).eol
            THEN Append(file, [entry |-> entry, eol |-> eol])
            ELSE [file EXCEPT ![Len(file)] = [entry |-> entry, eol |-> eol]]

\* open("a"): what is written continues a line that has no end.
Write(entry, eol) ==
    file' = IF file = <<>> \/ Last(file).eol
            THEN Append(file, [entry |-> entry, eol |-> eol])
            ELSE [file EXCEPT ![Len(file)] = [entry |-> Garbage, eol |-> eol]]

Call == records < MaxRecords /\ records' = records + 1

Record ==
    /\ Call
    /\ Write(NewEntry, TRUE)
    /\ returned' = returned \cup {records + 1}
    /\ UNCHANGED <<tears, damages>>

\* A part of the line is written, or all of it but its end; record() does not
\* return.
TornRecord ==
    /\ Call
    /\ tears < MaxTears
    /\ tears' = tears + 1
    /\ \E entry \in {Garbage, NewEntry} : Write(entry, FALSE)
    /\ UNCHANGED <<returned, damages>>

\* verify_chain: the lines in order, up to the first that is wrong.
PrevAt(i) == IF i = 1 THEN Genesis ELSE file[i - 1].entry.hash

\* Mutant of Chained: the hash is checked, the link to the entry before is not.
HashedOnly(i) == file[i].entry.hash = Append(file[i].entry.prev, file[i].entry.id)

Chained(i) ==
    /\ file[i].entry.prev = PrevAt(i)
    /\ file[i].entry.hash = Append(PrevAt(i), file[i].entry.id)

Readable(i) == file[i].entry # Garbage

Stops == {i \in DOMAIN file : ~ Readable(i)}
FirstStop == IF Stops = {} THEN Len(file) + 1 ELSE Min(Stops)
Breaks == {i \in 1 .. FirstStop - 1 : ~ Chained(i)}

VerifyChain ==
    IF Breaks # {} THEN [says |-> "broken", count |-> Min(Breaks) - 1]
    ELSE IF Stops # {} THEN [says |-> "raised", count |-> 0]
    ELSE [says |-> "intact", count |-> Len(file)]
-----------------------------------------------------------------------------
\* Damage: an entry is changed, some lines in a row are lost, or two lines change
\* places.  The last line is never lost: the chain does not say where it ends.
Change(i) == Readable(i) /\ file' = [file EXCEPT ![i].entry.id = 0]
Lose(i, j) ==
    /\ i <= j /\ j < Len(file)
    /\ file' = SubSeq(file, 1, i - 1) \o SubSeq(file, j + 1, Len(file))
Swap(i, j) ==
    /\ i < j
    /\ file' = [file EXCEPT ![i].entry = file[j].entry, ![j].entry = file[i].entry]

Damage ==
    /\ damages < MaxDamages
    /\ damages' = damages + 1
    /\ \E i, j \in DOMAIN file : Change(i) \/ Lose(i, j) \/ Swap(i, j)
    /\ UNCHANGED <<records, returned, tears>>

LogNext == Record \/ TornRecord \/ Damage

LogSpec == LogInit /\ [][LogNext]_logVars
-----------------------------------------------------------------------------
Legible == {file[i].entry.id : i \in {j \in DOMAIN file : Readable(j)}}

\* When verify_chain() says that the log is intact and nothing was damaged, every
\* entry that record() returned is in it, in its order, and counted, after torn
\* writes as well; and a damage to lines that were all written whole is not called
\* intact, neither at once nor after more records.  After tears and damage it may
\* be, because the chain begins anew behind a torn line: when the lines up to there
\* are lost, the rest looks intact.  So may two damages, one that moves the last
\* line and one that then loses it.
IntactIsComplete ==
    VerifyChain.says = "intact" =>
        /\ damages = 0 =>
              /\ returned \subseteq Legible
              /\ VerifyChain.count >= Cardinality(returned)
              /\ \A i, j \in DOMAIN file : i < j => file[i].entry.id < file[j].entry.id
        /\ tears = 0 => damages # 1

\* A log that was not intact does not become intact by recording more.
NeverHeals ==
    [][damages' = damages /\ VerifyChain.says # "intact"
         => VerifyChain'.says # "intact"]_logVars

\* A torn write costs, besides its own entry, at most one entry: the one that
\* record() writes next, on the same line.
TearsCostLittle == damages = 0 => Cardinality(returned \ Legible) <= tears
=============================================================================
