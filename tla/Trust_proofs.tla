---------------------------- MODULE Trust_proofs ----------------------------
(***************************************************************************)
(* Theorems about what lets a node trust what it is told and what it has   *)
(* written: the signatures between nodes (MeshAuth) and the audit log      *)
(* (AuditLog).                                                             *)
(*                                                                         *)
(* The chain of the log: a returned entry can only be missing behind a     *)
(* line that cannot be read, and a line without its end stands for a torn  *)
(* write that has not cost an entry yet (OpenInv); as long as every line   *)
(* was written whole, the file is the chain of the numbers (Pristine), and *)
(* any one damage leaves a line that is not chained (Unchained).           *)
(*                                                                         *)
(* The signatures: an accepted nonce is in the cache until its timestamp   *)
(* can no longer be fresh (ReplayInv), and a timestamp is what a peer's    *)
(* clock showed when it signed (SignedInv).                                *)
(***************************************************************************)
EXTENDS MeshAuth, AuditLog, SequenceTheorems, FiniteSetTheorems, TLAPS

-----------------------------------------------------------------------------
(***************************************************************************)
(* The audit log.                                                          *)
(***************************************************************************)

Lines == [entry : Entries, eol : BOOLEAN]

\* Appending a line, or spoiling the last one.
Appended(line) ==
    /\ Len(file') = Len(file) + 1
    /\ file'[Len(file) + 1] = line
    /\ \A i \in 1 .. Len(file) : file'[i] = file[i]

Spoilt(eol) ==
    /\ Len(file) > 0 /\ Len(file') = Len(file)
    /\ file'[Len(file)] = [entry |-> Garbage, eol |-> eol]
    /\ \A i \in 1 .. Len(file) - 1 : file'[i] = file[i]

\* The last line has no end, so that the next record continues it.
Open == file # <<>> /\ ~ Last(file).eol

LEMMA LogFacts ==
    ASSUME LogTypeOK
    PROVE  /\ file \in Seq(Lines) /\ Len(file) \in Nat /\ DOMAIN file = 1 .. Len(file)
           /\ file # <<>> <=> Len(file) > 0
           /\ \A i \in 1 .. Len(file) :
                 /\ file[i].entry \in Entries /\ file[i].eol \in BOOLEAN
                 /\ Readable(i) => file[i].entry \in JsonEntries
           /\ records \in Nat /\ records <= MaxRecords
           /\ returned \subseteq 1 .. records /\ IsFiniteSet(returned)
           /\ tears \in Nat /\ damages \in Nat
<1>1. /\ file \in Seq(Lines) /\ returned \subseteq 1 .. records
      /\ records \in Ids /\ tears \in Nat /\ damages \in Nat
  BY DEF LogTypeOK, Lines
<1>2. /\ Len(file) \in Nat /\ DOMAIN file = 1 .. Len(file)
      /\ file # <<>> <=> Len(file) > 0
  BY <1>1, LenProperties, EmptySeq
<1>3. \A i \in 1 .. Len(file) : file[i] \in Lines
  BY <1>1, ElementOfSeq
<1>4. records \in Nat /\ records <= MaxRecords
  BY <1>1, AuditLogAssumption DEF Ids, AuditLogAssumption
<1>5. IsFiniteSet(1 .. records)
  BY <1>4, FS_Interval
<1>6. IsFiniteSet(returned)
  BY <1>1, <1>5, FS_Subset
<1> QED
  BY <1>1, <1>2, <1>3, <1>4, <1>6 DEF Lines, Readable, Entries

LEMMA WriteStep ==
    ASSUME LogTypeOK, NEW entry \in Entries, NEW eol \in BOOLEAN, Write(entry, eol)
    PROVE  /\ file' \in Seq(Lines)
           /\ Open => Spoilt(eol)
           /\ ~ Open => Appended([entry |-> entry, eol |-> eol])
<1> DEFINE line == [entry |-> entry, eol |-> eol]
           spoilt == [entry |-> Garbage, eol |-> eol]
<1>0. file \in Seq(Lines) /\ Len(file) \in Nat /\ (file # <<>> <=> Len(file) > 0)
  BY LogFacts
<1>1. line \in Lines /\ spoilt \in Lines
  BY DEF Lines, Entries
<1>2. CASE Open
  <2>1. file' = [file EXCEPT ![Len(file)] = spoilt]
    BY <1>2 DEF Write, Open
  <2> HIDE DEF spoilt
  <2>2. Len(file) \in 1 .. Len(file)
    BY <1>0, <1>2 DEF Open
  <2>3. /\ file' \in Seq(Lines) /\ Len(file') = Len(file)
        /\ file'[Len(file)] = spoilt
        /\ \A i \in 1 .. Len(file) - 1 : file'[i] = file[i]
    BY <1>0, <1>1, <2>1, <2>2, ExceptSeq
  <2> QED
    BY <1>0, <1>2, <2>3 DEF Open, Spoilt, spoilt
<1>3. CASE ~ Open
  <2>1. file' = Append(file, line)
    BY <1>3 DEF Write, Open
  <2> HIDE DEF line
  <2>2. /\ file' \in Seq(Lines) /\ Len(file') = Len(file) + 1
        /\ file'[Len(file) + 1] = line
        /\ \A i \in 1 .. Len(file) : file'[i] = file[i]
    BY <1>0, <1>1, <2>1, AppendProperties
  <2> QED
    BY <1>3, <2>2 DEF Appended, line
<1> QED
  BY <1>2, <1>3

\* Some line is one at which verify_chain() stops or breaks off.
Flawed == \E i \in 1 .. Len(file) : ~ (Readable(i) /\ Chained(i))

\* Without a torn write every line is an entry with its end; ...
Whole == \A i \in 1 .. Len(file) : Readable(i) /\ file[i].eol

\* ... until it is damaged, the log holds the records in order, each with the
\* numbers up to its own for its hash; ...
Numbers(n) == [k \in 1 .. n |-> k]

LineOf(i) == [entry |-> [id |-> i, prev |-> Numbers(i - 1), hash |-> Numbers(i)],
              eol |-> TRUE]

Pristine == Len(file) = records /\ \A i \in 1 .. Len(file) : file[i] = LineOf(i)

\* ... and a damage leaves a line that is not chained to the one before it.
Unchained == \E i \in 1 .. Len(file) : ~ Chained(i)

\* With torn writes the entries that can be read are still in order, ...
Ascending ==
    \A i \in 1 .. Len(file) : Readable(i) =>
        /\ file[i].entry.id \in 1 .. records
        /\ \A j \in 1 .. Len(file) :
              Readable(j) /\ i < j => file[i].entry.id < file[j].entry.id

\* ... what is missing has left a line that cannot be read, ...
MissingShows == (\A i \in 1 .. Len(file) : Readable(i)) => returned \subseteq Legible

\* ... and a line without an end is that of a call that did not return: it may
\* still cost one more entry.
Missing == returned \ Legible

OpenInv ==
    /\ Cardinality(Missing) <= tears
    /\ Open => /\ Cardinality(Missing) + 1 <= tears
               /\ Readable(Len(file)) => file[Len(file)].entry.id \notin returned

LogInv ==
    /\ LogTypeOK
    /\ tears = 0 => Whole
    /\ tears = 0 /\ damages = 0 => Pristine
    /\ tears = 0 /\ damages = 1 => Unchained
    /\ damages = 0 => Ascending /\ MissingShows /\ OpenInv

\* The line that record() is about to write.
LEMMA NewEntryType ==
    ASSUME LogTypeOK, Call
    PROVE  /\ LastHash \in Seq(Ids)
           /\ NewEntry \in JsonEntries /\ NewEntry # Garbage
           /\ NewEntry \in Entries /\ Garbage \in Entries
           /\ NewEntry.id = records + 1 /\ NewEntry.prev = LastHash
           /\ records' = records + 1 /\ records + 1 \in Ids
<1>1. records' = records + 1 /\ records + 1 \in Ids
  BY LogFacts, AuditLogAssumption DEF Call, Ids, AuditLogAssumption
<1>2. LastHash \in Seq(Ids)
  <2>1. CASE file = <<>> \/ Last(file).entry = Garbage
    BY <2>1 DEF LastHash, Genesis
  <2>2. CASE ~ (file = <<>> \/ Last(file).entry = Garbage)
    <3>1. Len(file) \in 1 .. Len(file)
      BY <2>2, LogFacts
    <3>2. Last(file).entry \in JsonEntries
      BY <2>2, <3>1, LogFacts DEF Last, Readable
    <3> QED
      BY <2>2, <3>2 DEF LastHash, JsonEntries
  <2> QED
    BY <2>1, <2>2
<1>3. Append(LastHash, records + 1) \in Seq(Ids)
  BY <1>1, <1>2, AppendProperties
<1>4. NewEntry \in JsonEntries /\ NewEntry.id = records + 1 /\ NewEntry.prev = LastHash
  BY <1>1, <1>2, <1>3 DEF NewEntry, JsonEntries
<1> QED
  BY <1>1, <1>2, <1>4, AuditLogAssumption DEF Entries, AuditLogAssumption

LEMMA RecordType ==
    ASSUME LogTypeOK, Record \/ TornRecord
    PROVE  /\ LogTypeOK' /\ damages' = damages /\ records' = records + 1
           /\ tears <= tears'
           /\ \E entry \in {Garbage, NewEntry}, eol \in BOOLEAN : Write(entry, eol)
<1>0. Call /\ records' = records + 1
  BY DEF Record, TornRecord, Call
<1>1. \E entry \in {Garbage, NewEntry}, eol \in BOOLEAN : Write(entry, eol)
  BY DEF Record, TornRecord
<1>2. file' \in Seq(Lines)
  BY <1>0, <1>1, NewEntryType, WriteStep
<1>3. /\ damages' = damages /\ tears' \in 0 .. MaxTears /\ tears <= tears'
      /\ returned' \subseteq returned \cup {records + 1}
  <2>1. tears \in Nat /\ tears \in 0 .. MaxTears /\ MaxTears \in Nat
    BY LogFacts, AuditLogAssumption DEF LogTypeOK, AuditLogAssumption
  <2>2. CASE Record
    BY <2>1, <2>2 DEF Record
  <2>3. CASE TornRecord
    BY <2>1, <2>3 DEF TornRecord
  <2> QED
    BY <2>2, <2>3
<1>4. returned' \subseteq 1 .. records'
  BY <1>0, <1>3, LogFacts
<1>5. records' \in Ids
  BY <1>0, NewEntryType
<1> QED
  BY <1>0, <1>1, <1>2, <1>3, <1>4, <1>5 DEF LogTypeOK, Lines

\* What a damage does, line by line.
Changed(i) ==
    /\ Readable(i) /\ Len(file') = Len(file)
    /\ file'[i] = [file[i] EXCEPT !.entry.id = 0]
    /\ \A k \in (1 .. Len(file)) \ {i} : file'[k] = file[k]

Lost(i, j) ==
    /\ i <= j /\ j < Len(file)
    /\ Len(file') = Len(file) - (j - i + 1)
    /\ \A k \in 1 .. i - 1 : file'[k] = file[k]
    /\ \A k \in i .. Len(file') : file'[k] = file[k + (j - i + 1)]

Swapped(i, j) ==
    /\ i < j /\ Len(file') = Len(file)
    /\ file'[i] = [file[i] EXCEPT !.entry = file[j].entry]
    /\ file'[j] = [file[j] EXCEPT !.entry = file[i].entry]
    /\ \A k \in (1 .. Len(file)) \ {i, j} : file'[k] = file[k]

LEMMA ChangeStep ==
    ASSUME LogTypeOK, NEW i \in 1 .. Len(file), Change(i)
    PROVE  file' \in Seq(Lines) /\ Changed(i)
<1> DEFINE line == [file[i] EXCEPT !.entry.id = 0]
<1>f. file \in Seq(Lines) /\ Len(file) \in Nat /\ file[i] \in Lines
  BY LogFacts, ElementOfSeq
<1>1. file' = [file EXCEPT ![i] = line] /\ Readable(i)
  BY <1>f DEF Change
<1>2. file[i].entry \in JsonEntries /\ 0 \in Ids
  BY <1>f, <1>1, LogFacts, AuditLogAssumption DEF Ids, AuditLogAssumption
<1>3. line \in Lines
  BY <1>f, <1>2 DEF Lines, Entries, JsonEntries
<1>4. line = [file[i] EXCEPT !.entry.id = 0]
  OBVIOUS
<1> HIDE DEF line
<1>5. /\ file' \in Seq(Lines) /\ Len(file') = Len(file) /\ file'[i] = line
      /\ \A k \in (1 .. Len(file)) \ {i} : file'[k] = file[k]
  BY <1>f, <1>1, <1>3, ExceptSeq
<1> QED
  BY <1>1, <1>4, <1>5 DEF Changed

LEMMA LoseStep ==
    ASSUME LogTypeOK, NEW i \in 1 .. Len(file), NEW j \in 1 .. Len(file), Lose(i, j)
    PROVE  file' \in Seq(Lines) /\ Lost(i, j)
<1> DEFINE front == SubSeq(file, 1, i - 1)
           back == SubSeq(file, j + 1, Len(file))
<1>f. file \in Seq(Lines) /\ Len(file) \in Nat
  BY LogFacts
<1>1. i <= j /\ j < Len(file) /\ file' = front \o back
  BY DEF Lose
<1>2. /\ front \in Seq(Lines) /\ Len(front) = i - 1
      /\ \A k \in 1 .. i - 1 : front[k] = file[k]
  BY <1>f, <1>1, SubSeqProperties
<1>3. /\ back \in Seq(Lines) /\ Len(back) = Len(file) - j
      /\ \A k \in 1 .. Len(file) - j : back[k] = file[j + k]
  BY <1>f, <1>1, SubSeqProperties
<1> HIDE DEF front, back
<1>4. /\ file' \in Seq(Lines) /\ Len(file') = (i - 1) + (Len(file) - j)
      /\ \A k \in 1 .. Len(file') :
            file'[k] = IF k <= i - 1 THEN front[k] ELSE back[k - (i - 1)]
  <2>1. /\ front \o back \in Seq(Lines) /\ Len(front \o back) = Len(front) + Len(back)
        /\ \A k \in 1 .. Len(front) + Len(back) :
              (front \o back)[k] = IF k <= Len(front) THEN front[k] ELSE back[k - Len(front)]
    BY <1>2, <1>3, ConcatProperties
  <2> QED
    BY <1>1, <1>2, <1>3, <2>1
<1>5. ASSUME NEW k \in 1 .. i - 1 PROVE file'[k] = file[k]
  BY <1>f, <1>1, <1>2, <1>4
<1>6. ASSUME NEW k \in i .. Len(file') PROVE file'[k] = file[k + (j - i + 1)]
  <2>1. file'[k] = back[k - (i - 1)]
    BY <1>f, <1>1, <1>4
  <2>2. back[k - (i - 1)] = file[j + (k - (i - 1))]
    <3>1. k - (i - 1) \in 1 .. Len(file) - j
      BY <1>f, <1>1, <1>4
    <3> HIDE <1>1, <1>4
    <3> QED
      BY <3>1, <1>3
  <2>3. j + (k - (i - 1)) = k + (j - i + 1)
    OBVIOUS
  <2> QED
    BY <2>1, <2>2, <2>3
<1>7. Len(file') = Len(file) - (j - i + 1)
  BY <1>f, <1>4
<1> QED
  BY <1>1, <1>4, <1>5, <1>6, <1>7 DEF Lost

LEMMA SwapStep ==
    ASSUME LogTypeOK, NEW i \in 1 .. Len(file), NEW j \in 1 .. Len(file), Swap(i, j)
    PROVE  file' \in Seq(Lines) /\ Swapped(i, j)
<1> DEFINE one == [file[i] EXCEPT !.entry = file[j].entry]
           two == [file[j] EXCEPT !.entry = file[i].entry]
           half == [file EXCEPT ![i] = one]
<1>f. /\ file \in Seq(Lines) /\ Len(file) \in Nat
      /\ file[i] \in Lines /\ file[j] \in Lines
  BY LogFacts, ElementOfSeq
<1>1. i < j /\ i # j
  BY <1>f DEF Swap
<1>2. one \in Lines /\ two \in Lines
  BY <1>f DEF Lines
<1>3. file' = [half EXCEPT ![j] = two]
  <2>1. file' = [[file EXCEPT ![i].entry = file[j].entry] EXCEPT ![j].entry = file[i].entry]
    BY DEF Swap
  <2>2. [file EXCEPT ![i].entry = file[j].entry] = half
    OBVIOUS
  <2>3. half[j] = file[j]
    BY <1>f, <1>1
  <2> QED
    BY <2>1, <2>2, <2>3
<1>4. /\ one = [file[i] EXCEPT !.entry = file[j].entry]
      /\ two = [file[j] EXCEPT !.entry = file[i].entry]
      /\ half = [file EXCEPT ![i] = one]
  OBVIOUS
<1> HIDE DEF one, two, half
<1>5. /\ half \in Seq(Lines) /\ Len(half) = Len(file) /\ half[i] = one
      /\ \A k \in (1 .. Len(file)) \ {i} : half[k] = file[k]
  BY <1>f, <1>2, <1>4, ExceptSeq
<1>6. /\ file' \in Seq(Lines) /\ Len(file') = Len(half) /\ file'[j] = two
      /\ \A k \in (1 .. Len(half)) \ {j} : file'[k] = half[k]
  BY <1>2, <1>3, <1>5, ExceptSeq
<1>7. file'[i] = one /\ \A k \in (1 .. Len(file)) \ {i, j} : file'[k] = file[k]
  BY <1>1, <1>5, <1>6
<1> QED
  BY <1>1, <1>4, <1>5, <1>6, <1>7 DEF Swapped

LEMMA DamageType ==
    ASSUME LogTypeOK, Damage
    PROVE  /\ LogTypeOK' /\ damages' = damages + 1 /\ tears' = tears
           /\ \E i, j \in 1 .. Len(file) : Changed(i) \/ Lost(i, j) \/ Swapped(i, j)
<1>0. /\ damages' = damages + 1 /\ damages < MaxDamages
      /\ UNCHANGED <<records, returned, tears>>
  BY DEF Damage
<1>1. damages' \in 0 .. MaxDamages
  BY <1>0, LogFacts, AuditLogAssumption DEF LogTypeOK, AuditLogAssumption
<1>2. PICK i \in 1 .. Len(file), j \in 1 .. Len(file) :
           Change(i) \/ Lose(i, j) \/ Swap(i, j)
  BY LogFacts DEF Damage
<1>3. file' \in Seq(Lines) /\ (Changed(i) \/ Lost(i, j) \/ Swapped(i, j))
  BY <1>2, ChangeStep, LoseStep, SwapStep
<1> QED
  BY <1>0, <1>1, <1>3 DEF LogTypeOK, Lines

\* verify_chain() says that the log is intact when no line is flawed, and then it
\* has counted all of them.
LEMMA IntactMeans ==
    LogTypeOK =>
        /\ VerifyChain.says = "intact" => ~ Flawed /\ VerifyChain.count = Len(file)
        /\ VerifyChain.says # "intact" => Flawed
<1> SUFFICES ASSUME LogTypeOK
             PROVE  /\ VerifyChain.says = "intact" => ~ Flawed /\ VerifyChain.count = Len(file)
                    /\ VerifyChain.says # "intact" => Flawed
  OBVIOUS
<1>1. CASE Stops = {}
  <2>1. \A i \in 1 .. Len(file) : Readable(i)
    BY <1>1, LogFacts DEF Stops
  <2>2. FirstStop - 1 = Len(file)
    BY <1>1, LogFacts DEF FirstStop
  <2>3. Breaks = {i \in 1 .. Len(file) : ~ Chained(i)}
    BY <2>2 DEF Breaks
  <2>4. Breaks = {} <=> ~ Flawed
    BY <2>1, <2>3 DEF Flawed
  <2> QED
    BY <1>1, <2>4 DEF VerifyChain
<1>2. CASE Stops # {}
  <2>1. Flawed
    BY <1>2, LogFacts DEF Stops, Flawed
  <2> QED
    BY <1>2, <2>1 DEF VerifyChain
<1> QED
  BY <1>1, <1>2

\* Writing leaves a line that is flawed where it is, or spoils the last one.
LEMMA ChainedKept ==
    ASSUME LogTypeOK, NEW line, Appended(line), NEW i \in 1 .. Len(file)
    PROVE  Readable(i)' = Readable(i) /\ Chained(i)' = Chained(i)
<1>1. file'[i] = file[i] /\ (i # 1 => file'[i - 1] = file[i - 1])
  BY LogFacts DEF Appended
<1>2. PrevAt(i)' = PrevAt(i)
  BY <1>1 DEF PrevAt
<1> QED
  BY <1>1, <1>2 DEF Readable, Chained

LEMMA FlawsStay ==
    ASSUME LogTypeOK, Flawed, Record \/ TornRecord
    PROVE  Flawed'
<1>1. PICK entry \in {Garbage, NewEntry}, eol \in BOOLEAN : Write(entry, eol)
  BY RecordType
<1>2. entry \in Entries
  BY NewEntryType DEF Record, TornRecord
<1>3. CASE Open
  <2>1. Spoilt(eol)
    BY <1>1, <1>2, <1>3, WriteStep
  <2> QED
    BY <2>1, LogFacts DEF Spoilt, Flawed, Readable
<1>4. CASE ~ Open
  <2>1. Appended([entry |-> entry, eol |-> eol])
    BY <1>1, <1>2, <1>4, WriteStep
  <2>2. PICK i \in 1 .. Len(file) : ~ (Readable(i) /\ Chained(i))
    BY DEF Flawed
  <2>3. ~ (Readable(i)' /\ Chained(i)')
    BY <2>1, <2>2, ChainedKept
  <2>4. i \in 1 .. Len(file')
    BY <2>1, LogFacts DEF Appended
  <2> QED
    BY <2>3, <2>4 DEF Flawed
<1> QED
  BY <1>3, <1>4

-----------------------------------------------------------------------------
\* Without torn writes.

LEMMA NumbersFacts ==
    ASSUME NEW n \in Nat
    PROVE  /\ Numbers(n) \in Seq(Nat) /\ Len(Numbers(n)) = n
           /\ \A k \in 1 .. n : Numbers(n)[k] = k
<1>1. Numbers(n) \in [1 .. n -> Nat]
  BY DEF Numbers
<1>2. Numbers(n) \in Seq(Nat)
  BY <1>1
<1>3. DOMAIN Numbers(n) = 1 .. n
  BY <1>1
<1>4. Len(Numbers(n)) = n
  BY <1>2, <1>3, LenProperties
<1> QED
  BY <1>2, <1>4 DEF Numbers

LEMMA NumbersDiffer ==
    ASSUME NEW n \in Nat, NEW m \in Nat, n # m
    PROVE  Numbers(n) # Numbers(m)
BY NumbersFacts

LEMMA NumbersStep ==
    ASSUME NEW n \in Nat
    PROVE  Append(Numbers(n), n + 1) = Numbers(n + 1)
<1> DEFINE s == Append(Numbers(n), n + 1)
<1>1. /\ Numbers(n) \in Seq(Nat) /\ Len(Numbers(n)) = n
      /\ \A k \in 1 .. n : Numbers(n)[k] = k
      /\ Numbers(n + 1) \in Seq(Nat) /\ Len(Numbers(n + 1)) = n + 1
      /\ \A k \in 1 .. n + 1 : Numbers(n + 1)[k] = k
  BY NumbersFacts
<1>2. /\ s \in Seq(Nat) /\ Len(s) = n + 1 /\ s[n + 1] = n + 1
      /\ \A k \in 1 .. n : s[k] = Numbers(n)[k]
  BY <1>1, AppendProperties
<1> HIDE DEF s
<1>3. \A k \in 1 .. n + 1 : s[k] = Numbers(n + 1)[k]
  <2> TAKE k \in 1 .. n + 1
  <2>1. CASE k = n + 1
    BY <2>1, <1>1, <1>2
  <2>2. CASE k # n + 1
    BY <2>2, <1>1, <1>2
  <2> QED
    BY <2>1, <2>2
<1>4. s = Numbers(n + 1)
  BY <1>1, <1>2, <1>3, SeqEqual
<1> QED
  BY <1>4 DEF s

\* Where every line has its end, record() adds a line.
LEMMA RecordAppends ==
    ASSUME LogTypeOK, Whole, Record
    PROVE  Appended([entry |-> NewEntry, eol |-> TRUE])
<1>1. ~ Open
  BY LogFacts DEF Open, Whole, Last
<1>2. Write(NewEntry, TRUE) /\ NewEntry \in Entries
  BY NewEntryType DEF Record
<1> QED
  BY <1>1, <1>2, WriteStep

LEMMA WholeRecord ==
    ASSUME LogTypeOK, Whole, Record
    PROVE  Whole'
<1>1. Appended([entry |-> NewEntry, eol |-> TRUE]) /\ NewEntry # Garbage
  BY RecordAppends, NewEntryType DEF Record
<1>2. Len(file) \in Nat /\ Len(file') = Len(file) + 1
  BY <1>1, LogFacts DEF Appended
<1>3. ASSUME NEW i \in 1 .. Len(file') PROVE file'[i].entry # Garbage /\ file'[i].eol
  <2>1. CASE i = Len(file) + 1
    BY <2>1, <1>1 DEF Appended
  <2>2. CASE i # Len(file) + 1
    <3>1. i \in 1 .. Len(file)
      BY <2>2, <1>2
    <3> QED
      BY <3>1, <1>1 DEF Appended, Whole, Readable
  <2> QED
    BY <2>1, <2>2
<1> QED
  BY <1>3 DEF Whole, Readable

LEMMA PristineRecord ==
    ASSUME LogTypeOK, Whole, Pristine, Record
    PROVE  Pristine'
<1>1. /\ Appended([entry |-> NewEntry, eol |-> TRUE])
      /\ records \in Nat /\ records' = records + 1 /\ Len(file) = records
  BY RecordAppends, NewEntryType, LogFacts DEF Record, Pristine
<1>2. LastHash = Numbers(records)
  <2>1. CASE records = 0
    <3>1. file = <<>>
      BY <2>1, <1>1, LogFacts
    <3>2. Numbers(0) = <<>>
      BY NumbersFacts, EmptySeq
    <3> QED
      BY <2>1, <3>1, <3>2 DEF LastHash, Genesis
  <2>2. CASE records # 0
    <3>1. records \in 1 .. Len(file) /\ file # <<>>
      BY <2>2, <1>1, LogFacts
    <3>2. file[records] = LineOf(records) /\ Readable(records)
      BY <3>1 DEF Pristine, Whole
    <3> QED
      BY <1>1, <3>1, <3>2 DEF LastHash, Last, LineOf, Readable
  <2> QED
    BY <2>1, <2>2
<1>3. [entry |-> NewEntry, eol |-> TRUE] = LineOf(records + 1)
  <2>1. (records + 1) - 1 = records
    BY <1>1
  <2>2. NewEntry = [id |-> records + 1, prev |-> Numbers(records), hash |-> Numbers(records + 1)]
    BY <1>1, <1>2, NumbersStep DEF NewEntry
  <2> QED
    BY <2>1, <2>2 DEF LineOf
<1>4. ASSUME NEW i \in 1 .. Len(file') PROVE file'[i] = LineOf(i)
  <2>1. CASE i = records + 1
    BY <2>1, <1>1, <1>3 DEF Appended
  <2>2. CASE i # records + 1
    <3>1. i \in 1 .. Len(file) /\ Len(file') = records + 1
      BY <2>2, <1>1 DEF Appended
    <3> QED
      BY <3>1, <1>1 DEF Appended, Pristine
  <2> QED
    BY <2>1, <2>2
<1>5. Len(file') = records'
  BY <1>1 DEF Appended
<1> QED
  BY <1>4, <1>5 DEF Pristine, LineOf, Numbers

LEMMA UnchainedRecord ==
    ASSUME LogTypeOK, Whole, Unchained, Record
    PROVE  Unchained'
<1>1. Appended([entry |-> NewEntry, eol |-> TRUE])
  BY RecordAppends
<1>2. PICK i \in 1 .. Len(file) : ~ Chained(i)
  BY DEF Unchained
<1>3. ~ Chained(i)'
  BY <1>1, <1>2, ChainedKept
<1>4. i \in 1 .. Len(file')
  BY <1>1, LogFacts DEF Appended
<1> QED
  BY <1>3, <1>4 DEF Unchained

LEMMA WholeDamage ==
    ASSUME LogTypeOK, Whole, Damage
    PROVE  Whole'
<1>0. Len(file) \in Nat
  BY LogFacts
<1>w. \A k \in 1 .. Len(file) :
         /\ file[k].entry \in JsonEntries /\ file[k].eol /\ file[k].entry # Garbage
         /\ file[k] \in Lines
  BY LogFacts, ElementOfSeq DEF Whole, Readable
<1>1. PICK i \in 1 .. Len(file), j \in 1 .. Len(file) :
           Changed(i) \/ Lost(i, j) \/ Swapped(i, j)
  BY DamageType
<1>2. ASSUME Changed(i), NEW k \in 1 .. Len(file')
      PROVE  file'[k].entry # Garbage /\ file'[k].eol
  <2>1. CASE k = i
    <3>0. 0 \in Ids /\ file[i].entry \in JsonEntries
      BY <1>w, AuditLogAssumption DEF Ids, AuditLogAssumption
    <3>1. [file[i].entry EXCEPT !.id = 0] \in JsonEntries
      <4>1. \A e \in JsonEntries : [e EXCEPT !.id = 0] \in JsonEntries
        BY <3>0 DEF JsonEntries
      <4> QED
        BY <3>0, <4>1
    <3>2. file'[i] = [file[i] EXCEPT !.entry.id = 0] /\ file[i] \in Lines /\ file[i].eol
      BY <1>w, <1>2 DEF Changed
    <3>3. file'[i].entry = [file[i].entry EXCEPT !.id = 0] /\ file'[i].eol = file[i].eol
      BY <3>2 DEF Lines
    <3> QED
      BY <2>1, <3>1, <3>2, <3>3, AuditLogAssumption DEF AuditLogAssumption
  <2>2. CASE k # i
    BY <2>2, <1>w, <1>2 DEF Changed
  <2> QED
    BY <2>1, <2>2
<1>3. ASSUME Lost(i, j), NEW k \in 1 .. Len(file')
      PROVE  file'[k].entry # Garbage /\ file'[k].eol
  <2>1. CASE k < i
    BY <2>1, <1>0, <1>w, <1>3 DEF Lost
  <2>2. CASE ~ k < i
    <3>1. k \in i .. Len(file') /\ k + (j - i + 1) \in 1 .. Len(file)
      BY <2>2, <1>0, <1>3 DEF Lost
    <3>2. file'[k] = file[k + (j - i + 1)]
      BY <3>1, <1>3 DEF Lost
    <3> QED
      BY <3>1, <3>2, <1>w
  <2> QED
    BY <2>1, <2>2
<1>4. ASSUME Swapped(i, j), NEW k \in 1 .. Len(file')
      PROVE  file'[k].entry # Garbage /\ file'[k].eol
  <2>1. CASE k \in {i, j}
    BY <2>1, <1>w, <1>4 DEF Swapped, Lines
  <2>2. CASE k \notin {i, j}
    BY <2>2, <1>w, <1>4 DEF Swapped
  <2> QED
    BY <2>1, <2>2
<1>5. \A k \in 1 .. Len(file') : file'[k].entry # Garbage /\ file'[k].eol
  BY <1>1, <1>2, <1>3, <1>4
<1> QED
  BY <1>5 DEF Whole, Readable

\* A damage to a log that was as written leaves a line that is not chained to the
\* one before it.
LEMMA PristineDamage ==
    ASSUME LogTypeOK, Pristine, Damage
    PROVE  Unchained'
<1>0. Len(file) \in Nat /\ LogTypeOK' /\ file' \in Seq(Lines) /\ Len(file') \in Nat
  BY LogFacts, DamageType DEF LogTypeOK, Lines
<1>p. \A k \in 1 .. Len(file) : file[k] = LineOf(k)
  BY DEF Pristine
<1>1. PICK i \in 1 .. Len(file), j \in 1 .. Len(file) :
           Changed(i) \/ Lost(i, j) \/ Swapped(i, j)
  BY DamageType
<1>2. ASSUME Changed(i) PROVE ~ Chained(i)' /\ i \in 1 .. Len(file')
  <2>1. file'[i] = [LineOf(i) EXCEPT !.entry.id = 0] /\ i \in 1 .. Len(file')
    BY <1>p, <1>2 DEF Changed
  <2>2. /\ file'[i].entry.id = 0 /\ file'[i].entry.prev = Numbers(i - 1)
        /\ file'[i].entry.hash = Numbers(i)
    BY <2>1 DEF LineOf
  <2>3. Append(Numbers(i - 1), 0) # Numbers(i)
    <3>1. /\ i - 1 \in Nat /\ Numbers(i - 1) \in Seq(Nat) /\ Len(Numbers(i - 1)) = i - 1
          /\ i \in 1 .. i /\ Numbers(i)[i] = i
      BY NumbersFacts
    <3>2. Append(Numbers(i - 1), 0)[(i - 1) + 1] = 0
      BY <3>1, AppendProperties
    <3> QED
      BY <3>1, <3>2
  <2> QED
    BY <2>1, <2>2, <2>3 DEF Chained
<1>3. ASSUME Lost(i, j) PROVE ~ Chained(i)' /\ i \in 1 .. Len(file')
  <2>1. i \in i .. Len(file') /\ j + 1 \in 1 .. Len(file) /\ i + (j - i + 1) = j + 1
    BY <1>0, <1>3 DEF Lost
  <2>2. file'[i] = LineOf(j + 1)
    BY <2>1, <1>p, <1>3 DEF Lost
  <2>3. file'[i].entry.prev = Numbers(j)
    BY <2>2 DEF LineOf
  <2>4. PrevAt(i)' = Numbers(i - 1)
    <3>1. CASE i = 1
      <4>1. Numbers(0) = <<>>
        BY NumbersFacts, EmptySeq
      <4> QED
        BY <3>1, <4>1 DEF PrevAt, Genesis
    <3>2. CASE i # 1
      <4>1. i - 1 \in 1 .. i - 1 /\ i - 1 \in 1 .. Len(file)
        BY <3>2, <1>0
      <4>2. file'[i - 1] = LineOf(i - 1)
        BY <4>1, <1>p, <1>3 DEF Lost
      <4> QED
        BY <3>2, <4>2 DEF PrevAt, LineOf
    <3> QED
      BY <3>1, <3>2
  <2>5. Numbers(j) # Numbers(i - 1)
    BY <1>3, NumbersDiffer DEF Lost
  <2>6. i \in 1 .. Len(file')
    BY <2>1
  <2> QED
    BY <2>3, <2>4, <2>5, <2>6 DEF Chained
<1>4. ASSUME Swapped(i, j) PROVE ~ Chained(i)' /\ i \in 1 .. Len(file')
  <2>1. file'[i] = [LineOf(i) EXCEPT !.entry = LineOf(j).entry] /\ i \in 1 .. Len(file')
    BY <1>p, <1>4 DEF Swapped
  <2>2. file'[i].entry.prev = Numbers(j - 1)
    BY <2>1 DEF LineOf
  <2>3. PrevAt(i)' = Numbers(i - 1)
    <3>1. CASE i = 1
      <4>1. Numbers(0) = <<>>
        BY NumbersFacts, EmptySeq
      <4> QED
        BY <3>1, <4>1 DEF PrevAt, Genesis
    <3>2. CASE i # 1
      <4>1. i - 1 \in (1 .. Len(file)) \ {i, j} /\ i - 1 \in 1 .. Len(file)
        BY <3>2, <1>0, <1>4 DEF Swapped
      <4>2. file'[i - 1] = LineOf(i - 1)
        BY <4>1, <1>p, <1>4 DEF Swapped
      <4> QED
        BY <3>2, <4>2 DEF PrevAt, LineOf
    <3> QED
      BY <3>1, <3>2
  <2>4. Numbers(j - 1) # Numbers(i - 1)
    BY <1>4, NumbersDiffer DEF Swapped
  <2> QED
    BY <2>1, <2>2, <2>3, <2>4 DEF Chained
<1> QED
  BY <1>1, <1>2, <1>3, <1>4 DEF Unchained

-----------------------------------------------------------------------------
\* With torn writes, without damage.

LEMMA LegibleIs ==
    ASSUME LogTypeOK
    PROVE  \A x : x \in Legible <=>
                    \E i \in 1 .. Len(file) : Readable(i) /\ x = file[i].entry.id
BY LogFacts DEF Legible

\* A line that is added adds its number, if it can be read; ...
LEMMA AppendLegible ==
    ASSUME LogTypeOK, file' \in Seq(Lines), NEW line, Appended(line)
    PROVE  /\ Legible \subseteq Legible'
           /\ line.entry # Garbage => line.entry.id \in Legible'
<1>1. /\ DOMAIN file' = 1 .. Len(file') /\ Len(file') = Len(file) + 1
      /\ Len(file) \in Nat
  BY LogFacts, LenProperties DEF Appended
<1>2. ASSUME NEW x \in Legible PROVE x \in Legible'
  <2>1. PICK i \in 1 .. Len(file) : Readable(i) /\ x = file[i].entry.id
    BY <1>2, LegibleIs
  <2>2. i \in DOMAIN file' /\ file'[i] = file[i]
    BY <1>1 DEF Appended
  <2> QED
    BY <2>1, <2>2 DEF Legible, Readable
<1>3. ASSUME line.entry # Garbage PROVE line.entry.id \in Legible'
  <2>1. Len(file) + 1 \in DOMAIN file' /\ file'[Len(file) + 1] = line
    BY <1>1 DEF Appended
  <2> QED
    BY <1>3, <2>1 DEF Legible, Readable
<1> QED
  BY <1>2, <1>3

\* ... and to spoil the last line loses its number alone.
LEMMA SpoilLegible ==
    ASSUME LogTypeOK, file' \in Seq(Lines), NEW eol, Spoilt(eol), NEW x \in Legible,
           x \notin Legible'
    PROVE  Readable(Len(file)) /\ x = file[Len(file)].entry.id
<1>1. /\ DOMAIN file' = 1 .. Len(file') /\ Len(file') = Len(file)
      /\ Len(file) \in Nat
  BY LogFacts, LenProperties DEF Spoilt
<1>2. PICK i \in 1 .. Len(file) : Readable(i) /\ x = file[i].entry.id
  BY LegibleIs
<1>3. ASSUME i # Len(file) PROVE FALSE
  <2>1. i \in DOMAIN file' /\ file'[i] = file[i]
    BY <1>1, <1>3 DEF Spoilt
  <2> QED
    BY <1>2, <2>1 DEF Legible, Readable
<1> QED
  BY <1>2, <1>3

\* An entry that is added has a larger number than all before it.
LEMMA AscendingAppend ==
    ASSUME LogTypeOK, Ascending, NEW line, Appended(line), records' = records + 1,
           line.entry = Garbage \/ line.entry.id = records + 1
    PROVE  Ascending'
<1>0. /\ Len(file) \in Nat /\ Len(file') = Len(file) + 1 /\ records \in Nat
      /\ file'[Len(file) + 1] = line
      /\ \A i \in 1 .. Len(file) : file'[i] = file[i]
  BY LogFacts DEF Appended
<1>1. \A i \in 1 .. Len(file) : file[i].entry # Garbage =>
        /\ file[i].entry.id \in 1 .. records
        /\ \A j \in 1 .. Len(file) :
              file[j].entry # Garbage /\ i < j => file[i].entry.id < file[j].entry.id
  BY DEF Ascending, Readable
<1>2. ASSUME NEW i \in 1 .. Len(file'), file'[i].entry # Garbage
      PROVE  file'[i].entry.id \in 1 .. records'
  <2>1. CASE i = Len(file) + 1
    BY <2>1, <1>0, <1>2
  <2>2. CASE i # Len(file) + 1
    <3>1. i \in 1 .. Len(file) /\ file'[i] = file[i]
      BY <2>2, <1>0
    <3> QED
      BY <3>1, <1>0, <1>1, <1>2
  <2> QED
    BY <2>1, <2>2
<1>3. ASSUME NEW i \in 1 .. Len(file'), NEW j \in 1 .. Len(file'), i < j,
             file'[i].entry # Garbage, file'[j].entry # Garbage
      PROVE  file'[i].entry.id < file'[j].entry.id
  <2>1. i \in 1 .. Len(file) /\ file'[i] = file[i]
    BY <1>0, <1>3
  <2>2. CASE j = Len(file) + 1
    <3>1. file[i].entry.id \in 1 .. records /\ file'[j].entry.id = records + 1
      BY <2>1, <2>2, <1>0, <1>1, <1>3
    <3> QED
      BY <2>1, <3>1, <1>0
  <2>3. CASE j # Len(file) + 1
    <3>1. j \in 1 .. Len(file) /\ file'[j] = file[j]
      BY <2>3, <1>0
    <3> QED
      BY <2>1, <3>1, <1>1, <1>3
  <2> QED
    BY <2>2, <2>3
<1> QED
  BY <1>2, <1>3 DEF Ascending, Readable

LEMMA AscendingSpoil ==
    ASSUME LogTypeOK, Ascending, NEW eol, Spoilt(eol), records' = records + 1
    PROVE  Ascending'
<1>0. /\ Len(file) \in Nat /\ Len(file') = Len(file) /\ records \in Nat
      /\ file'[Len(file)].entry = Garbage
      /\ \A i \in 1 .. Len(file) - 1 : file'[i] = file[i]
  BY LogFacts DEF Spoilt
<1>1. \A i \in 1 .. Len(file') : file'[i].entry # Garbage =>
         i \in 1 .. Len(file) /\ file'[i] = file[i]
  BY <1>0
<1>2. \A k \in 1 .. records : k \in 1 .. records'
  BY <1>0
<1> QED
  BY <1>1, <1>2 DEF Ascending, Readable

\* What is missing after a step, in numbers.
LEMMA MissingCounted ==
    ASSUME LogTypeOK
    PROVE  /\ IsFiniteSet(Missing) /\ Cardinality(Missing) \in Nat
           /\ \A S : S \subseteq Missing =>
                 Cardinality(S) \in Nat /\ Cardinality(S) <= Cardinality(Missing)
           /\ \A S, n : S \subseteq Missing \cup {n} =>
                 Cardinality(S) \in Nat /\ Cardinality(S) <= Cardinality(Missing) + 1
<1>1. IsFiniteSet(Missing)
  BY LogFacts, FS_Subset DEF Missing
<1>2. ASSUME NEW S, S \subseteq Missing
      PROVE  Cardinality(S) \in Nat /\ Cardinality(S) <= Cardinality(Missing)
  BY <1>1, <1>2, FS_Subset, FS_CardinalityType
<1>3. ASSUME NEW S, NEW n, S \subseteq Missing \cup {n}
      PROVE  Cardinality(S) \in Nat /\ Cardinality(S) <= Cardinality(Missing) + 1
  <2>1. /\ IsFiniteSet(Missing \cup {n}) /\ Cardinality(Missing) \in Nat
        /\ Cardinality(Missing \cup {n}) <= Cardinality(Missing) + 1
    BY <1>1, FS_AddElement, FS_CardinalityType
  <2>2. Cardinality(S) \in Nat /\ Cardinality(S) <= Cardinality(Missing \cup {n})
    BY <1>3, <2>1, FS_Subset, FS_CardinalityType
  <2>3. Cardinality(Missing \cup {n}) \in Nat
    BY <2>1, FS_CardinalityType
  <2> QED
    BY <2>1, <2>2, <2>3
<1> QED
  BY <1>1, <1>2, <1>3, FS_CardinalityType

LEMMA OpenIsLast ==
    ASSUME LogTypeOK
    PROVE  Open <=> Len(file) > 0 /\ ~ file[Len(file)].eol
BY LogFacts DEF Open, Last

\* The last line of the next state, after each kind of write.
LEMMA OpenAfter ==
    ASSUME LogTypeOK, file' \in Seq(Lines), NEW entry, NEW eol \in BOOLEAN,
           Appended([entry |-> entry, eol |-> eol]) \/ Spoilt(eol)
    PROVE  Open' => ~ eol
<1>1. Len(file') \in Nat /\ (file' # <<>> => Len(file') > 0) /\ Len(file) \in Nat
  BY LogFacts, EmptySeq
<1>2. file'[Len(file')].eol = eol
  BY <1>1 DEF Appended, Spoilt
<1> QED
  BY <1>2 DEF Open, Last

\* record() returns: an open line takes the new entry with it, otherwise the
\* entry is in the log.
LEMMA OpenRecord ==
    ASSUME LogTypeOK, Ascending, MissingShows, OpenInv, Record
    PROVE  Ascending' /\ MissingShows' /\ OpenInv'
<1>0. /\ LogTypeOK' /\ file' \in Seq(Lines) /\ records' = records + 1 /\ records \in Nat
      /\ Write(NewEntry, TRUE) /\ NewEntry \in Entries /\ NewEntry # Garbage
      /\ NewEntry.id = records + 1
      /\ returned' = returned \cup {records + 1} /\ tears' = tears /\ tears \in Nat
      /\ Len(file) \in Nat
  BY RecordType, NewEntryType, LogFacts DEF Record, LogTypeOK, Lines
<1>1. CASE Open
  <2>1. Spoilt(TRUE)
    BY <1>0, <1>1, WriteStep
  <2>2. Ascending'
    BY <1>0, <2>1, AscendingSpoil
  <2>3. MissingShows'
    BY <1>0, <2>1 DEF Spoilt, MissingShows, Readable
  <2>4. Missing' \subseteq Missing \cup {records + 1}
    <3> SUFFICES ASSUME NEW x \in returned, x \notin Legible' PROVE x \notin Legible
      BY <1>0 DEF Missing
    <3> QED
      BY <1>0, <1>1, <2>1, SpoilLegible DEF OpenInv
  <2>5. ~ Open'
    BY <1>0, <2>1, OpenAfter
  <2>6. Cardinality(Missing) + 1 <= tears
    BY <1>1 DEF OpenInv
  <2>7. Cardinality(Missing') <= tears
    <3>1. /\ Cardinality(Missing') \in Nat /\ Cardinality(Missing) \in Nat
          /\ Cardinality(Missing') <= Cardinality(Missing) + 1
      BY <2>4, MissingCounted
    <3> QED
      BY <1>0, <2>6, <3>1
  <2> QED
    BY <1>0, <2>2, <2>3, <2>5, <2>7 DEF OpenInv
<1>2. CASE ~ Open
  <2>1. Appended([entry |-> NewEntry, eol |-> TRUE])
    BY <1>0, <1>2, WriteStep
  <2>2. Ascending'
    BY <1>0, <2>1, AscendingAppend
  <2>3. Legible \subseteq Legible' /\ records + 1 \in Legible'
    BY <1>0, <2>1, AppendLegible
  <2>4. MissingShows'
    <3> SUFFICES ASSUME \A i \in 1 .. Len(file') : file'[i].entry # Garbage
                 PROVE  returned' \subseteq Legible'
      BY DEF MissingShows, Readable
    <3>1. \A i \in 1 .. Len(file) : Readable(i)
      BY <1>0, <2>1 DEF Appended, Readable
    <3> QED
      BY <1>0, <2>3, <3>1 DEF MissingShows
  <2>5. Missing' \subseteq Missing
    BY <1>0, <2>3 DEF Missing
  <2>6. ~ Open'
    BY <1>0, <2>1, OpenAfter
  <2>7. Cardinality(Missing') <= tears
    <3>1. /\ Cardinality(Missing') \in Nat /\ Cardinality(Missing) \in Nat
          /\ Cardinality(Missing') <= Cardinality(Missing)
      BY <2>5, MissingCounted
    <3> QED
      BY <1>0, <3>1 DEF OpenInv
  <2> QED
    BY <1>0, <2>2, <2>4, <2>6, <2>7 DEF OpenInv
<1> QED
  BY <1>1, <1>2

\* A write is torn: no returned entry is lost yet, but the line is open.
LEMMA OpenTorn ==
    ASSUME LogTypeOK, Ascending, MissingShows, OpenInv, TornRecord
    PROVE  Ascending' /\ MissingShows' /\ OpenInv'
<1>0. /\ LogTypeOK' /\ file' \in Seq(Lines) /\ records' = records + 1 /\ records \in Nat
      /\ NewEntry \in Entries /\ Garbage \in Entries /\ NewEntry.id = records + 1
      /\ returned' = returned /\ returned \subseteq 1 .. records
      /\ tears' = tears + 1 /\ tears \in Nat /\ Len(file) \in Nat
  BY RecordType, NewEntryType, LogFacts DEF TornRecord, LogTypeOK, Lines
<1>1. PICK entry \in {Garbage, NewEntry} : Write(entry, FALSE)
  BY DEF TornRecord
<1>2. ASSUME Ascending', MissingShows', Missing' \subseteq Missing,
             file'[Len(file')].entry # Garbage => file'[Len(file')].entry.id \notin returned
      PROVE  Ascending' /\ MissingShows' /\ OpenInv'
  <2>1. /\ Cardinality(Missing') \in Nat /\ Cardinality(Missing) \in Nat
        /\ Cardinality(Missing') <= Cardinality(Missing)
    BY <1>2, MissingCounted
  <2>2. Cardinality(Missing) <= tears
    BY DEF OpenInv
  <2>3. Cardinality(Missing') <= tears' /\ Cardinality(Missing') + 1 <= tears'
    BY <1>0, <2>1, <2>2
  <2> QED
    BY <1>0, <1>2, <2>3 DEF OpenInv, Readable
<1>3. CASE Open
  <2>1. Spoilt(FALSE)
    BY <1>0, <1>1, <1>3, WriteStep
  <2>2. Ascending'
    BY <1>0, <2>1, AscendingSpoil
  <2>3. MissingShows' /\ file'[Len(file')].entry = Garbage
    BY <1>0, <2>1 DEF Spoilt, MissingShows, Readable
  <2>4. Missing' \subseteq Missing
    <3> SUFFICES ASSUME NEW x \in returned, x \notin Legible' PROVE x \notin Legible
      BY <1>0 DEF Missing
    <3> QED
      BY <1>0, <1>3, <2>1, SpoilLegible DEF OpenInv
  <2> QED
    BY <1>2, <2>2, <2>3, <2>4
<1>4. CASE ~ Open
  <2>1. Appended([entry |-> entry, eol |-> FALSE])
    BY <1>0, <1>1, <1>4, WriteStep
  <2>2. Ascending'
    BY <1>0, <2>1, AscendingAppend
  <2>3. Legible \subseteq Legible'
    BY <1>0, <2>1, AppendLegible
  <2>4. MissingShows'
    <3> SUFFICES ASSUME \A i \in 1 .. Len(file') : file'[i].entry # Garbage
                 PROVE  returned' \subseteq Legible'
      BY DEF MissingShows, Readable
    <3>1. \A i \in 1 .. Len(file) : Readable(i)
      BY <1>0, <2>1 DEF Appended, Readable
    <3> QED
      BY <1>0, <2>3, <3>1 DEF MissingShows
  <2>5. Missing' \subseteq Missing
    BY <1>0, <2>3 DEF Missing
  <2>6. file'[Len(file')].entry # Garbage => file'[Len(file')].entry.id \notin returned
    <3>1. file'[Len(file')].entry = entry
      BY <1>0, <2>1 DEF Appended
    <3>2. records + 1 \notin returned
      BY <1>0
    <3> QED
      BY <1>0, <1>1, <3>1, <3>2 DEF Readable
  <2> QED
    BY <1>2, <2>2, <2>4, <2>5, <2>6
<1> QED
  BY <1>3, <1>4

-----------------------------------------------------------------------------
LEMMA LogInvInit == LogInit => LogInv
<1> SUFFICES ASSUME LogInit PROVE LogInv
  OBVIOUS
<1>1. /\ file = <<>> /\ Len(file) = 0 /\ file \in Seq(Lines)
      /\ records = 0 /\ returned = {} /\ tears = 0 /\ damages = 0
  BY EmptySeq DEF LogInit
<1>2. LogTypeOK
  BY <1>1, AuditLogAssumption DEF LogTypeOK, Lines, Ids, AuditLogAssumption
<1>3. Missing = {} /\ Cardinality(Missing) = 0
  BY <1>1, FS_EmptySet DEF Missing
<1> QED
  BY <1>1, <1>2, <1>3 DEF LogInv, Whole, Pristine, Ascending, MissingShows, OpenInv, Open

LEMMA LogInvRecord ==
    ASSUME LogInv, Record
    PROVE  LogInv'
<1>1. LogTypeOK /\ LogTypeOK' /\ damages' = damages /\ tears' = tears
  BY RecordType DEF LogInv, Record
<1>2. tears = 0 => Whole'
  BY <1>1, WholeRecord DEF LogInv
<1>3. tears = 0 /\ damages = 0 => Pristine'
  BY <1>1, PristineRecord DEF LogInv
<1>4. tears = 0 /\ damages = 1 => Unchained'
  BY <1>1, UnchainedRecord DEF LogInv
<1>5. damages = 0 => Ascending' /\ MissingShows' /\ OpenInv'
  BY <1>1, OpenRecord DEF LogInv
<1> QED
  BY <1>1, <1>2, <1>3, <1>4, <1>5 DEF LogInv

LEMMA LogInvTorn ==
    ASSUME LogInv, TornRecord
    PROVE  LogInv'
<1>1. LogTypeOK /\ LogTypeOK' /\ damages' = damages /\ tears' # 0
  <2>1. LogTypeOK /\ LogTypeOK' /\ damages' = damages
    BY RecordType DEF LogInv
  <2>2. tears \in Nat /\ tears' = tears + 1
    BY <2>1, LogFacts DEF TornRecord
  <2> QED
    BY <2>1, <2>2
<1>2. damages = 0 => Ascending' /\ MissingShows' /\ OpenInv'
  BY <1>1, OpenTorn DEF LogInv
<1> QED
  BY <1>1, <1>2 DEF LogInv

LEMMA LogInvDamage ==
    ASSUME LogInv, Damage
    PROVE  LogInv'
<1>1. /\ LogTypeOK /\ LogTypeOK' /\ damages \in Nat
      /\ damages' = damages + 1 /\ tears' = tears
  BY DamageType, LogFacts DEF LogInv
<1>2. tears = 0 => Whole'
  BY <1>1, WholeDamage DEF LogInv
<1>3. tears = 0 /\ damages = 0 => Unchained'
  BY <1>1, PristineDamage DEF LogInv
<1>4. damages' # 0 /\ (damages' = 1 => damages = 0)
  BY <1>1
<1> QED
  BY <1>1, <1>2, <1>3, <1>4 DEF LogInv

LEMMA LogInvStep == LogInv /\ [LogNext]_logVars => LogInv'
<1> SUFFICES ASSUME LogInv, [LogNext]_logVars PROVE LogInv'
  OBVIOUS
<1>1. CASE UNCHANGED logVars
  BY <1>1 DEF logVars, LogInv, LogTypeOK, Whole, Pristine, Unchained, Ascending,
              MissingShows, OpenInv, Missing, Open, Legible, Readable, Chained, PrevAt
<1> QED
  BY <1>1, LogInvRecord, LogInvTorn, LogInvDamage DEF LogNext

LEMMA LogInvHolds == LogSpec => []LogInv
BY LogInvInit, LogInvStep, PTL DEF LogSpec

\* The file, the counters and the returned entries have their types.
THEOREM LogTypeCorrect == LogSpec => []LogTypeOK
<1>1. LogInv => LogTypeOK
  BY DEF LogInv
<1> QED
  BY <1>1, LogInvHolds, PTL

\* Without damage the log has lost at most as many returned entries as there were
\* torn writes.
THEOREM TearsCost == LogSpec => []TearsCostLittle
<1>1. LogInv => TearsCostLittle
  BY DEF LogInv, OpenInv, Missing, TearsCostLittle
<1> QED
  BY <1>1, LogInvHolds, PTL

\* An intact and undamaged log holds every returned entry, in order, and a single
\* damage to lines written whole is never called intact.
THEOREM IntactTells == LogSpec => []IntactIsComplete
<1>1. ASSUME LogInv PROVE IntactIsComplete
  <2> SUFFICES ASSUME VerifyChain.says = "intact"
               PROVE  /\ damages = 0 =>
                            /\ returned \subseteq Legible
                            /\ VerifyChain.count >= Cardinality(returned)
                            /\ \A i, j \in DOMAIN file :
                                  i < j => file[i].entry.id < file[j].entry.id
                      /\ tears = 0 => damages # 1
    BY DEF IntactIsComplete
  <2>1. LogTypeOK /\ ~ Flawed /\ VerifyChain.count = Len(file)
    BY <1>1, IntactMeans DEF LogInv
  <2>2. \A i \in 1 .. Len(file) : Readable(i) /\ Chained(i)
    BY <2>1 DEF Flawed
  <2>3. tears = 0 => damages # 1
    BY <1>1, <2>2 DEF LogInv, Unchained
  <2>4. ASSUME damages = 0
        PROVE  /\ returned \subseteq Legible
               /\ VerifyChain.count >= Cardinality(returned)
               /\ \A i, j \in DOMAIN file :
                     i < j => file[i].entry.id < file[j].entry.id
    <3>0. /\ DOMAIN file = 1 .. Len(file) /\ Len(file) \in Nat
          /\ IsFiniteSet(returned)
      BY <2>1, LogFacts
    <3>1. Ascending /\ MissingShows
      BY <1>1, <2>4 DEF LogInv
    <3>2. returned \subseteq Legible
      BY <2>2, <3>1 DEF MissingShows
    <3>3. \A i, j \in DOMAIN file : i < j => file[i].entry.id < file[j].entry.id
      BY <2>2, <3>0, <3>1 DEF Ascending
    <3>4. Cardinality(Legible) <= Len(file) /\ IsFiniteSet(Legible)
      <4> DEFINE id == [i \in 1 .. Len(file) |-> file[i].entry.id]
      <4>1. Legible = {file[i].entry.id : i \in 1 .. Len(file)}
        BY <2>2, <3>0 DEF Legible
      <4>2. id \in Surjection(1 .. Len(file), Legible)
        BY <4>1 DEF Surjection
      <4> HIDE DEF id
      <4>3. ExistsSurjection(1 .. Len(file), Legible)
        BY <4>2 DEF ExistsSurjection
      <4>4. IsFiniteSet(Legible)
        BY <3>0, <4>3, FS_NatSurjection
      <4> QED
        BY <3>0, <4>3, <4>4, FS_SurjCardinalityBound
    <3>5. /\ Cardinality(returned) <= Cardinality(Legible)
          /\ Cardinality(returned) \in Nat /\ Cardinality(Legible) \in Nat
      BY <3>2, <3>4, FS_Subset, FS_CardinalityType
    <3> QED
      BY <2>1, <3>0, <3>2, <3>3, <3>4, <3>5
  <2> QED
    BY <2>3, <2>4
<1> QED
  BY <1>1, LogInvHolds, PTL

\* Recording more never makes a log intact that was not.
THEOREM StaysBroken == LogSpec => NeverHeals
<1> DEFINE Rejected == VerifyChain.says # "intact"
<1>1. LogTypeOK /\ Rejected => Flawed
  BY IntactMeans
<1>2. LogTypeOK /\ Flawed => Rejected
  BY IntactMeans
<1>3. LogTypeOK' /\ Flawed' => Rejected'
  <2> HIDE DEF Rejected
  <2> QED
    BY <1>2, PTL
<1>4. LogInv /\ LogInv' /\ [LogNext]_logVars =>
         [damages' = damages /\ VerifyChain.says # "intact"
            => VerifyChain'.says # "intact"]_logVars
  <2> SUFFICES ASSUME LogInv, LogInv', LogNext, damages' = damages, Rejected
               PROVE  Rejected'
    OBVIOUS
  <2> HIDE DEF Rejected
  <2>1. LogTypeOK /\ LogTypeOK' /\ Flawed
    BY <1>1 DEF LogInv
  <2>2. Record \/ TornRecord
    BY <2>1, LogFacts DEF LogNext, Damage
  <2> QED
    BY <1>3, <2>1, <2>2, FlawsStay
<1> QED
  BY <1>4, LogInvHolds, PTL DEF LogSpec, NeverHeals

-----------------------------------------------------------------------------
(***************************************************************************)
(* The signatures between nodes.                                           *)
(***************************************************************************)

USE MeshAuthAssumption DEF MeshAuthAssumption

LEMMA TypeStep == TypeOK /\ [Next]_vars => TypeOK'
<1> SUFFICES ASSUME TypeOK, [Next]_vars PROVE TypeOK'
  OBVIOUS
<1>1. ASSUME NEW n \in Nonces, Sign(n)
      PROVE  TypeOK'
  <2>1. \A t \in Int : Seconds(t) \in Int
    BY DEF Seconds
  <2>2. PICK o \in Offsets : stamp' = [stamp EXCEPT ![n] = Seconds(now + o)]
    BY <1>1 DEF Sign
  <2>3. now + o \in Int
    BY DEF TypeOK
  <2>4. stamp' \in [Nonces -> Int \cup {Never}]
    BY <2>1, <2>2, <2>3 DEF TypeOK
  <2> QED
    BY <1>1, <2>4 DEF Sign, TypeOK
<1>2. ASSUME NEW n \in Nonces, Deliver(n)
      PROVE  TypeOK'
  <2>1. PICK a \in Answers : answer' = [nonce |-> n, said |-> a]
    BY <1>2 DEF Deliver, Answers
  <2>2. answer' \in [nonce : Nonces \cup {Never}, said : Answers]
    BY <2>1
  <2>3. seen' \in [Nonces -> Int \cup {Never}] /\ accepted' \in [Nonces -> Seq(Nat)]
    <3>1. CASE UNCHANGED <<seen, accepted>>
      BY <3>1 DEF TypeOK
    <3>2. CASE Accept(n)
      <4>1. now + NonceTtl \in Int /\ \A m \in Nonces : Swept(m) \in Int \cup {Never}
        BY DEF Swept, TypeOK
      <4>2. Append(accepted[n], now) \in Seq(Nat)
        BY DEF TypeOK
      <4> QED
        BY <3>2, <4>1, <4>2 DEF Accept, TypeOK
    <3> QED
      BY <1>2, <3>1, <3>2 DEF Deliver
  <2> QED
    BY <1>2, <2>2, <2>3 DEF Deliver, TypeOK
<1>3. CASE Tick
  BY <1>3 DEF Tick, TypeOK
<1>4. CASE Restart
  BY <1>4 DEF Restart, TypeOK
<1>5. CASE UNCHANGED vars
  BY <1>5 DEF vars, TypeOK
<1> QED
  BY <1>1, <1>2, <1>3, <1>4, <1>5 DEF Next

\* The state of the signatures and of the cache has its types.
THEOREM TypeCorrect == Spec => []TypeOK
<1>1. Init => TypeOK
  BY DEF Init, TypeOK, Answers
<1> QED
  BY <1>1, TypeStep, PTL DEF Spec

\* An accepted nonce is remembered until its timestamp can no longer be fresh.
LEMMA ReplayStep == TypeOK /\ ReplayInv /\ [Next]_vars => ReplayInv'
<1> SUFFICES ASSUME TypeOK, ReplayInv, [Next]_vars PROVE ReplayInv'
  OBVIOUS
<1>1. ASSUME NEW n \in Nonces, Sign(n)
      PROVE  ReplayInv'
  <2>1. accepted[n] = <<>>
    BY <1>1 DEF Sign, ReplayInv, Remembered, TypeOK
  <2>2. \A m \in Nonces \ {n} : stamp'[m] = stamp[m]
    BY <1>1 DEF Sign, TypeOK
  <2> QED
    BY <1>1, <2>1, <2>2 DEF Sign, ReplayInv, Remembered
<1>2. ASSUME NEW n \in Nonces, Deliver(n), UNCHANGED <<seen, accepted>>
      PROVE  ReplayInv'
  BY <1>2 DEF Deliver, ReplayInv, Remembered
<1>3. ASSUME NEW n \in Nonces, Deliver(n), Fresh(n), seen[n] = Never, Accept(n)
      PROVE  ReplayInv'
  <2>1. now \in Nat /\ stamp[n] \in Int /\ stamp' = stamp /\ now' = now
    BY <1>3 DEF Deliver, TypeOK
  <2>2. accepted[n] = <<>>
    <3> SUFFICES ASSUME accepted[n] # <<>> PROVE FALSE
      OBVIOUS
    <3>1. /\ accepted[n][1] \in Nat
          /\ Distance(accepted[n][1], stamp[n]) <= MaxSkew
          /\ accepted[n][1] + NonceTtl < now
      BY <1>3 DEF ReplayInv, Remembered, TypeOK
    <3>2. Distance(now, stamp[n]) <= MaxSkew
      BY <1>3 DEF Fresh
    <3> DEFINE then == accepted[n][1]
    <3>3. then \in Nat /\ Distance(then, stamp[n]) <= MaxSkew /\ then + NonceTtl < now
      BY <3>1
    <3> HIDE DEF then
    <3>4. now - stamp[n] <= MaxSkew
      BY <2>1, <3>2 DEF Distance
    <3>5. stamp[n] - then <= MaxSkew
      BY <2>1, <3>3 DEF Distance
    <3> QED
      BY <2>1, <3>3, <3>4, <3>5
  <2>3. accepted'[n] = <<now>> /\ seen'[n] = now + NonceTtl
    BY <1>3, <2>2 DEF Accept, TypeOK
  <2>4. Remembered(n)'
    <3>1. accepted'[n][1] = now /\ Len(accepted'[n]) = 1
      BY <2>3
    <3> QED
      BY <1>3, <2>1, <2>3, <3>1 DEF Remembered, Fresh
  <2>5. ASSUME NEW m \in Nonces \ {n}, accepted[m] # <<>>
        PROVE  Remembered(m)'
    <3>1. accepted'[m] = accepted[m] /\ seen'[m] = Swept(m)
      BY <1>3 DEF Accept, TypeOK
    <3>2. Remembered(m) /\ accepted[m][1] \in Nat
      BY <2>5 DEF ReplayInv, TypeOK
    <3> QED
      BY <2>1, <3>1, <3>2 DEF Remembered, Swept
  <2>6. \A m \in Nonces \ {n} : accepted'[m] = accepted[m]
    BY <1>3 DEF Accept, TypeOK
  <2> QED
    BY <2>4, <2>5, <2>6 DEF ReplayInv
<1>4. CASE Tick
  BY <1>4 DEF Tick, ReplayInv, Remembered, TypeOK
<1>5. CASE Restart
  BY <1>5 DEF Restart, ReplayInv
<1>6. CASE UNCHANGED vars
  BY <1>6 DEF vars, ReplayInv, Remembered
<1> QED
  BY <1>1, <1>2, <1>3, <1>4, <1>5, <1>6 DEF Next, Deliver

\* Between two starts of the node no request is accepted twice, whatever the
\* network delivers and however the cache is swept, as long as a nonce is kept
\* for at least twice the skew that timestamps may have.
THEOREM NoReplay == Spec => []AcceptedOnce
<1>1. Init => ReplayInv
  BY DEF Init, ReplayInv
<1>2. ReplayInv => AcceptedOnce
  <2> SUFFICES ASSUME ReplayInv, NEW n \in Nonces PROVE Len(accepted[n]) <= 1
    BY DEF AcceptedOnce
  <2>1. CASE accepted[n] = <<>>
    BY <2>1
  <2>2. CASE accepted[n] # <<>>
    <3>1. Len(accepted[n]) = 1
      BY <2>2 DEF ReplayInv, Remembered
    <3> QED
      BY <3>1
  <2> QED
    BY <2>1, <2>2
<1> QED
  BY <1>1, <1>2, TypeCorrect, ReplayStep, PTL DEF Spec

\* A timestamp that was signed is what a peer's clock showed, rounded to seconds.
SignedInv ==
    \A n \in Nonces : stamp[n] # Never =>
        /\ sentAt[n] <= now
        /\ \E o \in Offsets : stamp[n] = Seconds(sentAt[n] + o)

LEMMA RoundedDown ==
    ASSUME NEW t \in Int
    PROVE  Seconds(t) \in Int /\ Seconds(t) <= t /\ t - Seconds(t) <= Grain - 1
<1>1. t % Grain \in 0 .. Grain - 1
  OBVIOUS
<1> QED
  BY <1>1 DEF Seconds

LEMMA SignedStep == TypeOK /\ SignedInv /\ [Next]_vars => SignedInv'
<1> SUFFICES ASSUME TypeOK, SignedInv, [Next]_vars PROVE SignedInv'
  OBVIOUS
<1>0. now \in Nat
  BY DEF TypeOK
<1>1. ASSUME NEW n \in Nonces, Sign(n)
      PROVE  SignedInv'
  <2>1. PICK o \in Offsets : stamp' = [stamp EXCEPT ![n] = Seconds(now + o)]
    BY <1>1 DEF Sign
  <2>2. sentAt' = [sentAt EXCEPT ![n] = now] /\ now' = now
    BY <1>1 DEF Sign
  <2>3. stamp'[n] = Seconds(now + o) /\ sentAt'[n] = now
    BY <2>1, <2>2 DEF TypeOK
  <2>4. \A m \in Nonces \ {n} : stamp'[m] = stamp[m] /\ sentAt'[m] = sentAt[m]
    BY <2>1, <2>2 DEF TypeOK
  <2> SUFFICES ASSUME NEW m \in Nonces, stamp'[m] # Never
               PROVE  /\ sentAt'[m] <= now
                      /\ \E p \in Offsets : stamp'[m] = Seconds(sentAt'[m] + p)
    BY <2>2 DEF SignedInv, Seconds
  <2> HIDE DEF Seconds
  <2>5. CASE m = n
    BY <1>0, <2>3, <2>5
  <2>6. CASE m # n
    BY <2>4, <2>6 DEF SignedInv
  <2> QED
    BY <2>5, <2>6
<1>2. ASSUME NEW n \in Nonces, Deliver(n)
      PROVE  SignedInv'
  BY <1>2 DEF Deliver, SignedInv, Seconds
<1>3. CASE Tick
  <2>1. now' = now + 1 /\ UNCHANGED <<stamp, sentAt>>
    BY <1>3 DEF Tick
  <2> SUFFICES ASSUME NEW n \in Nonces, stamp[n] # Never
               PROVE  /\ sentAt[n] <= now + 1
                      /\ \E o \in Offsets : stamp[n] = Seconds(sentAt[n] + o)
    BY <2>1 DEF SignedInv, Seconds
  <2>2. sentAt[n] <= now /\ \E o \in Offsets : stamp[n] = Seconds(sentAt[n] + o)
    BY DEF SignedInv
  <2>3. sentAt[n] \in Nat
    BY DEF TypeOK
  <2>4. sentAt[n] <= now + 1
    <3> HIDE <2>2
    <3>1. sentAt[n] <= now
      BY <2>2
    <3> QED
      BY <1>0, <2>3, <3>1
  <2> QED
    BY <2>2, <2>4
<1>4. CASE Restart
  BY <1>4 DEF Restart, SignedInv, Seconds
<1>5. CASE UNCHANGED vars
  BY <1>5 DEF vars, SignedInv, Seconds
<1> QED
  BY <1>1, <1>2, <1>3, <1>4, <1>5 DEF Next

\* A request that arrives promptly is fresh.
LEMMA PromptFresh ==
    ASSUME TypeOK, SignedInv, NEW n \in Nonces, stamp[n] # Never,
           \A o \in Offsets : now - sentAt[n] + Distance(o, 0) + Grain - 1 <= MaxSkew
    PROVE  Fresh(n)
<1>1. PICK o \in Offsets : stamp[n] = Seconds(sentAt[n] + o)
  BY DEF SignedInv
<1>2. /\ sentAt[n] <= now /\ sentAt[n] \in Nat /\ now \in Nat /\ o \in Int
      /\ now - sentAt[n] + Distance(o, 0) + Grain - 1 <= MaxSkew
  BY DEF SignedInv, TypeOK
<1>3. /\ stamp[n] \in Int /\ stamp[n] <= sentAt[n] + o
      /\ sentAt[n] + o - stamp[n] <= Grain - 1
  BY <1>1, <1>2, RoundedDown
<1> QED
  BY <1>2, <1>3 DEF Fresh, Distance

\* A prompt request is never called stale: the window of MaxSkew covers the delay,
\* the distance of the clocks and the rounding, for every offset and every grain.
THEOREM PromptAccepted == Spec => PromptIsFresh
<1>1. Init => SignedInv
  BY DEF Init, SignedInv
<1>2. ASSUME TypeOK, SignedInv, Next, NEW n \in Nonces, answer' # answer,
             \A o \in Offsets : now - sentAt[n] + Distance(o, 0) + Grain - 1 <= MaxSkew
      PROVE  answer' # [nonce |-> n, said |-> "stale timestamp"]
  <2>1. PICK m \in Nonces : Deliver(m)
    BY <1>2 DEF Next, Sign, Tick, Restart
  <2>2. CASE m = n
    <3>1. Fresh(n)
      BY <1>2, <2>1, <2>2, PromptFresh DEF Deliver
    <3>2. PICK a \in {"replayed nonce", "ok"} : answer' = [nonce |-> n, said |-> a]
      BY <2>1, <2>2, <3>1 DEF Deliver
    <3>3. [nonce |-> n, said |-> a] # [nonce |-> n, said |-> "stale timestamp"]
      OBVIOUS
    <3> QED
      BY <3>2, <3>3
  <2>3. CASE m # n
    <3>1. PICK a \in Answers : answer' = [nonce |-> m, said |-> a]
      BY <2>1 DEF Deliver, Answers
    <3>2. [nonce |-> m, said |-> a] # [nonce |-> n, said |-> "stale timestamp"]
      BY <2>3
    <3> QED
      BY <3>1, <3>2
  <2> QED
    BY <2>2, <2>3
<1>3. TypeOK /\ SignedInv /\ [Next]_vars =>
         [\A n \in Nonces :
            /\ answer' # answer
            /\ \A o \in Offsets :
                  now - sentAt[n] + Distance(o, 0) + Grain - 1 <= MaxSkew
            => answer' # [nonce |-> n, said |-> "stale timestamp"]]_vars
  BY <1>2
<1> QED
  BY <1>1, <1>3, TypeCorrect, SignedStep, PTL DEF Spec, PromptIsFresh
=============================================================================
