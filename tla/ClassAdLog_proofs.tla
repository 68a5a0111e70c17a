-------------------------- MODULE ClassAdLog_proofs --------------------------
(***************************************************************************)
(* The theorems about ClassAdLog, for every finite set of keys, every set  *)
(* of values and every bound on the records: LogInv is inductive, step by  *)
(* step; lookups through a transaction are strict; and the log implements  *)
(* DurableTable.                                                           *)
(***************************************************************************)
EXTENDS LogRecords_proofs

------------------------------------------------------------------------------
(* Files that a crash may leave                                            *)

(* A file without broken records is in particular not torn inside. *)
LEMMA SoundIsTorn ==
  ASSUME NEW f \in Seq(Sound)
  PROVE  f \in Seq(Records) /\ OnlyLastTorn(f)
BY ReadableSound DEF OnlyLastTorn, Sound

(* The constructor reads such a file; when it need not be cleaned, it has  *)
(* no broken record.                                                       *)
LEMMA TornReplays ==
  ASSUME NEW f \in Seq(Records), OnlyLastTorn(f)
  PROVE  /\ ~Unrecoverable(f) /\ Recovered(f) \in Table /\ RequiresCleaning(f) \in BOOLEAN
         /\ ~RequiresCleaning(f) => f \in Seq(Sound) /\ ~Replay(f).open
<1> DEFINE g == Readable(f)
<1>1. g \in Seq(Sound) /\ Replays(f) = Replays(g)
  BY ReadableIs, ReadableSound, Zenon DEF Replays
<1>2. Replay(f) = Replay(g)
  BY <1>1, Zenon DEF Replay
<1>3. Replay(g) \in RState
  BY <1>1, ReplaySound, Zenon
<1>4. Recovered(f) \in Table /\ RequiresCleaning(f) \in BOOLEAN
  BY <1>2, <1>3, Zenon DEF RState, Recovered, RequiresCleaning
<1>5. ~RequiresCleaning(f) => f \in Seq(Sound) /\ ~Replay(f).open
  BY <1>1, ReadableIs, Zenon DEF RequiresCleaning
<1> QED BY <1>4, <1>5, ReadableTorn, Zenon

(* What is left of such a file is such a file. *)
LEMMA CutsTorn ==
  ASSUME NEW f \in Seq(Records), OnlyLastTorn(f), NEW n \in 0 .. Len(f), NEW c \in Cuts(f, n)
  PROVE  c \in Seq(Records) /\ OnlyLastTorn(c) /\ n <= Len(c)
<1>0. Junk \in Records
  BY Zenon DEF Records
<1>1. CASE \E i \in n .. Len(f) : c = SubSeq(f, 1, i)
  BY <1>1 DEF OnlyLastTorn
<1>2. CASE \E i \in n .. Len(f) - 1 : c = Append(SubSeq(f, 1, i), Junk)
  <2>1. PICK i \in n .. Len(f) - 1 : c = Append(SubSeq(f, 1, i), Junk)
    BY <1>2, Zenon
  <2> DEFINE d == SubSeq(f, 1, i)
  <2>2. d \in Seq(Records) /\ Len(d) = i /\ \A j \in 1 .. i : d[j] # Junk
    BY DEF OnlyLastTorn
  <2> HIDE DEF d
  <2>3. c = Append(d, Junk)
    BY <2>1, Zenon DEF d
  <2> QED BY <1>0, <2>2, <2>3 DEF OnlyLastTorn
<1> QED BY <1>1, <1>2, Zenon DEF Cuts

------------------------------------------------------------------------------
(* The inductive invariant                                                 *)

(* Concatenation is associative. *)
LEMMA ConcatAssoc ==
  ASSUME NEW S, NEW f \in Seq(S), NEW g \in Seq(S), NEW h \in Seq(S)
  PROVE  f \o (g \o h) = (f \o g) \o h
OBVIOUS

(* What is written, flushed or not, is a sequence of records. *)
LEMMA WrittenType ==
  ASSUME TypeOK
  PROVE  /\ Written \in Seq(Records) /\ Len(Written) = Len(file) + Len(buf)
         /\ buf = <<>> => Written = file
BY DEF TypeOK, Written

(* After everything was written out, the file is all there is. *)
LEMMA WrittenOut ==
  ASSUME NEW f \in Seq(Records), file' = f, buf' = <<>>
  PROVE  Written' = f
<1>1. f \o <<>> = f
  OBVIOUS
<1> QED BY <1>1, Zenon DEF Written

(* An open log can be appended to. *)
LEMMA OpenIsSound ==
  ASSUME LogInv, mode \in {"open", "forcing"}
  PROVE  ~must /\ Written \in Seq(Sound) /\ ~Replay(Written).open /\ Replay(Written).table = table
<1>1. ~must /\ Up
  BY Zenon DEF LogInv, ModeInv, Up
<1>2. Written \in Seq(Records) /\ OnlyLastTorn(Written) /\ ~RequiresCleaning(Written)
  BY <1>1, WrittenType, Zenon DEF LogInv, FileInv
<1> QED BY <1>1, <1>2, TornReplays, Zenon DEF LogInv, FileInv, Recovered

(* A sound log whose replay gives the table satisfies FileInv. *)
LEMMA SoundFileInv ==
  ASSUME NEW f \in Seq(Sound), ~Replay(f).open
  PROVE  f \in Seq(Records) /\ OnlyLastTorn(f) /\ ~RequiresCleaning(f) /\ Recovered(f) = Replay(f).table
BY SoundIsTorn, ReplaySound, Zenon

(* A log that was never opened satisfies LogInv. *)
LEMMA InitLogInv == ASSUME Init PROVE LogInv
<1>1. <<>> \in Seq(Records) /\ Len(<<>>) = 0 /\ <<>> \o <<>> = <<>>
  OBVIOUS
<1>2. TypeOK
  <2>1. EmptyTable \in Table
    BY Zenon DEF EmptyTable, Table
  <2>2. 0 \in 0 .. Len(<<>>)
    OBVIOUS
  <2> QED BY <1>1, <2>1, <2>2, Zenon DEF Init, TypeOK
<1>3. ModeInv
  BY Zenon DEF Init, ModeInv, Up
<1>4. FileInv
  BY <1>1 DEF Init, FileInv, OnlyLastTorn, Written, Up
<1>5. OldInv
  BY Zenon DEF Init, OldInv
<1> QED BY <1>2, <1>3, <1>4, <1>5, Zenon DEF LogInv

(* The active transaction grows, is given up or begun. *)
LEMMA PrepareStep ==
  ASSUME LogInv, BeginTransaction \/ AppendToTransaction \/ AbortTransaction
  PROVE  LogInv'
<1>1. mode = "open" /\ UNCHANGED <<mode, must, table, buf, file, synced, tmp, old>>
      /\ (txn' = NoTxn \/ txn' \in Seq(Operations))
  <2>1. txn # NoTxn => txn \in Seq(Operations)
    BY Zenon DEF LogInv, TypeOK
  <2>2. CASE BeginTransaction
    BY <2>2 DEF BeginTransaction, disk
  <2>3. CASE AppendToTransaction
    <3>1. \E r \in Operations : txn' = Append(txn, r)
      BY <2>3, Zenon DEF AppendToTransaction
    <3>2. txn' \in Seq(Operations)
      BY <2>1, <2>3, <3>1 DEF AppendToTransaction
    <3> QED BY <2>3, <3>2, Zenon DEF AppendToTransaction, disk
  <2>4. CASE AbortTransaction
    BY <2>4, Zenon DEF AbortTransaction, disk
  <2> QED BY <2>2, <2>3, <2>4, Zenon
<1>2. TypeOK'
  BY <1>1, Zenon DEF LogInv, TypeOK
<1>3. ModeInv'
  BY <1>1, Zenon DEF LogInv, ModeInv, Up
<1>4. FileInv'
  BY <1>1, Zenon DEF LogInv, FileInv, Up, Written
<1>5. OldInv'
  BY <1>1, Zenon DEF LogInv, OldInv
<1> QED BY <1>2, <1>3, <1>4, <1>5, Zenon DEF LogInv

(* A change: AppendToLog or CommitTransaction. *)
LEMMA ChangeStep ==
  ASSUME LogInv, AppendToLog \/ CommitTransaction
  PROVE  LogInv'
<1>0. mode = "open" /\ Written \in Seq(Sound) /\ ~Replay(Written).open /\ Replay(Written).table = table
      /\ ~must /\ Replay(Written) \in RState /\ TypeOK
  <2>1. mode = "open"
    BY Zenon DEF AppendToLog, CommitTransaction
  <2> QED BY <2>1, OpenIsSound, ReplaySound, Zenon DEF LogInv
<1>1. /\ Written' \in Seq(Sound) /\ ~Replay(Written').open /\ Replay(Written').table = table'
      /\ table' \in Table /\ buf' \in Seq(Records) /\ (txn' = NoTxn \/ txn' \in Seq(Operations))
  <2>1. CASE AppendToLog
    <3>1. PICK r \in Operations : buf' = Append(buf, r) /\ table' = Play(table, r)
      BY <2>1, Zenon DEF AppendToLog
    <3>2. r \in Records /\ r \in Sound
      BY <1>0, ReplayOperation, Zenon DEF Sound
    <3>3. Written' = Append(Written, r)
      BY <1>0, <2>1, <3>1, <3>2 DEF Written, AppendToLog, disk, TypeOK
    <3>4. Append(Written, r) \in Seq(Sound)
          /\ Replay(Append(Written, r)) = [table |-> table', open |-> FALSE, txn |-> <<>>]
      BY <1>0, <3>1, <3>2, ReplayAppend, ReplayOperation, Zenon
    <3>5. table' \in Table /\ buf' \in Seq(Records)
      BY <1>0, <3>1, <3>2, PlayType DEF TypeOK
    <3> QED BY <1>0, <2>1, <3>3, <3>4, <3>5 DEF AppendToLog, TypeOK
  <2>2. CASE CommitTransaction
    <3>1. txn \in Seq(Operations) /\ table' = PlayAll(txn, table) /\ txn' = NoTxn
          /\ buf' = buf \o Delimited(txn) /\ file' = file
      BY <1>0, <2>2, Zenon DEF CommitTransaction, disk, TypeOK
    <3>2. table' \in Table
      BY <1>0, <3>1, PlayAllType, Zenon DEF TypeOK
    <3>3. CASE txn = <<>>
      <4>1. buf' = buf
        BY <1>0, <3>1, <3>3 DEF Delimited, TypeOK
      <4>2. table' = table
        BY <1>0, <3>1, <3>3, PlayAllEmpty, Zenon DEF TypeOK
      <4> QED BY <1>0, <3>1, <4>1, <4>2, Zenon DEF Written, TypeOK
    <3>4. CASE txn # <<>>
      <4>1. Delimited(txn) \in Seq(Records)
        BY <3>1, <3>4 DEF Delimited, Records
      <4>2. buf' \in Seq(Records) /\ Written' = Written \o Delimited(txn)
        <5>1. file \in Seq(Records) /\ buf \in Seq(Records)
          BY <1>0, Zenon DEF TypeOK
        <5>2. buf \o Delimited(txn) \in Seq(Records)
          BY <4>1, <5>1, Concat, Zenon
        <5>3. file \o (buf \o Delimited(txn)) = (file \o buf) \o Delimited(txn)
          BY <4>1, <5>1, ConcatAssoc
        <5> QED BY <3>1, <5>2, <5>3, Zenon DEF Written
      <4>3. Written \o Delimited(txn) \in Seq(Sound)
            /\ Replay(Written \o Delimited(txn)) = [table |-> table', open |-> FALSE, txn |-> <<>>]
        BY <1>0, <3>1, <3>4, ReplayDelimited, Zenon
      <4> QED BY <3>1, <3>2, <4>2, <4>3
    <3> QED BY <3>3, <3>4, Zenon
  <2> QED BY <2>1, <2>2, Zenon
<1>2. UNCHANGED <<must, file, synced, tmp, old>> /\ mode' \in {"open", "forcing"}
  BY Zenon DEF AppendToLog, CommitTransaction, disk
<1>3. TypeOK'
  BY <1>0, <1>1, <1>2, Zenon DEF TypeOK
<1>4. ModeInv'
  BY <1>0, <1>2, Zenon DEF LogInv, ModeInv, Up
<1>5. FileInv'
  BY <1>1, SoundFileInv, Zenon DEF FileInv
<1>6. OldInv'
  BY <1>0, <1>2, Zenon DEF LogInv, OldInv
<1> QED BY <1>3, <1>4, <1>5, <1>6, Zenon DEF LogInv

(* What is written out without being changed: FlushLog and ForceLog. *)
LEMMA FlushStep ==
  ASSUME LogInv, FlushLog \/ ForceLog
  PROVE  LogInv'
<1>1. /\ mode \in {"open", "forcing"} /\ mode' = "open" /\ file' = Written /\ buf' = <<>>
      /\ synced' \in {synced, Len(Written)} /\ UNCHANGED <<must, table, txn, tmp, old>>
  BY Zenon DEF FlushLog, ForceLog, memory
<1>2. TypeOK /\ Written \in Seq(Records) /\ Len(Written) = Len(file) + Len(buf)
  BY WrittenType, Zenon DEF LogInv
<1>3. TypeOK'
  BY <1>1, <1>2 DEF TypeOK
<1>4. Written' = Written
  BY <1>1, <1>2, WrittenOut, Zenon
<1>5. ModeInv'
  BY <1>1, OpenIsSound, Zenon DEF LogInv, ModeInv, Up
<1>6. FileInv'
  BY <1>1, <1>4, Zenon DEF LogInv, FileInv, Up
<1>7. OldInv'
  BY <1>1, Zenon DEF LogInv, OldInv
<1> QED BY <1>3, <1>5, <1>6, <1>7, Zenon DEF LogInv

(* TruncLog() up to the rename. *)
LEMMA RotationStep ==
  ASSUME "stale_tmp" \notin Faults, LogInv,
         StartRotation \/ RotationSkipped \/ StateLogged \/ RenameFails
  PROVE  LogInv'
<1>0. TypeOK /\ Written \in Seq(Records) /\ Len(Written) = Len(file) + Len(buf)
  BY WrittenType, Zenon DEF LogInv
<1>1. CASE StartRotation
  <2>1. mode \in {"open", "cleaning"} /\ mode' = "logstate"
        /\ UNCHANGED <<must, table, txn, buf, file, synced, tmp, old>>
    BY <1>1, Zenon DEF StartRotation, disk
  <2>2. TypeOK'
    BY <1>0, <2>1, Zenon DEF TypeOK
  <2>3. ModeInv'
    BY <2>1, Zenon DEF LogInv, ModeInv, Up
  <2>4. FileInv'
    BY <2>1, Zenon DEF LogInv, FileInv, Up, Written
  <2>5. OldInv'
    BY <2>1, Zenon DEF LogInv, OldInv
  <2> QED BY <2>2, <2>3, <2>4, <2>5, Zenon DEF LogInv
<1>2. CASE StateLogged
  <2>1. /\ mode = "logstate" /\ mode' = "closed" /\ tmp' \in Overlay(LogState(table), tmp)
        /\ file' = Written /\ buf' = <<>> /\ UNCHANGED <<must, table, txn, synced, old>>
    BY <1>2, Zenon DEF StateLogged
  <2>2. tmp' = LogState(table) /\ tmp' \in Seq(Records)
    <3>1. tmp = <<>> /\ LogState(table) \in Seq(Sound)
      BY <1>0, <2>1, LogStateReplays, Zenon DEF LogInv, ModeInv, TypeOK
    <3>2. Len(tmp) <= Len(LogState(table))
      BY <3>1
    <3> QED BY <2>1, <3>1, <3>2, SoundIsTorn, Zenon DEF Overlay
  <2>3. TypeOK'
    BY <1>0, <2>1, <2>2 DEF TypeOK
  <2>4. Written' = Written
    BY <1>0, <2>1, WrittenOut, Zenon
  <2>5. ModeInv'
    BY <2>1, <2>2, Zenon DEF LogInv, ModeInv, Up
  <2>6. FileInv'
    BY <2>1, <2>4, Zenon DEF LogInv, FileInv, Up
  <2>7. OldInv'
    BY <2>1, Zenon DEF LogInv, OldInv
  <2> QED BY <2>3, <2>5, <2>6, <2>7, Zenon DEF LogInv
<1>3. CASE RotationSkipped \/ RenameFails
  <2>1. /\ mode \in {"cleaning", "closed"} /\ mode' = (IF must THEN "down" ELSE "open")
        /\ table' = (IF must THEN EmptyTable ELSE table) /\ must' = FALSE
        /\ tmp' = <<>> /\ UNCHANGED <<txn, buf, file, synced, old>>
    BY <1>3, Zenon DEF RotationSkipped, RenameFails, GiveUpRotation, disk, LogInv, ModeInv
  <2>2. TypeOK'
    <3>1. EmptyTable \in Table /\ <<>> \in Seq(Records)
      BY DEF EmptyTable, Table
    <3>2. mode' \in {"down", "open"} /\ table' \in Table /\ must' \in BOOLEAN
      BY <1>0, <2>1, <3>1, ZenonT(60) DEF TypeOK
    <3> QED BY <1>0, <2>1, <3>1, <3>2, Zenon DEF TypeOK
  <2>3. ModeInv'
    BY <2>1, Zenon DEF LogInv, ModeInv, Up
  <2>4. FileInv'
    BY <2>1, Zenon DEF LogInv, FileInv, Up, Written
  <2>5. OldInv'
    BY <2>1, Zenon DEF LogInv, OldInv
  <2> QED BY <2>2, <2>3, <2>4, <2>5, Zenon DEF LogInv
<1> QED BY <1>1, <1>2, <1>3, Zenon

(* The rename, and the directory synced behind it. *)
LEMMA RenameStep ==
  ASSUME LogInv, Rename \/ SyncDirectory
  PROVE  LogInv'
<1>0. TypeOK /\ Written \in Seq(Records) /\ (buf = <<>> => Written = file)
  BY WrittenType, Zenon DEF LogInv
<1>1. CASE Rename
  <2>1. /\ mode = "closed" /\ mode' = "renamed" /\ file' = tmp /\ synced' = Len(tmp) /\ tmp' = <<>>
        /\ old' = [file |-> file, synced |-> synced] /\ UNCHANGED <<must, table, txn, buf>>
    BY <1>1, Zenon DEF Rename
  <2>2. buf = <<>> /\ tmp = LogState(table) /\ Written = file
    BY <1>0, <2>1, Zenon DEF LogInv, ModeInv
  <2>3. TypeOK'
    <3>1. old'.file = file /\ old'.synced = synced
      BY <2>1, Zenon
    <3> QED BY <1>0, <2>1, <3>1 DEF TypeOK
  <2>4. Written' = LogState(table)
    <3>1. LogState(table) \in Seq(Records) /\ file' = LogState(table) /\ buf' = <<>>
      BY <1>0, <2>1, <2>2, Zenon DEF TypeOK
    <3> QED BY <3>1, WrittenOut, Zenon
  <2>5. ModeInv'
    BY <2>1, <2>2, Zenon DEF LogInv, ModeInv, Up
  <2>6. FileInv'
    <3>1. table \in Table /\ table' = table
      BY <1>0, <2>1, Zenon DEF TypeOK
    <3> QED BY <2>4, <3>1, LogStateReplays, SoundFileInv, Zenon DEF FileInv
  <2>7. OldInv'
    BY <2>1, <2>2, Zenon DEF LogInv, OldInv, FileInv
  <2> QED BY <2>3, <2>5, <2>6, <2>7, Zenon DEF LogInv
<1>2. CASE SyncDirectory
  <2>1. /\ mode = "renamed" /\ mode' = "open" /\ must' = FALSE /\ old' = NoFile
        /\ UNCHANGED <<table, txn, buf, file, synced, tmp>>
    BY <1>2, Zenon DEF SyncDirectory
  <2>2. TypeOK'
    BY <1>0, <2>1, Zenon DEF TypeOK
  <2>3. ModeInv'
    BY <2>1, Zenon DEF LogInv, ModeInv, Up
  <2>4. FileInv'
    BY <2>1, Zenon DEF LogInv, FileInv, Up, Written
  <2>5. OldInv'
    BY <2>1, Zenon DEF LogInv, OldInv
  <2> QED BY <2>2, <2>3, <2>4, <2>5, Zenon DEF LogInv
<1> QED BY <1>1, <1>2, Zenon

(* Crashes. *)
LEMMA CrashStep ==
  ASSUME "stale_tmp" \notin Faults, LogInv, ProcessDies \/ MachineDies
  PROVE  LogInv'
<1>0. /\ TypeOK /\ Written \in Seq(Records) /\ Len(Written) = Len(file) + Len(buf)
      /\ OnlyLastTorn(Written)
  BY WrittenType, Zenon DEF LogInv, FileInv
<1>1. /\ mode' = "down" /\ must' = FALSE /\ table' = EmptyTable /\ txn' = NoTxn
      /\ buf' = <<>> /\ tmp' = <<>>
  BY Zenon DEF ProcessDies, MachineDies, Dead
<1>2. /\ file' \in Seq(Records) /\ OnlyLastTorn(file') /\ synced' \in 0 .. Len(file')
      /\ old' \in {old, NoFile} /\ (old' # NoFile => "lost_rename" \in Faults)
  <2>0. Len(file) \in Nat /\ Len(buf) \in Nat /\ synced \in 0 .. Len(file)
    BY <1>0 DEF TypeOK
  <2>1. CASE ProcessDies
    <3>1. file' \in Cuts(Written, Len(file)) /\ synced' = synced
          /\ old' = (IF "lost_rename" \in Faults THEN old ELSE NoFile)
      BY <2>1, Zenon DEF ProcessDies
    <3>2. Len(file) \in 0 .. Len(Written)
      BY <1>0, <2>0
    <3>3. file' \in Seq(Records) /\ OnlyLastTorn(file') /\ Len(file) <= Len(file')
      BY <1>0, <3>1, <3>2, CutsTorn, Zenon
    <3> QED BY <2>0, <3>1, <3>3
  <2>2. CASE MachineDies
    <3>1. synced' = Len(file') /\ old' = NoFile
      BY <2>2, Zenon DEF MachineDies
    <3>2. file' \in Cuts(Written, synced) \/ (old # NoFile /\ file' \in Cuts(old.file, old.synced))
      BY <2>2, Zenon DEF MachineDies
    <3>3. synced \in 0 .. Len(Written)
      BY <1>0, <2>0
    <3>4. old # NoFile => /\ old.file \in Seq(Records) /\ OnlyLastTorn(old.file)
                          /\ old.synced \in 0 .. Len(old.file)
      BY <1>0, Zenon DEF TypeOK, LogInv, OldInv
    <3>5. file' \in Seq(Records) /\ OnlyLastTorn(file')
      BY <1>0, <3>2, <3>3, <3>4, CutsTorn, Zenon
    <3> QED BY <3>1, <3>5
  <2> QED BY <2>1, <2>2, Zenon
<1>3. TypeOK'
  <2>1. EmptyTable \in Table /\ <<>> \in Seq(Records)
    BY DEF EmptyTable, Table
  <2> QED BY <1>0, <1>1, <1>2, <2>1, Zenon DEF TypeOK
<1>4. ModeInv'
  BY <1>1, Zenon DEF ModeInv, Up
<1>5. FileInv'
  <2>1. Written' = file'
    BY <1>1, <1>2, WrittenOut, Zenon
  <2> QED BY <1>1, <1>2, <2>1, Zenon DEF FileInv, Up
<1>6. OldInv'
  BY <1>1, <1>2, Zenon DEF LogInv, OldInv
<1> QED BY <1>3, <1>4, <1>5, <1>6, Zenon DEF LogInv

(* An empty file, and one with only a header, replay to the empty table. *)
LEMMA ReplayHeader ==
  /\ <<>> \in Seq(Sound) /\ Replay(<<>>) = Start
  /\ <<SequenceNumber>> \in Seq(Sound) /\ Replay(<<SequenceNumber>>) = Start
<1>1. <<>> \in Seq(Sound) /\ SequenceNumber \in Sound
      /\ Append(<<>>, SequenceNumber) = <<SequenceNumber>>
  BY StartType, ReplayDelimiters
<1>2. Replay(<<>>) = Start
  <2>1. Runs(Replays(<<>>), <<>>) /\ Replay(<<>>) = Replays(<<>>)[Len(<<>>) + 1]
    BY <1>1, ReplaySound, Zenon
  <2>2. Len(<<>>) + 1 = 1
    OBVIOUS
  <2> QED BY <2>1, <2>2, Zenon DEF Runs
<1> QED BY <1>1, <1>2, StartType, ReplayAppend, ReplayDelimiters, ZenonT(60)

(* The constructor. *)
LEMMA RecoverStep ==
  ASSUME LogInv, Recover
  PROVE  LogInv'
<1>0. TypeOK /\ mode = "down" /\ buf = <<>> /\ txn = NoTxn /\ Written = file
      /\ file \in Seq(Records) /\ OnlyLastTorn(file)
  BY WrittenType, Zenon DEF Recover, LogInv, ModeInv, FileInv, Up, TypeOK
<1>1. ~Unrecoverable(file) /\ Recovered(file) \in Table /\ RequiresCleaning(file) \in BOOLEAN
  BY <1>0, TornReplays, Zenon
<1>2. /\ table' = Recovered(file) /\ must' = RequiresCleaning(file)
      /\ buf' = (IF file = <<>> THEN <<SequenceNumber>> ELSE <<>>)
      /\ mode' \in {"cleaning", "open"} /\ (must' => mode' = "cleaning")
      /\ UNCHANGED <<txn, file, synced, tmp, old>>
  BY <1>1, Zenon DEF Recover, disk
<1>3. TypeOK'
  <2>1. buf' \in Seq(Records)
    BY <1>2, ReplayHeader, SoundIsTorn, ZenonT(60)
  <2> QED BY <1>0, <1>1, <1>2, <2>1, Zenon DEF TypeOK
<1>4. /\ OnlyLastTorn(Written') /\ Recovered(Written') = table'
      /\ (RequiresCleaning(Written') => must') /\ (must' => buf' = <<>>)
  <2>1. CASE file # <<>>
    <3>1. Written' = file
      BY <1>0, <1>2, <2>1, WrittenOut, Zenon
    <3> QED BY <1>0, <1>2, <2>1, <3>1, Zenon
  <2>2. CASE file = <<>>
    <3>1. Written' = <<SequenceNumber>>
      BY <1>2, <2>2 DEF Written
    <3>2. /\ ~RequiresCleaning(<<>>) /\ Recovered(<<>>) = EmptyTable
          /\ OnlyLastTorn(<<SequenceNumber>>) /\ ~RequiresCleaning(<<SequenceNumber>>)
          /\ Recovered(<<SequenceNumber>>) = EmptyTable
      <4>1. ~Start.open /\ Start.table = EmptyTable
        BY Zenon DEF Start
      <4> QED BY <4>1, ReplayHeader, SoundFileInv, ZenonT(60)
    <3>3. ~must' /\ table' = EmptyTable
      BY <1>2, <2>2, <3>2, Zenon
    <3> QED BY <3>1, <3>2, <3>3, Zenon
  <2> QED BY <2>1, <2>2, Zenon
<1>5. ModeInv'
  BY <1>0, <1>2, <1>4, Zenon DEF LogInv, ModeInv, Up
<1>6. FileInv'
  BY <1>2, <1>4, Zenon DEF FileInv, Up
<1>7. OldInv'
  BY <1>0, <1>2, Zenon DEF LogInv, OldInv
<1> QED BY <1>3, <1>5, <1>6, <1>7, Zenon DEF LogInv

(* LogInv is inductive. *)
LEMMA LogStep ==
  ASSUME "stale_tmp" \notin Faults, LogInv, [Next]_vars
  PROVE  LogInv'
<1>1. CASE Next
  BY <1>1, PrepareStep, ChangeStep, FlushStep, RotationStep, RenameStep, CrashStep, RecoverStep, Zenon
  DEF Next
<1>2. CASE UNCHANGED vars
  BY <1>2, Zenon DEF vars, memory, disk, LogInv, TypeOK, ModeInv, FileInv, OldInv, Up, Written
<1> QED BY <1>1, <1>2, Zenon

(* The log file and the memory of the daemon stay in step through          *)
(* transactions, rotations, crashes and recoveries (classad_log.cpp),      *)
(* provided <log>.tmp is gone before the next rotation.                    *)
THEOREM LogInvariance ==
  ASSUME "stale_tmp" \notin Faults
  PROVE  Spec => []LogInv
<1>1. Init => LogInv
  BY InitLogInv, Zenon
<1>2. LogInv /\ [Next]_vars => LogInv'
  BY LogStep, Zenon
<1> QED BY <1>1, <1>2, PTL DEF Spec

(* Every field has its type and the table its keys, the constructor never  *)
(* refuses a log that a crash left, and nothing is appended behind a       *)
(* broken record or an unfinished transaction (TruncLog(), the             *)
(* constructor's requires_successful_cleaning).                            *)
THEOREM LogIsSound ==
  ASSUME "stale_tmp" \notin Faults
  PROVE  Spec => [](TypeOK /\ NeverUnrecoverable /\ AppendsToSoundLog)
<1>1. LogInv => TypeOK /\ NeverUnrecoverable /\ AppendsToSoundLog
  <2> SUFFICES ASSUME LogInv PROVE TypeOK /\ NeverUnrecoverable /\ AppendsToSoundLog
    BY Zenon
  <2>1. TypeOK /\ NeverUnrecoverable
    BY Zenon DEF LogInv, ModeInv, NeverUnrecoverable
  <2>2. AppendsToSoundLog
    BY OpenIsSound, SoundFileInv, Zenon DEF AppendsToSoundLog
  <2> QED BY <2>1, <2>2, Zenon
<1> QED BY <1>1, LogInvariance, PTL

------------------------------------------------------------------------------
(* Lookups in the active transaction                                       *)

(* LookupInv for one ad, of what ExamineTransaction() found and of the ads *)
(* before and after.                                                       *)
Agrees(exists, destroyed, before, after, e) ==
    /\ exists <=> after # NoAd
    /\ destroyed => after = NoAd
    /\ after = NoAd =>
          IF destroyed THEN e.adDeleted
          ELSE before = NoAd /\ ~e.adDeleted /\ ~e.found /\ ~e.valDeleted
    /\ after # NoAd =>
          /\ ~e.adDeleted
          /\ e.valDeleted => ~e.found /\ after = "blank"
          /\ e.found => after = e.val
          /\ ~e.found /\ ~e.valDeleted => after = IF before = NoAd THEN "blank" ELSE before

(* LookupInv says that the two views of every ad agree. *)
LEMMA LookupInvIs ==
  LookupInv <=>
    (txn # NoTxn => \A k \in Keys :
        Agrees(AdExistsInTableOrTransaction(k, txn, table), DestroyClassAd(k) \in Range(txn),
               table[k], PlayAll(txn, table)[k], ExamineTransaction(k, txn)))
BY Zenon DEF LookupInv, Agrees

(* A record that a client appends. *)
LEMMA AgreesAppend ==
  ASSUME NEW k \in Keys, NEW r \in Operations, r.key = k,
         NEW exists \in BOOLEAN, NEW destroyed \in BOOLEAN, NEW before \in Ad \cup {NoAd},
         NEW after \in Ad \cup {NoAd}, NEW e \in Seen, NEW t \in Table, t[k] = after,
         Agrees(exists, destroyed, before, after, e),
         exists <=> r.op # "NewClassAd", r.op = "NewClassAd" => ~destroyed
  PROVE  Agrees(ExistsAfter(k, exists, r), destroyed \/ r = DestroyClassAd(k), before,
                Play(t, r)[k], ExamineAfter(k, e, r))
<1> USE NoAdAssumption
<1>1. ExamineAfter(k, e, r) = ExamineRecord(e, r)
  BY Zenon DEF ExamineAfter
<1>2. CASE r = NewClassAd(k)
  <2>1. r.op = "NewClassAd" /\ r # DestroyClassAd(k) /\ Play(t, r)[k] = "blank"
    BY <1>2 DEF NewClassAd, DestroyClassAd, Play, Table
  <2>2. ExamineRecord(e, r) = [e EXCEPT !.adDeleted = FALSE] /\ ExistsAfter(k, exists, r)
    BY <2>1, Zenon DEF ExamineRecord, ExistsAfter
  <2>3. after = NoAd /\ ~destroyed /\ before = NoAd /\ ~e.found /\ ~e.valDeleted
    BY <2>1, Zenon DEF Agrees
  <2>4. "blank" # NoAd
    BY Zenon DEF Ad
  <2>5. ~ExamineRecord(e, r).adDeleted /\ ~ExamineRecord(e, r).found /\ ~ExamineRecord(e, r).valDeleted
    BY <2>2, <2>3, Zenon DEF Seen
  <2> QED BY <1>1, <2>1, <2>2, <2>3, <2>4, <2>5, Zenon DEF Agrees
<1>3. CASE r = DestroyClassAd(k)
  <2>1. r.op = "DestroyClassAd" /\ Play(t, r)[k] = NoAd
    BY <1>3 DEF DestroyClassAd, Play, Table
  <2>2. ExamineRecord(e, r).adDeleted /\ ~ExistsAfter(k, exists, r)
    BY <2>1, Zenon DEF ExamineRecord, ExistsAfter, Seen
  <2> QED BY <1>1, <1>3, <2>1, <2>2, Zenon DEF Agrees
<1>4. CASE \E v \in Values : r = SetAttribute(k, v)
  <2>0. PICK v \in Values : r = SetAttribute(k, v)
    BY <1>4, Zenon
  <2>1. r.op = "SetAttribute" /\ r.value = v /\ r # DestroyClassAd(k) /\ v # NoAd
    BY <2>0 DEF SetAttribute, DestroyClassAd, Ad
  <2>2. after # NoAd /\ ~destroyed /\ ~e.adDeleted
    BY <2>1, Zenon DEF Agrees
  <2>3. Play(t, r)[k] = v
    BY <2>1, <2>2, Zenon DEF Play, Table
  <2>4. ExamineRecord(e, r) = [e EXCEPT !.found = TRUE, !.valDeleted = FALSE, !.val = v]
        /\ ExistsAfter(k, exists, r) = exists
    BY <2>1, Zenon DEF ExamineRecord, ExistsAfter
  <2>5. ~ExamineRecord(e, r).adDeleted /\ ExamineRecord(e, r).found
        /\ ~ExamineRecord(e, r).valDeleted /\ ExamineRecord(e, r).val = v
    BY <2>2, <2>4, Zenon DEF Seen
  <2>6. exists
    BY <2>1, Zenon
  <2> QED BY <1>1, <2>1, <2>2, <2>3, <2>4, <2>5, <2>6, Zenon DEF Agrees
<1>5. CASE r = DeleteAttribute(k)
  <2>1. r.op = "DeleteAttribute" /\ r # DestroyClassAd(k)
    BY <1>5 DEF DeleteAttribute, DestroyClassAd
  <2>2. after # NoAd /\ ~destroyed /\ ~e.adDeleted
    BY <2>1, Zenon DEF Agrees
  <2>3. Play(t, r)[k] = "blank" /\ "blank" # NoAd
    BY <2>1, <2>2, Zenon DEF Play, Table, Ad
  <2>4. ExamineRecord(e, r) = [e EXCEPT !.found = FALSE, !.valDeleted = TRUE]
        /\ ExistsAfter(k, exists, r) = exists
    BY <2>1, Zenon DEF ExamineRecord, ExistsAfter
  <2>5. ~ExamineRecord(e, r).adDeleted /\ ~ExamineRecord(e, r).found
        /\ ExamineRecord(e, r).valDeleted
    BY <2>2, <2>4, Zenon DEF Seen
  <2>6. exists
    BY <2>1, Zenon
  <2> QED BY <1>1, <2>1, <2>2, <2>3, <2>4, <2>5, <2>6, Zenon DEF Agrees
<1> QED BY <1>2, <1>3, <1>4, <1>5
        DEF Operations, NewClassAd, DestroyClassAd, SetAttribute, DeleteAttribute

(* A record about another ad. *)
LEMMA AgreesOther ==
  ASSUME NEW k \in Keys, NEW r \in Operations, r.key # k, NEW t \in Table,
         NEW exists, NEW e
  PROVE  /\ ExistsAfter(k, exists, r) = exists \/ exists \notin BOOLEAN
         /\ ExamineAfter(k, e, r) = e /\ Play(t, r)[k] = t[k] /\ r # DestroyClassAd(k)
<1>1. ExamineAfter(k, e, r) = e /\ r # DestroyClassAd(k)
  BY DEF ExamineAfter, DestroyClassAd
<1>2. Play(t, r)[k] = t[k]
  <2>1. r.key \in Keys
    BY DEF Operations, NewClassAd, DestroyClassAd, SetAttribute, DeleteAttribute
  <2> QED BY <2>1, Zenon DEF Play, Table
<1>3. exists \in BOOLEAN => ExistsAfter(k, exists, r) = exists
  BY Zenon DEF ExistsAfter
<1> QED BY <1>1, <1>2, <1>3, Zenon

(* ExamineTransaction() and AdExistsInTableOrTransaction() have the types  *)
(* their folds give them.                                                  *)
LEMMA LookupTypes ==
  ASSUME NEW s \in Seq(Operations), NEW k \in Keys, NEW t \in Table
  PROVE  ExamineTransaction(k, s) \in Seen /\ AdExistsInTableOrTransaction(k, s, t) \in BOOLEAN
<1> DEFINE Pre(i) == SubSeq(s, 1, i)
           P == {i \in Nat : i <= Len(s) =>
                    /\ ExamineTransaction(k, Pre(i)) \in Seen
                    /\ AdExistsInTableOrTransaction(k, Pre(i), t) \in BOOLEAN}
<1>1. 0 \in P
  <2>1. Pre(0) = <<>> /\ Unseen \in Seen
    BY DEF Unseen, Seen, Ad
  <2>2. ExamineTransaction(k, Pre(0)) \in Seen
    BY <2>1, ExamineEmpty, Zenon
  <2>3. AdExistsInTableOrTransaction(k, Pre(0), t) \in BOOLEAN
    BY <2>1, AdExistsEmpty, Zenon
  <2> QED BY <2>2, <2>3, Zenon
<1>2. ASSUME NEW i \in Nat, i \in P PROVE i + 1 \in P
  <2> SUFFICES ASSUME i + 1 <= Len(s)
               PROVE  /\ ExamineTransaction(k, Pre(i + 1)) \in Seen
                      /\ AdExistsInTableOrTransaction(k, Pre(i + 1), t) \in BOOLEAN
    OBVIOUS
  <2> DEFINE r == s[i + 1]
  <2>1. Pre(i) \in Seq(Operations) /\ r \in Operations /\ Pre(i + 1) = Append(Pre(i), r)
    OBVIOUS
  <2>2. ExamineTransaction(k, Pre(i)) \in Seen /\ AdExistsInTableOrTransaction(k, Pre(i), t) \in BOOLEAN
    BY <1>2
  <2> HIDE DEF Pre, r
  <2>3. ExamineTransaction(k, Pre(i + 1)) \in Seen
    BY <2>1, <2>2, ExamineAppend, ExamineType, ZenonT(60)
  <2>4. AdExistsInTableOrTransaction(k, Append(Pre(i), r), t)
           = ExistsAfter(k, AdExistsInTableOrTransaction(k, Pre(i), t), r)
    BY <2>1, AdExistsAppend, Zenon
  <2>5. ExistsAfter(k, AdExistsInTableOrTransaction(k, Pre(i), t), r) \in BOOLEAN
    BY <2>2, Zenon DEF ExistsAfter
  <2> QED BY <2>1, <2>3, <2>4, <2>5, Zenon
<1>3. Len(s) \in P
  <2>1. Len(s) \in Nat
    OBVIOUS
  <2> HIDE DEF P
  <2> QED BY <1>1, <1>2, <2>1, Induction, Zenon
<1>4. Pre(Len(s)) = s /\ Len(s) <= Len(s)
  OBVIOUS
<1> QED BY <1>3, <1>4, Zenon

(* LookupInv is inductive relative to LogInv. *)
LEMMA LookupStep ==
  ASSUME ~Recreates, LogInv, LookupInv, [Next]_vars
  PROVE  LookupInv'
<1>0. table \in Table /\ (txn # NoTxn => txn \in Seq(Operations))
  BY Zenon DEF LogInv, TypeOK
<1>1. CASE BeginTransaction
  <2>1. txn' = <<>> /\ table' = table
    BY <1>1, Zenon DEF BeginTransaction
  <2> SUFFICES ASSUME NEW k \in Keys
               PROVE  Agrees(AdExistsInTableOrTransaction(k, <<>>, table), DestroyClassAd(k) \in Range(<<>>),
                             table[k], PlayAll(<<>>, table)[k], ExamineTransaction(k, <<>>))
    BY <2>1, Zenon DEF LookupInv, Agrees
  <2>2. DestroyClassAd(k) \notin Range(<<>>)
    BY DEF Range
  <2>3. PlayAll(<<>>, table) = table
    BY <1>0, PlayAllEmpty, Zenon
  <2>4. ExamineTransaction(k, <<>>) = Unseen
    BY ExamineEmpty, Zenon
  <2>5. AdExistsInTableOrTransaction(k, <<>>, table) = (table[k] # NoAd)
    BY <1>0, AdExistsEmpty, Zenon
  <2>6. ~Unseen.adDeleted /\ ~Unseen.found /\ ~Unseen.valDeleted
    BY Zenon DEF Unseen
  <2> QED BY <2>2, <2>3, <2>4, <2>5, <2>6, Zenon DEF Agrees
<1>2. CASE AppendToTransaction
  <2>1. PICK r \in Operations : Asked(r) /\ txn' = Append(txn, r)
    BY <1>2, Zenon DEF AppendToTransaction
  <2>2. txn # NoTxn /\ txn \in Seq(Operations) /\ table' = table
    BY <1>0, <1>2, Zenon DEF AppendToTransaction
  <2> SUFFICES ASSUME NEW k \in Keys
               PROVE  Agrees(AdExistsInTableOrTransaction(k, Append(txn, r), table),
                             DestroyClassAd(k) \in Range(Append(txn, r)),
                             table[k], PlayAll(Append(txn, r), table)[k],
                             ExamineTransaction(k, Append(txn, r)))
    BY <2>1, <2>2, Zenon DEF LookupInv, Agrees
  <2> DEFINE exists == AdExistsInTableOrTransaction(k, txn, table)
             destroyed == DestroyClassAd(k) \in Range(txn)
             t == PlayAll(txn, table)
             e == ExamineTransaction(k, txn)
  <2>3. Agrees(exists, destroyed, table[k], t[k], e)
    BY <2>2, LookupInvIs, Zenon
  <2>4. /\ AdExistsInTableOrTransaction(k, Append(txn, r), table) = ExistsAfter(k, exists, r)
        /\ PlayAll(Append(txn, r), table) = Play(t, r)
        /\ ExamineTransaction(k, Append(txn, r)) = ExamineAfter(k, e, r)
    BY <1>0, <2>2, AdExistsAppend, PlayAllAppend, ExamineAppend, Zenon
  <2>5. (DestroyClassAd(k) \in Range(Append(txn, r))) = (destroyed \/ r = DestroyClassAd(k))
    <3>1. Range(Append(txn, r)) = Range(txn) \cup {r}
      BY <2>2 DEF Range
    <3> QED BY <3>1
  <2>6. t \in Table /\ exists \in BOOLEAN /\ destroyed \in BOOLEAN /\ e \in Seen
    BY <1>0, <2>2, PlayAllType, LookupTypes
  <2> HIDE DEF exists, destroyed, t, e
  <2>7. CASE r.key = k
    <3>1. (exists <=> r.op # "NewClassAd") /\ (r.op = "NewClassAd" => ~destroyed)
      BY <2>1, <2>2, <2>7, Zenon DEF Asked, exists, destroyed
    <3>2. table[k] \in Ad \cup {NoAd} /\ t[k] \in Ad \cup {NoAd}
      BY <1>0, <2>6, Zenon DEF Table
    <3>3. Agrees(ExistsAfter(k, exists, r), destroyed \/ r = DestroyClassAd(k), table[k],
                 Play(t, r)[k], ExamineAfter(k, e, r))
      BY <2>3, <2>6, <2>7, <3>1, <3>2, AgreesAppend
    <3> QED BY <2>4, <2>5, <3>3, Zenon
  <2>8. CASE r.key # k
    <3>1. ExistsAfter(k, exists, r) = exists /\ ExamineAfter(k, e, r) = e
          /\ Play(t, r)[k] = t[k] /\ r # DestroyClassAd(k)
      BY <2>6, <2>8, AgreesOther
    <3>2. (destroyed \/ r = DestroyClassAd(k)) = destroyed
      BY <2>6, <3>1, Zenon
    <3> QED BY <2>3, <2>4, <2>5, <3>1, <3>2, Zenon
  <2> QED BY <2>7, <2>8, Zenon
<1>3. CASE txn' = NoTxn
  BY <1>3, ZenonT(60) DEF LookupInv
<1>4. CASE txn' = txn /\ table' = table
  BY <1>4, Zenon DEF LookupInv
<1>5. \/ BeginTransaction \/ AppendToTransaction \/ txn' = NoTxn
      \/ (txn' = txn /\ table' = table)
  <2>1. CASE UNCHANGED vars
    BY <2>1, Zenon DEF vars, memory
  <2>2. CASE AppendToLog \/ AbortTransaction \/ CommitTransaction
    BY <2>2, Zenon DEF AppendToLog, AbortTransaction, CommitTransaction
  <2>3. CASE FlushLog \/ ForceLog \/ StartRotation \/ StateLogged \/ Rename \/ SyncDirectory
    BY <2>3, Zenon DEF FlushLog, ForceLog, StartRotation, StateLogged, Rename, SyncDirectory, memory
  <2>4. CASE RotationSkipped \/ RenameFails
    BY <2>4, Zenon DEF RotationSkipped, RenameFails, GiveUpRotation, LogInv, ModeInv
  <2>5. CASE ProcessDies \/ MachineDies
    BY <2>5, Zenon DEF ProcessDies, MachineDies, Dead
  <2>6. CASE Recover
    BY <2>6, Zenon DEF Recover, LogInv, ModeInv, Up
  <2> QED BY <2>1, <2>2, <2>3, <2>4, <2>5, <2>6, Zenon DEF Next
<1> QED BY <1>1, <1>2, <1>3, <1>4, <1>5, Zenon

(* A client that looks through the active transaction before it looks in   *)
(* the table sees what the commit would give (classad_log.h on             *)
(* LookupInTransaction()), as long as nobody recreates an ad in the        *)
(* transaction that destroyed it.                                          *)
THEOREM LookupsAreStrict ==
  ASSUME "stale_tmp" \notin Faults, ~Recreates
  PROVE  Spec => []LookupIsStrict
<1>1. Init => LookupInv
  BY Zenon DEF Init, LookupInv
<1>2. LogInv /\ LookupInv /\ [Next]_vars => LookupInv'
  BY LookupStep, Zenon
<1>3. LookupInv => LookupIsStrict
  BY Zenon DEF LookupInv, LookupIsStrict, LookupThrough
<1> QED BY <1>1, <1>2, <1>3, LogInvariance, PTL DEF Spec

------------------------------------------------------------------------------
(* The refinement of DurableTable                                          *)

(* The tables that a crash can leave, state by state of the constructor. *)
LEMMA ReachableIs ==
  ASSUME NEW f \in Seq(Records), NEW n \in Nat, NEW x
  PROVE  /\ Readable(f) \in Seq(Sound)
         /\ x \in Reachable(f, n) <=>
               \E j \in 1 .. Len(Readable(f)) + 1 :
                  (j > n \/ j = Len(Readable(f)) + 1) /\ x = Replays(f)[j].table
         /\ Recovered(f) = Replays(f)[Len(Readable(f)) + 1].table
<1> DEFINE g == Readable(f)
           h == Replays(f)
<1>1. g \in Seq(Sound) /\ Runs(h, g)
  BY ReadableIs, ReplayEachSteps, Zenon DEF Replays
<1>2. h \in Seq(RState) /\ Len(h) = Len(g) + 1 /\ DOMAIN h = 1 .. Len(g) + 1
  BY <1>1 DEF Runs
<1>3. Reachable(f, n) = {h[i].table : i \in {j \in DOMAIN h : j > n \/ j = Len(h)}}
  BY Zenon DEF Reachable
<1>4. Recovered(f) = h[Len(g) + 1].table
  BY <1>2, Zenon DEF Recovered, Replay
<1> HIDE DEF h, g
<1>5. x \in Reachable(f, n) <=> \E j \in 1 .. Len(g) + 1 : (j > n \/ j = Len(g) + 1) /\ x = h[j].table
  BY <1>2, <1>3, Zenon
<1> QED BY <1>1, <1>4, <1>5, Zenon DEF h, g

(* What a crash leaves of a file, read, is a beginning of the file, read. *)
LEMMA CutReads ==
  ASSUME NEW f \in Seq(Records), OnlyLastTorn(f), NEW m \in 0 .. Len(f), NEW c \in Cuts(f, m)
  PROVE  \/ c = f
         \/ \E i \in m .. Len(Readable(f)) : Readable(c) = SubSeq(Readable(f), 1, i)
<1>0. Readable(f) \in Seq(Sound) /\ (Readable(f) = f \/ Readable(f) = SubSeq(f, 1, Len(f) - 1))
  BY ReadableIs, ReadableTorn, Zenon
<1>1. ASSUME NEW i \in m .. Len(f) - 1
      PROVE  /\ i \in m .. Len(Readable(f)) /\ SubSeq(f, 1, i) = SubSeq(Readable(f), 1, i)
             /\ SubSeq(f, 1, i) \in Seq(Sound)
  <2>1. Len(f) \in Nat /\ i \in Nat
    OBVIOUS
  <2>2. i \in m .. Len(Readable(f)) /\ SubSeq(f, 1, i) = SubSeq(Readable(f), 1, i)
    BY <1>0, <2>1
  <2>3. SubSeq(Readable(f), 1, i) \in Seq(Sound)
    <3>1. i \in 0 .. Len(Readable(f))
      BY <2>1, <2>2
    <3> QED BY <1>0, <3>1, ReplaysPrefix, Zenon
  <2> QED BY <2>2, <2>3, Zenon
<1>2. CASE \E i \in m .. Len(f) : c = SubSeq(f, 1, i)
  <2>1. PICK i \in m .. Len(f) : c = SubSeq(f, 1, i)
    BY <1>2, Zenon
  <2>2. CASE i = Len(f)
    BY <2>1, <2>2
  <2>3. CASE i # Len(f)
    <3>1. i \in m .. Len(f) - 1
      BY <2>3
    <3> QED BY <1>1, <2>1, <3>1, ReadableSound, Zenon
  <2> QED BY <2>2, <2>3, Zenon
<1>3. CASE \E i \in m .. Len(f) - 1 : c = Append(SubSeq(f, 1, i), Junk)
  <2>1. PICK i \in m .. Len(f) - 1 : c = Append(SubSeq(f, 1, i), Junk)
    BY <1>3, Zenon
  <2> DEFINE d == SubSeq(f, 1, i)
  <2>2. d \in Seq(Sound) /\ i \in m .. Len(Readable(f)) /\ d = SubSeq(Readable(f), 1, i)
    BY <1>1, Zenon
  <2>3. c = Append(d, Junk)
    BY <2>1, Zenon
  <2> HIDE DEF d
  <2>4. c \in Seq(Records) /\ OnlyLastTorn(c)
    BY CutsTorn, Zenon
  <2>5. c[Len(c)] = Junk /\ Len(c) > 0 /\ SubSeq(c, 1, Len(c) - 1) = d
    BY <2>2, <2>3
  <2>6. FirstBroken(c) # 0
    <3> SUFFICES ASSUME FirstBroken(c) = 0 PROVE FALSE
      BY Zenon
    <3>1. c \in Seq(Sound)
      BY <2>4, ReadableIs, Zenon
    <3>2. c[Len(c)] \in Sound
      BY <2>5, <3>1
    <3> QED BY <2>5, <3>2, Zenon DEF Sound
  <2>7. Readable(c) = d
    BY <2>4, <2>5, <2>6, ReadableTorn, Zenon
  <2> QED BY <2>2, <2>7, Zenon
<1> QED BY <1>2, <1>3, Zenon DEF Cuts

(* A crash leaves no other table than it could have left before. *)
LEMMA CutReachable ==
  ASSUME NEW f \in Seq(Records), OnlyLastTorn(f), NEW m \in 0 .. Len(f), NEW c \in Cuts(f, m),
         NEW n \in Nat, n <= m
  PROVE  Reachable(c, n) \subseteq Reachable(f, n)
<1> SUFFICES ASSUME NEW x \in Reachable(c, n) PROVE x \in Reachable(f, n)
  BY Zenon
<1>1. CASE c = f
  BY <1>1, Zenon
<1>2. CASE \E i \in m .. Len(Readable(f)) : Readable(c) = SubSeq(Readable(f), 1, i)
  <2>0. c \in Seq(Records)
    BY CutsTorn, Zenon
  <2>1. PICK i \in m .. Len(Readable(f)) : Readable(c) = SubSeq(Readable(f), 1, i)
    BY <1>2, Zenon
  <2> DEFINE g == Readable(f)
  <2>2. g \in Seq(Sound) /\ i \in 0 .. Len(g)
    BY ReachableIs
  <2>3. Replays(c) = Replays(SubSeq(g, 1, i)) /\ Replays(f) = Replays(g)
    BY <2>1, <2>2, ReplaysPrefix, ReadableSound, ZenonT(60) DEF Replays
  <2>4. Len(SubSeq(g, 1, i)) = i /\ \A j \in 1 .. i + 1 : Replays(c)[j] = Replays(f)[j]
    BY <2>2, <2>3, ReplaysPrefix, Zenon
  <2>5. PICK j \in 1 .. i + 1 : (j > n \/ j = i + 1) /\ x = Replays(c)[j].table
    BY <2>0, <2>1, <2>4, ReachableIs
  <2>6. j \in 1 .. Len(g) + 1 /\ j > n /\ x = Replays(f)[j].table
    BY <2>2, <2>4, <2>5
  <2> QED BY <2>6, ReachableIs, Zenon
<1> QED BY <1>1, <1>2, CutReads, Zenon

(* The table that is recovered is one of them, ... *)
LEMMA RecoveredReachable ==
  ASSUME NEW f \in Seq(Records), NEW n \in Nat
  PROVE  Recovered(f) \in Reachable(f, n)
<1>1. Len(Readable(f)) + 1 \in 1 .. Len(Readable(f)) + 1
  BY ReachableIs
<1> QED BY <1>1, ReachableIs, Zenon

(* ... the only one when all of the file is on disk. *)
LEMMA SyncedReachable ==
  ASSUME NEW f \in Seq(Records)
  PROVE  Reachable(f, Len(f)) = {Recovered(f)}
<1>1. Readable(f) \in Seq(Sound) /\ Len(Readable(f)) <= Len(f) /\ Len(f) \in Nat
  BY ReadableIs
<1>2. ASSUME NEW x \in Reachable(f, Len(f)) PROVE x = Recovered(f)
  <2>1. PICK j \in 1 .. Len(Readable(f)) + 1 :
              (j > Len(f) \/ j = Len(Readable(f)) + 1) /\ x = Replays(f)[j].table
    BY <1>1, ReachableIs
  <2>2. j = Len(Readable(f)) + 1
    BY <1>1, <2>1
  <2> QED BY <2>1, <2>2, ReachableIs, Zenon
<1>3. Recovered(f) \in Reachable(f, Len(f))
  BY <1>1, RecoveredReachable, Zenon
<1> QED BY <1>2, <1>3, Zenon

(* f grows to g by records of which only the last changes the table. *)
Grown(f, g) ==
    /\ Len(f) < Len(g)
    /\ \A j \in 1 .. Len(f) + 1 : Replays(g)[j] = Replays(f)[j]
    /\ \A j \in Len(f) + 1 .. Len(g) : Replays(g)[j].table = Replay(f).table

(* A change adds its table to the ones that a crash can leave. *)
LEMMA GrownReachable ==
  ASSUME NEW f \in Seq(Sound), NEW g \in Seq(Sound), Grown(f, g), NEW n \in 0 .. Len(f)
  PROVE  Reachable(g, n) = Reachable(f, n) \cup {Recovered(g)}
<1> USE DEF Grown
<1>0. f \in Seq(Records) /\ g \in Seq(Records) /\ Readable(f) = f /\ Readable(g) = g
      /\ Len(f) \in Nat /\ Len(g) \in Nat /\ n \in Nat
  BY ReadableSound
<1>1. Replay(f).table = Replays(f)[Len(f) + 1].table
  BY ReplaySound, Zenon
<1>2. ASSUME NEW x \in Reachable(g, n) PROVE x \in Reachable(f, n) \cup {Recovered(g)}
  <2>1. PICK j \in 1 .. Len(g) + 1 : (j > n \/ j = Len(g) + 1) /\ x = Replays(g)[j].table
    BY <1>0, ReachableIs
  <2>2. CASE j = Len(g) + 1
    BY <1>0, <2>1, <2>2, ReachableIs, ZenonT(60)
  <2>3. CASE j \in 1 .. Len(f) + 1 /\ j # Len(g) + 1
    BY <1>0, <2>1, <2>3, ReachableIs, Zenon
  <2>4. CASE j \in Len(f) + 1 .. Len(g)
    <3>1. x = Recovered(f)
      BY <1>0, <2>1, <2>4, ReplaySound, Zenon
    <3> QED BY <1>0, <3>1, RecoveredReachable, Zenon
  <2>5. j = Len(g) + 1 \/ j \in 1 .. Len(f) + 1 \/ j \in Len(f) + 1 .. Len(g)
    BY <1>0
  <2> QED BY <2>2, <2>3, <2>4, <2>5, Zenon
<1>3. ASSUME NEW x \in Reachable(f, n) PROVE x \in Reachable(g, n)
  <2>1. PICK j \in 1 .. Len(f) + 1 : (j > n \/ j = Len(f) + 1) /\ x = Replays(f)[j].table
    BY <1>0, ReachableIs
  <2>2. j \in 1 .. Len(g) + 1 /\ j > n /\ x = Replays(g)[j].table
    BY <1>0, <2>1
  <2> QED BY <1>0, <2>2, ReachableIs, Zenon
<1>4. Recovered(g) \in Reachable(g, n)
  BY <1>0, RecoveredReachable, Zenon
<1> QED BY <1>2, <1>3, <1>4, Zenon

(* The state that DurableTable sees. *)
AbsTable == IF Up THEN table ELSE Recovered(file)
Owes == mode = "forcing"

(* DurableTable's DTPrepare in terms of the log, ... *)
LEMMA DTPrepareIs ==
  DT!DTPrepare <=>
    /\ Up /\ Up' /\ ~Owes /\ ~Owes'
    /\ \/ txn = NoTxn /\ txn' = <<>>
       \/ txn # NoTxn /\ \E r \in Operations : txn' = Append(txn, r)
       \/ txn # NoTxn /\ txn' = NoTxn
    /\ AbsTable' = AbsTable /\ Recoverable' = Recoverable
BY Zenon DEF DT!DTPrepare, AbsTable, Owes

(* ... its DTCommit, ... *)
LEMMA DTCommitIs ==
  DT!DTCommit <=>
    /\ Up /\ Up' /\ ~Owes /\ Owes' \in BOOLEAN
    /\ \/ txn # NoTxn /\ AbsTable' = PlayAll(txn, AbsTable)
       \/ txn = NoTxn /\ \E r \in Operations : AbsTable' = Play(AbsTable, r)
    /\ txn' = NoTxn
    /\ Recoverable' = Recoverable \cup {AbsTable'}
BY Zenon DEF DT!DTCommit, AbsTable, Owes

(* ... its DTForce, ... *)
LEMMA DTForceIs ==
  DT!DTForce <=>
    /\ Up /\ ~Owes' /\ Up' = Up /\ AbsTable' = AbsTable /\ txn' = txn
    /\ Recoverable' = {AbsTable}
BY Zenon DEF DT!DTForce, AbsTable, Owes

(* ... its DTCrash, ... *)
LEMMA DTCrashIs ==
  DT!DTCrash <=>
    /\ ~Up' /\ ~Owes' /\ txn' = NoTxn
    /\ AbsTable' \in Recoverable' /\ Recoverable' \subseteq Recoverable
BY Zenon DEF DT!DTCrash, AbsTable, Owes

(* ... its DTRecover, ... *)
LEMMA DTRecoverIs ==
  DT!DTRecover <=>
    ~Up /\ Up' /\ Owes' = Owes /\ AbsTable' = AbsTable /\ txn' = txn /\ Recoverable' = Recoverable
BY Zenon DEF DT!DTRecover, AbsTable, Owes

(* ... and a step that it does not see. *)
LEMMA DTStutters ==
  ASSUME Up' = Up, Owes' = Owes, AbsTable' = AbsTable, txn' = txn, Recoverable' = Recoverable
  PROVE  UNCHANGED DT!dtVars
BY Zenon DEF DT!dtVars, AbsTable, Owes

(* Outside SyncDirectory's wait there is one file. *)
LEMMA OneFile ==
  ASSUME "lost_rename" \notin Faults, OldInv, mode # "renamed"
  PROVE  old = NoFile /\ Recoverable = Reachable(Written, synced)
BY Zenon DEF OldInv, Recoverable

(* BeginTransaction, AppendToTransaction and AbortTransaction prepare. *)
LEMMA PrepareRefines ==
  ASSUME BeginTransaction \/ AppendToTransaction \/ AbortTransaction
  PROVE  DT!DTPrepare
<1>1. mode = "open" /\ UNCHANGED <<mode, table, buf, file, synced, old>>
  BY Zenon DEF BeginTransaction, AppendToTransaction, AbortTransaction, disk
<1>2. Up /\ Up' /\ ~Owes /\ ~Owes' /\ AbsTable' = AbsTable
  BY <1>1, Zenon DEF Up, Owes, AbsTable
<1>3. Recoverable' = Recoverable
  BY <1>1, Zenon DEF Recoverable, Written
<1>4. \/ txn = NoTxn /\ txn' = <<>>
      \/ txn # NoTxn /\ \E r \in Operations : txn' = Append(txn, r)
      \/ txn # NoTxn /\ txn' = NoTxn
  BY Zenon DEF BeginTransaction, AppendToTransaction, AbortTransaction
<1> QED BY <1>2, <1>3, <1>4, DTPrepareIs, Zenon

(* AppendToLog and CommitTransaction commit. *)
LEMMA ChangeRefines ==
  ASSUME "lost_rename" \notin Faults, LogInv, LogInv', AppendToLog \/ CommitTransaction
  PROVE  DT!DTCommit
<1>0. mode = "open" /\ Written \in Seq(Sound) /\ ~Replay(Written).open /\ Replay(Written).table = table
      /\ Replay(Written) \in RState /\ TypeOK
  <2>1. mode = "open"
    BY Zenon DEF AppendToLog, CommitTransaction
  <2> QED BY <2>1, OpenIsSound, ReplaySound, Zenon DEF LogInv
<1>1. UNCHANGED <<file, synced, old>> /\ mode' \in {"open", "forcing"} /\ txn' = NoTxn
  BY Zenon DEF AppendToLog, CommitTransaction, disk
<1>2. Up /\ Up' /\ ~Owes /\ Owes' \in BOOLEAN /\ AbsTable = table /\ AbsTable' = table'
  BY <1>0, <1>1, Zenon DEF Up, Owes, AbsTable
<1>3. Recoverable = Reachable(Written, synced) /\ synced \in 0 .. Len(Written) /\ synced \in Nat
  <2>1. OldInv /\ mode # "renamed"
    BY <1>0, Zenon DEF LogInv
  <2>2. Len(Written) = Len(file) + Len(buf) /\ synced \in 0 .. Len(file) /\ Len(file) \in Nat /\ Len(buf) \in Nat
    BY <1>0, WrittenType DEF TypeOK
  <2> QED BY <2>1, <2>2, OneFile
<1>4. Recoverable' = Reachable(Written', synced)
  BY <1>1, <1>3, Zenon DEF LogInv, OldInv, Recoverable
<1>5. \/ Written' = Written /\ table' = table
      \/ Written' \in Seq(Sound) /\ Grown(Written, Written') /\ Recovered(Written') = table'
  <2>1. CASE AppendToLog
    <3>1. PICK r \in Operations : buf' = Append(buf, r) /\ table' = Play(table, r)
      BY <2>1, Zenon DEF AppendToLog
    <3>2. r \in Records /\ r \in Sound
      BY <1>0, ReplayOperation, Zenon DEF Sound
    <3>3. Written' = Append(Written, r)
      BY <1>0, <1>1, <3>1, <3>2 DEF Written, TypeOK
    <3>4. /\ Append(Written, r) \in Seq(Sound)
          /\ \A i \in 1 .. Len(Written) + 1 : Replays(Append(Written, r))[i] = Replays(Written)[i]
          /\ Replay(Append(Written, r)) = [table |-> table', open |-> FALSE, txn |-> <<>>]
      BY <1>0, <3>1, <3>2, ReplayAppend, ReplayOperation, Zenon
    <3>5. Len(Append(Written, r)) = Len(Written) + 1 /\ Len(Written) \in Nat
      BY <1>0, <3>2
    <3>6. Replay(Written) = Replays(Written)[Len(Written) + 1]
      BY <1>0, ReplaySound, Zenon
    <3>7. Grown(Written, Append(Written, r))
      BY <3>4, <3>5, <3>6 DEF Grown
    <3>8. Recovered(Append(Written, r)) = table'
      BY <3>4 DEF Recovered
    <3> QED BY <3>3, <3>4, <3>7, <3>8, Zenon
  <2>2. CASE CommitTransaction
    <3>1. txn \in Seq(Operations) /\ table' = PlayAll(txn, table) /\ buf' = buf \o Delimited(txn)
      BY <1>0, <2>2, Zenon DEF CommitTransaction, TypeOK
    <3>3. CASE txn = <<>>
      <4>1. buf' = buf
        BY <1>0, <3>1, <3>3 DEF Delimited, TypeOK
      <4>2. table' = table
        BY <1>0, <3>1, <3>3, PlayAllEmpty, Zenon DEF TypeOK
      <4> QED BY <1>1, <4>1, <4>2, Zenon DEF Written
    <3>4. CASE txn # <<>>
      <4> DEFINE d == Delimited(txn)
                 g == Written \o d
      <4>1. d \in Seq(Records)
        BY <3>1, <3>4 DEF Delimited, Records
      <4>2. Written' = g
        <5>1. file \in Seq(Records) /\ buf \in Seq(Records)
          BY <1>0, Zenon DEF TypeOK
        <5>2. file \o (buf \o d) = (file \o buf) \o d
          BY <4>1, <5>1, ConcatAssoc
        <5> QED BY <1>1, <3>1, <5>2, Zenon DEF Written
      <4>3. /\ g \in Seq(Sound) /\ Len(g) = Len(Written) + Len(txn) + 2
            /\ \A i \in 1 .. Len(Written) + 1 : Replays(g)[i] = Replays(Written)[i]
            /\ \A i \in Len(Written) + 1 .. Len(g) : Replays(g)[i].table = Replay(Written).table
            /\ Replay(g) = [table |-> PlayAll(txn, Replay(Written).table), open |-> FALSE, txn |-> <<>>]
        BY <1>0, <3>1, <3>4, ReplayDelimited, Zenon
      <4> HIDE DEF g, d
      <4>4. Len(Written) < Len(g)
        BY <1>0, <3>1, <4>3
      <4>5. Recovered(g) = table'
        BY <1>0, <3>1, <4>3 DEF Recovered
      <4> QED BY <4>2, <4>3, <4>4, <4>5, Zenon DEF Grown
    <3> QED BY <3>3, <3>4, Zenon
  <2> QED BY <2>1, <2>2, Zenon
<1>6. Recoverable' = Recoverable \cup {table'}
  <2>1. CASE Written' = Written /\ table' = table
    <3>1. Recovered(Written) = table
      BY <1>0, Zenon DEF Recovered
    <3>2. table \in Reachable(Written, synced)
      <4>1. Written \in Seq(Records)
        BY <1>0, ReadableSound, Zenon
      <4> QED BY <1>3, <3>1, <4>1, RecoveredReachable, Zenon
    <3> QED BY <1>3, <1>4, <2>1, <3>2, Zenon
  <2>2. CASE Written' \in Seq(Sound) /\ Grown(Written, Written') /\ Recovered(Written') = table'
    <3>1. Reachable(Written', synced) = Reachable(Written, synced) \cup {Recovered(Written')}
      BY <1>0, <1>3, <2>2, GrownReachable, Zenon
    <3> QED BY <1>3, <1>4, <2>2, <3>1, Zenon
  <2> QED BY <1>5, <2>1, <2>2, Zenon
<1>7. \/ txn # NoTxn /\ table' = PlayAll(txn, table)
      \/ txn = NoTxn /\ \E r \in Operations : table' = Play(table, r)
  BY Zenon DEF AppendToLog, CommitTransaction
<1> QED BY <1>1, <1>2, <1>6, <1>7, DTCommitIs, ZenonT(60)

(* ForceLog forces, and so does the end of a rotation. *)
LEMMA ForceRefines ==
  ASSUME "lost_rename" \notin Faults, LogInv, ForceLog \/ SyncDirectory
  PROVE  DT!DTForce
<1>0. TypeOK /\ Written \in Seq(Records) /\ file \in Seq(Records)
  BY WrittenType, Zenon DEF LogInv, TypeOK
<1>1. /\ Up /\ mode' = "open" /\ Up' /\ ~Owes' /\ UNCHANGED <<table, txn>>
      /\ AbsTable = table /\ AbsTable' = table'
  BY Zenon DEF ForceLog, SyncDirectory, Up, Owes, AbsTable
<1>2. Recovered(Written) = table
  BY <1>1, Zenon DEF LogInv, FileInv
<1>3. Written' = Written /\ synced' = Len(Written) /\ old' = NoFile
  <2>1. CASE ForceLog
    <3>1. file' = Written /\ buf' = <<>> /\ synced' = Len(Written) /\ old' = old /\ mode # "renamed"
      BY <2>1, Zenon DEF ForceLog
    <3> QED BY <1>0, <3>1, WrittenOut, Zenon DEF LogInv, OldInv
  <2>2. CASE SyncDirectory
    <3>1. mode = "renamed" /\ UNCHANGED <<buf, file, synced>> /\ old' = NoFile
      BY <2>2, Zenon DEF SyncDirectory
    <3>2. buf = <<>> /\ synced = Len(file)
      BY <3>1, Zenon DEF LogInv, ModeInv, OldInv
    <3> QED BY <1>0, <3>1, <3>2, WrittenType, Zenon DEF Written
  <2> QED BY <2>1, <2>2, Zenon
<1>4. Recoverable' = {table}
  <2>1. Recoverable' = Reachable(Written, Len(Written))
    BY <1>3, Zenon DEF Recoverable
  <2> QED BY <1>0, <1>2, <2>1, SyncedReachable, Zenon
<1> QED BY <1>1, <1>4, DTForceIs, Zenon

(* FlushLog, and TruncLog() up to the rename, change nothing that a crash  *)
(* could show.                                                             *)
LEMMA FlushRefines ==
  ASSUME LogInv, FlushLog \/ StartRotation \/ StateLogged
  PROVE  UNCHANGED DT!dtVars
<1>0. Written \in Seq(Records)
  BY WrittenType, Zenon DEF LogInv
<1>1. UNCHANGED <<table, txn, synced, old>>
  BY Zenon DEF FlushLog, StartRotation, StateLogged, memory, disk
<1>2. Up /\ Up' /\ ~Owes /\ ~Owes'
  BY Zenon DEF FlushLog, StartRotation, StateLogged, memory, Up, Owes
<1>3. Written' = Written
  <2>1. CASE FlushLog \/ StateLogged
    <3>1. file' = Written /\ buf' = <<>>
      BY <2>1, Zenon DEF FlushLog, StateLogged
    <3> QED BY <1>0, <3>1, WrittenOut, Zenon
  <2>2. CASE StartRotation
    BY <2>2, Zenon DEF StartRotation, Written, disk
  <2> QED BY <2>1, <2>2, Zenon
<1>4. Recoverable' = Recoverable /\ AbsTable' = AbsTable
  BY <1>1, <1>2, <1>3, Zenon DEF Recoverable, AbsTable
<1>5. Up' = Up /\ Owes' = Owes
  BY <1>2, Zenon DEF Up, Owes
<1> QED BY <1>1, <1>4, <1>5, DTStutters, Zenon

(* A rotation that is given up changes nothing, or ends the daemon. *)
LEMMA GiveUpRefines ==
  ASSUME LogInv, RotationSkipped \/ RenameFails
  PROVE  DT!DTCrash \/ UNCHANGED DT!dtVars
<1>1. /\ UNCHANGED <<txn, buf, file, synced, old>> /\ GiveUpRotation
      /\ mode \in {"cleaning", "closed"} /\ Up /\ ~Owes
  BY Zenon DEF RotationSkipped, RenameFails, disk, Up, Owes
<1>2. Recoverable' = Recoverable
  BY <1>1, Zenon DEF Recoverable, Written
<1>3. CASE must
  <2>1. ~Up' /\ ~Owes'
    BY <1>1, <1>3, Zenon DEF GiveUpRotation, Up, Owes
  <2>2. txn' = NoTxn /\ buf = <<>>
    BY <1>1, <1>3, Zenon DEF LogInv, ModeInv
  <2>3. AbsTable' = Recovered(Written) /\ Written \in Seq(Records) /\ synced \in Nat
    BY <1>1, <2>1, <2>2, WrittenType DEF AbsTable, LogInv, TypeOK
  <2>4. AbsTable' \in Recoverable'
    BY <1>2, <2>3, RecoveredReachable, Zenon DEF Recoverable
  <2> QED BY <1>2, <2>1, <2>2, <2>4, DTCrashIs, Zenon
<1>4. CASE ~must
  <2>1. mode' = "open" /\ table' = table
    BY <1>1, <1>4, Zenon DEF GiveUpRotation
  <2>2. Up' = Up /\ Owes' = Owes /\ AbsTable' = AbsTable
    BY <1>1, <2>1, Zenon DEF Up, Owes, AbsTable
  <2> QED BY <1>1, <1>2, <2>2, DTStutters, Zenon
<1> QED BY <1>3, <1>4, Zenon

(* Until the directory is synced both files are there, and they replay to  *)
(* the same table.                                                         *)
LEMMA RenameRefines ==
  ASSUME "lost_rename" \notin Faults, LogInv, Rename
  PROVE  DT!DTForce \/ UNCHANGED DT!dtVars
<1>1. /\ mode = "closed" /\ mode' = "renamed" /\ file' = tmp /\ synced' = Len(tmp)
      /\ old' = [file |-> file, synced |-> synced] /\ UNCHANGED <<table, txn, buf>>
  BY Zenon DEF Rename
<1>2. TypeOK /\ Written \in Seq(Records) /\ buf = <<>> /\ Written = file /\ tmp = LogState(table)
      /\ table \in Table /\ synced \in Nat
  BY <1>1, WrittenType DEF LogInv, ModeInv, TypeOK
<1>3. Up' = Up /\ Owes' = Owes /\ AbsTable' = AbsTable /\ Up
  BY <1>1, Zenon DEF Up, Owes, AbsTable
<1>4. Recoverable = Reachable(file, synced)
  <2>1. OldInv /\ mode # "renamed"
    BY <1>1, Zenon DEF LogInv
  <2> QED BY <1>2, <2>1, OneFile, Zenon
<1>5. LogState(table) \in Seq(Records) /\ Recovered(LogState(table)) = table
  BY <1>2, LogStateReplays, SoundFileInv, Zenon
<1>6. Written' = LogState(table)
  <2>1. file' = LogState(table) /\ buf' = <<>>
    BY <1>1, <1>2, Zenon
  <2> QED BY <1>5, <2>1, WrittenOut, Zenon
<1>7. Reachable(Written', synced') = {table} /\ AbsTable = table
  BY <1>1, <1>2, <1>3, <1>5, <1>6, SyncedReachable, Zenon DEF AbsTable
<1>8. table \in Reachable(file, synced)
  <2>1. Recovered(file) = table
    BY <1>2, <1>3, Zenon DEF LogInv, FileInv
  <2> QED BY <1>2, <2>1, RecoveredReachable, Zenon
<1>9. CASE old' = NoFile
  <2>1. Recoverable' = {table}
    BY <1>7, <1>9, Zenon DEF Recoverable
  <2>2. ~Owes' /\ Up
    BY <1>1, <1>3, Zenon DEF Owes
  <2> QED BY <1>1, <1>3, <1>7, <2>1, <2>2, DTForceIs, Zenon
<1>10. CASE old' # NoFile
  <2>1. old'.file = file /\ old'.synced = synced
    BY <1>1, Zenon
  <2>2. Recoverable' = {table} \cup Reachable(file, synced)
    BY <1>7, <1>10, <2>1, Zenon DEF Recoverable
  <2>3. Recoverable' = Recoverable
    BY <1>4, <1>8, <2>2, Zenon
  <2> QED BY <1>1, <1>3, <2>3, DTStutters, Zenon
<1> QED BY <1>9, <1>10, Zenon

(* Crashes. *)
LEMMA CrashRefines ==
  ASSUME "stale_tmp" \notin Faults, "lost_rename" \notin Faults, LogInv, LogInv',
         ProcessDies \/ MachineDies
  PROVE  DT!DTCrash
<1>0. /\ TypeOK /\ Written \in Seq(Records) /\ Len(Written) = Len(file) + Len(buf)
      /\ OnlyLastTorn(Written) /\ Len(file) \in Nat /\ Len(buf) \in Nat /\ synced \in 0 .. Len(file)
      /\ synced \in Nat
  BY WrittenType DEF LogInv, FileInv, TypeOK
<1>1. mode' = "down" /\ txn' = NoTxn /\ buf' = <<>> /\ old' = NoFile
  BY Zenon DEF ProcessDies, MachineDies, Dead
<1>2. file' \in Seq(Records) /\ synced' \in Nat
  BY DEF LogInv, TypeOK
<1>3. Recoverable' = Reachable(file', synced')
  <2>1. Written' = file'
    BY <1>1, <1>2, WrittenOut, Zenon
  <2> QED BY <1>1, <2>1, Zenon DEF Recoverable
<1>4. ~Up' /\ ~Owes' /\ AbsTable' = Recovered(file')
  BY <1>1, Zenon DEF Up, Owes, AbsTable
<1>5. Recovered(file') \in Recoverable'
  BY <1>2, <1>3, RecoveredReachable, Zenon
<1>6. Recoverable' \subseteq Recoverable
  <2>1. CASE ProcessDies
    <3>1. file' \in Cuts(Written, Len(file)) /\ synced' = synced
      BY <2>1, Zenon DEF ProcessDies
    <3>2. Len(file) \in 0 .. Len(Written) /\ synced <= Len(file)
      BY <1>0
    <3>3. Reachable(file', synced) \subseteq Reachable(Written, synced)
      BY <1>0, <3>1, <3>2, CutReachable, Zenon
    <3> QED BY <1>3, <3>1, <3>3, Zenon DEF Recoverable
  <2>2. CASE MachineDies
    <3>1. synced' = Len(file')
      BY <2>2, Zenon DEF MachineDies
    <3>2. Recoverable' = {Recovered(file')}
      BY <1>2, <1>3, <3>1, SyncedReachable, Zenon
    <3>3. CASE file' \in Cuts(Written, synced)
      <4>1. synced \in 0 .. Len(Written) /\ synced <= synced
        BY <1>0
      <4>2. Reachable(file', synced) \subseteq Reachable(Written, synced)
        BY <1>0, <3>3, <4>1, CutReachable, Zenon
      <4> QED BY <1>0, <1>2, <3>2, <4>2, RecoveredReachable, Zenon DEF Recoverable
    <3>4. CASE old # NoFile /\ file' \in Cuts(old.file, old.synced)
      <4>1. old.file \in Seq(Records) /\ OnlyLastTorn(old.file)
            /\ old.synced \in 0 .. Len(old.file) /\ old.synced \in Nat /\ old.synced <= old.synced
        BY <3>4 DEF TypeOK, LogInv, OldInv
      <4>2. Reachable(file', old.synced) \subseteq Reachable(old.file, old.synced)
        BY <3>4, <4>1, CutReachable, Zenon
      <4> QED BY <1>2, <3>2, <3>4, <4>1, <4>2, RecoveredReachable, Zenon DEF Recoverable
    <3>5. file' \in Cuts(Written, synced) \/ (old # NoFile /\ file' \in Cuts(old.file, old.synced))
      BY <2>2, Zenon DEF MachineDies
    <3> QED BY <3>3, <3>4, <3>5, Zenon
  <2> QED BY <2>1, <2>2, Zenon
<1> QED BY <1>1, <1>4, <1>5, <1>6, DTCrashIs, Zenon

(* The constructor recovers the table that the crash has left. *)
LEMMA RecoverRefines ==
  ASSUME "lost_rename" \notin Faults, LogInv, Recover
  PROVE  DT!DTRecover
<1>0. TypeOK /\ mode = "down" /\ buf = <<>> /\ Written = file
      /\ file \in Seq(Records) /\ OnlyLastTorn(file) /\ synced \in 0 .. Len(file)
  BY WrittenType, Zenon DEF Recover, LogInv, ModeInv, FileInv, Up, TypeOK
<1>1. /\ table' = Recovered(file) /\ mode' \in {"cleaning", "open"}
      /\ buf' = (IF file = <<>> THEN <<SequenceNumber>> ELSE <<>>)
      /\ UNCHANGED <<txn, file, synced, old>>
  BY <1>0, TornReplays, Zenon DEF Recover, disk
<1>2. ~Up /\ Up' /\ Owes' = Owes /\ AbsTable' = AbsTable
  BY <1>0, <1>1, Zenon DEF Up, Owes, AbsTable
<1>3. Recoverable = Reachable(file, synced) /\ old' = NoFile
  <2>1. OldInv /\ mode # "renamed"
    BY <1>0, Zenon DEF LogInv
  <2> QED BY <1>0, <1>1, <2>1, OneFile, Zenon
<1>4. Recoverable' = Recoverable
  <2>1. CASE file # <<>>
    <3>1. Written' = file
      BY <1>0, <1>1, <2>1, WrittenOut, Zenon
    <3> QED BY <1>1, <1>3, <3>1, Zenon DEF Recoverable
  <2>2. CASE file = <<>>
    <3> DEFINE e == <<>>
               g == <<SequenceNumber>>
    <3>1. Written' = g /\ synced = 0 /\ synced' = 0
      BY <1>0, <1>1, <2>2 DEF Written
    <3>2. Recoverable = Reachable(e, 0) /\ Recoverable' = Reachable(g, 0)
      BY <1>3, <2>2, <3>1, Zenon DEF Recoverable
    <3>3. e \in Seq(Sound) /\ SequenceNumber \in Sound /\ g = Append(e, SequenceNumber)
          /\ Len(e) = 0 /\ Len(g) = 1 /\ g \in Seq(Sound) /\ e \in Seq(Records)
          /\ 0 \in Nat /\ 0 \in 0 .. Len(e)
      BY StartType, ReplayDelimiters
    <3>4. Replay(e) = Start /\ Replay(g) = Start
      BY ReplayHeader, Zenon
    <3> HIDE DEF e, g
    <3>5. \A i \in 1 .. Len(e) + 1 : Replays(g)[i] = Replays(e)[i]
      BY <3>3, ReplayAppend, Zenon
    <3>6. Replay(e) = Replays(e)[Len(e) + 1]
      BY <3>3, ReplaySound, ZenonT(60)
    <3>7. Grown(e, g)
      BY <3>3, <3>5, <3>6 DEF Grown
    <3>8. Recovered(g) = Recovered(e)
      BY <3>4, Zenon DEF Recovered
    <3>9. Reachable(g, 0) = Reachable(e, 0) \cup {Recovered(g)}
      BY <3>3, <3>7, GrownReachable, ZenonT(60)
    <3>10. Recovered(e) \in Reachable(e, 0)
      BY <3>3, RecoveredReachable, ZenonT(60)
    <3> QED BY <3>2, <3>8, <3>9, <3>10, Zenon
  <2> QED BY <2>1, <2>2, Zenon
<1> QED BY <1>1, <1>2, <1>4, DTRecoverIs, Zenon

(* Every step of the log is a step of the durable table or invisible to it. *)
LEMMA RefinesStep ==
  ASSUME "stale_tmp" \notin Faults, "lost_rename" \notin Faults, LogInv, LogInv', [Next]_vars
  PROVE  [DT!DTNext]_(DT!dtVars)
<1>1. CASE BeginTransaction \/ AppendToTransaction \/ AbortTransaction
  BY <1>1, PrepareRefines, Zenon DEF DT!DTNext
<1>2. CASE AppendToLog \/ CommitTransaction
  BY <1>2, ChangeRefines, Zenon DEF DT!DTNext
<1>3. CASE ForceLog \/ SyncDirectory
  BY <1>3, ForceRefines, Zenon DEF DT!DTNext
<1>4. CASE FlushLog \/ StartRotation \/ StateLogged
  BY <1>4, FlushRefines, Zenon
<1>5. CASE RotationSkipped \/ RenameFails
  BY <1>5, GiveUpRefines, Zenon DEF DT!DTNext
<1>6. CASE Rename
  BY <1>6, RenameRefines, Zenon DEF DT!DTNext
<1>7. CASE ProcessDies \/ MachineDies
  BY <1>7, CrashRefines, Zenon DEF DT!DTNext
<1>8. CASE Recover
  BY <1>8, RecoverRefines, Zenon DEF DT!DTNext
<1>9. CASE UNCHANGED vars
  <2>1. UNCHANGED <<mode, table, txn, file, buf, synced, old>>
    BY <1>9, Zenon DEF vars, memory, disk
  <2>2. Up' = Up /\ Owes' = Owes /\ AbsTable' = AbsTable /\ Recoverable' = Recoverable
    BY <2>1, Zenon DEF Up, Owes, AbsTable, Recoverable, Written
  <2> QED BY <2>1, <2>2, DTStutters, Zenon
<1> QED BY <1>1, <1>2, <1>3, <1>4, <1>5, <1>6, <1>7, <1>8, <1>9, Zenon DEF Next

(* The log starts as the empty durable table. *)
LEMMA RefinesInit == ASSUME Init PROVE DT!DTInit
<1>1. mode = "down" /\ txn = NoTxn /\ file = <<>> /\ synced = 0 /\ buf = <<>> /\ old = NoFile
  BY Zenon DEF Init
<1> DEFINE e == <<>>
<1>2. file = e /\ Written = e /\ e \in Seq(Records) /\ Len(e) = 0
  BY <1>1 DEF Written
<1>3. Recovered(e) = EmptyTable
  BY ReplayHeader DEF Recovered, Start
<1> HIDE DEF e
<1>4. Recoverable = {EmptyTable}
  BY <1>1, <1>2, <1>3, SyncedReachable, ZenonT(60) DEF Recoverable
<1>5. ~Up /\ ~(mode = "forcing") /\ (IF Up THEN table ELSE Recovered(file)) = EmptyTable
  BY <1>1, <1>2, <1>3, Zenon DEF Up
<1> QED BY <1>1, <1>4, <1>5, Zenon DEF DT!DTInit

(* The log implements the durable table: whatever the process and the      *)
(* machine do, in the middle of a write, of a commit or of a rotation,     *)
(* replay gives a table that some commit has made, at least as recent as   *)
(* the last one that was forced to disk.                                   *)
THEOREM LogImplementsDurableTable ==
  ASSUME "stale_tmp" \notin Faults, "lost_rename" \notin Faults
  PROVE  Spec => ImplementsDurableTable
<1>1. Init => DT!DTInit
  BY RefinesInit, Zenon
<1>2. LogInv /\ LogInv' /\ [Next]_vars => [DT!DTNext]_(DT!dtVars)
  BY RefinesStep, Zenon
<1> QED BY <1>1, <1>2, LogInvariance, PTL DEF Spec, ImplementsDurableTable, DT!DTSpec
==============================================================================
