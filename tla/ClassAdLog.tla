------------------------------ MODULE ClassAdLog ------------------------------
(***************************************************************************)
(* The persistent table of ads behind the job queue and the accountant     *)
(* (condor_utils/classad_log.cpp, log_transaction.cpp): operations and     *)
(* transactions appended to a log file through a stdio buffer, durable and *)
(* nondurable commits, replay by the constructor, and rotation by writing  *)
(* <log>.tmp and renaming it.                                              *)
(*                                                                         *)
(* The daemon may die at any point (a crash or an EXCEPT after a failed    *)
(* write, flush or fsync), which loses the stdio buffer, and the machine   *)
(* may go down, which loses everything that was not synced.  A write may   *)
(* end in the middle of a record.                                          *)
(***************************************************************************)
EXTENDS LogRecords

CONSTANTS
    NoTxn, NoFile,  \* NULL pointers
    Faults,         \* what can go wrong; see FaultsAssumption
    Recreates,      \* clients recreate an ad in the transaction that destroyed it
    MaxRecords      \* bound on the records in file, buffer and transaction

(* process     the daemon dies                                             *)
(* machine     the machine goes down                                       *)
(* stale_tmp   the <log>.tmp of a rotation that did not finish is still    *)
(*             there at the next rotation                                  *)
(* lost_rename a rename is lost although its process died before the       *)
(*             machine went down                                           *)
ASSUME FaultsAssumption ==
    Faults \subseteq {"process", "machine", "stale_tmp", "lost_rename"}
ASSUME BoundsAssumption == MaxRecords \in Nat /\ Recreates \in BOOLEAN

VARIABLES
    mode,           \* which function the daemon is in
    must,           \* the constructor's requires_successful_cleaning
    table, txn,     \* table, active_transaction
    file, synced,   \* the log file, and how much of it is on disk
    buf,            \* log_fp's buffer
    tmp,            \* <log>.tmp
    old             \* the file a rename replaced, until that is on disk

memory == <<mode, must, table, txn>>
disk   == <<file, synced, tmp, old>>
vars   == <<memory, buf, disk>>

Up == mode \notin {"down", "stuck"}

TypeOK ==
    /\ mode \in {"down", "stuck", "cleaning", "open", "forcing", "logstate",
                 "closed", "renamed"}
    /\ must \in BOOLEAN /\ table \in Table
    /\ txn = NoTxn \/ txn \in Seq(Operations)
    /\ file \in Seq(Records) /\ synced \in 0 .. Len(file)
    /\ buf \in Seq(Records) /\ tmp \in Seq(Records)
    /\ old = NoFile \/ /\ old.file \in Seq(Records)
                       /\ old.synced \in 0 .. Len(old.file)

Init ==
    /\ mode = "down" /\ must = FALSE /\ table = EmptyTable /\ txn = NoTxn
    /\ file = <<>> /\ synced = 0 /\ buf = <<>> /\ tmp = <<>> /\ old = NoFile

------------------------------------------------------------------------------
(* Files and stdio                                                         *)

Written == file \o buf

(* What may be left of f when at least its first n records reached the     *)
(* file: some of the others, and perhaps a piece of the next one.          *)
Cuts(f, n) ==
    {SubSeq(f, 1, i) : i \in n .. Len(f)}
    \cup {Append(SubSeq(f, 1, i), Junk) : i \in n .. Len(f) - 1}

(* Writing new over an existing file that is not truncated first: a longer *)
(* one keeps its tail, which may begin inside a record.                    *)
Overlay(new, f) ==
    IF Len(f) <= Len(new) THEN {new}
    ELSE {new \o SubSeq(f, Len(new) + 1, Len(f)),
          Append(new, Junk) \o SubSeq(f, Len(new) + 2, Len(f))}

Fits(n) ==
    Len(file) + Len(buf) + (IF txn = NoTxn THEN 0 ELSE Len(txn) + 2) + n <= MaxRecords

------------------------------------------------------------------------------
(* Operations and transactions                                             *)

(* What clients ask for: schedd and accountant create an ad they do not    *)
(* have and change or destroy one they have.                               *)
Asked(r) ==
    LET t == IF txn = NoTxn THEN <<>> ELSE txn
    IN  /\ AdExistsInTableOrTransaction(r.key, t, table) <=> r.op # "NewClassAd"
        /\ r.op = "NewClassAd" /\ ~Recreates => DestroyClassAd(r.key) \notin Range(t)

BeginTransaction ==
    /\ mode = "open" /\ txn = NoTxn /\ Fits(3)
    /\ txn' = <<>>
    /\ UNCHANGED <<mode, must, table, buf, disk>>

(* AppendLog() with an active transaction ... *)
AppendToTransaction ==
    /\ mode = "open" /\ txn # NoTxn /\ Fits(1)
    /\ \E r \in Operations : Asked(r) /\ txn' = Append(txn, r)
    /\ UNCHANGED <<mode, must, table, buf, disk>>

(* ... and without one.  m_nondurable_level says whether it is forced.     *)
AppendToLog ==
    /\ mode = "open" /\ txn = NoTxn /\ Fits(1)
    /\ \E r \in Operations :
          Asked(r) /\ buf' = Append(buf, r) /\ table' = Play(table, r)
    /\ mode' \in {"open", "forcing"}
    /\ UNCHANGED <<must, txn, disk>>

AbortTransaction ==
    /\ mode = "open" /\ txn # NoTxn
    /\ txn' = NoTxn
    /\ UNCHANGED <<mode, must, table, buf, disk>>

(* The records of a transaction; an empty one writes nothing. *)
Delimited(t) ==
    IF t = <<>> THEN <<>> ELSE <<BeginTransactionR>> \o t \o <<EndTransactionR>>

CommitTransaction ==
    /\ mode = "open" /\ txn # NoTxn
    /\ table' = PlayAll(txn, table) /\ txn' = NoTxn
    /\ mode' \in IF txn = <<>> THEN {"open"} ELSE {"open", "forcing"}
    /\ buf' = buf \o Delimited(txn)
    /\ UNCHANGED <<must, disk>>

(* A nondurable commit whose write fails: what was in the buffer is gone   *)
(* but for what went to the file, and Transaction::Commit() does not tell. *)
CommitUnwritten ==
    /\ mode = "open" /\ txn # NoTxn /\ txn # <<>>
    /\ table' = PlayAll(txn, table) /\ txn' = NoTxn
    /\ file' \in Cuts(Written \o Delimited(txn), Len(file))
                 \ {Written \o Delimited(txn)}
    /\ buf' = <<>>
    /\ UNCHANGED <<mode, must, synced, tmp, old>>

(* FlushLog().  A buffer that stdio writes out earlier, whole or in part,  *)
(* makes a difference only to what a crash leaves: see ProcessDies.        *)
FlushLog ==
    /\ mode = "open" /\ buf # <<>>
    /\ file' = Written /\ buf' = <<>>
    /\ UNCHANGED <<memory, synced, tmp, old>>

(* Slip: the log is flushed but not synced. *)
ForceLogFlushOnly ==
    /\ mode \in {"open", "forcing"} /\ Written # SubSeq(file, 1, synced)
    /\ mode' = "open"
    /\ file' = Written /\ buf' = <<>>
    /\ UNCHANGED <<must, table, txn, synced, tmp, old>>

(* ForceLog(), called by a client or as the end of a durable change. *)
ForceLog ==
    /\ mode \in {"open", "forcing"} /\ Written # SubSeq(file, 1, synced)
    /\ mode' = "open"
    /\ file' = Written /\ synced' = Len(Written) /\ buf' = <<>>
    /\ UNCHANGED <<must, table, txn, tmp, old>>

------------------------------------------------------------------------------
(* TruncLog().  It does not look at the active transaction.                *)

StartRotation ==
    /\ mode \in {"open", "cleaning"}
    /\ mode' = "logstate"
    /\ UNCHANGED <<must, table, txn, buf, disk>>

(* TruncLog() returns FALSE: an EXCEPT() if the log had to be cleaned. *)
GiveUpRotation ==
    /\ mode' = IF must THEN "down" ELSE "open"
    /\ table' = IF must THEN EmptyTable ELSE table
    /\ must' = FALSE

(* Slip: the log is used although it could not be cleaned. *)
RotationSkippedAnyway ==
    /\ mode = "cleaning"
    /\ mode' = "open" /\ must' = FALSE
    /\ UNCHANGED <<table, txn, buf, disk>>

(* The historical copy or the temporary file could not be made.  Outside   *)
(* the constructor that changes nothing.                                   *)
RotationSkipped ==
    /\ mode = "cleaning"
    /\ GiveUpRotation
    /\ UNCHANGED <<txn, buf, disk>>

(* LogState() has written and synced the new file; log_fp is closed. *)
StateLogged ==
    /\ mode = "logstate"
    /\ mode' = "closed"
    /\ tmp' \in Overlay(LogState(table), tmp)
    /\ file' = Written /\ buf' = <<>>
    /\ UNCHANGED <<must, table, txn, synced, old>>

(* rotate_file(). *)
Rename ==
    /\ mode = "closed"
    /\ mode' = "renamed"
    /\ file' = tmp /\ synced' = Len(tmp) /\ tmp' = <<>>
    /\ old' = [file |-> file, synced |-> synced]
    /\ UNCHANGED <<must, table, txn, buf>>

RenameFails ==
    /\ mode = "closed"
    /\ GiveUpRotation
    /\ tmp' = IF "stale_tmp" \in Faults THEN tmp ELSE <<>>
    /\ UNCHANGED <<txn, buf, file, synced, old>>

(* The parent directory is synced, and the log opened for appending. *)
SyncDirectory ==
    /\ mode = "renamed"
    /\ mode' = "open" /\ must' = FALSE /\ old' = NoFile
    /\ UNCHANGED <<table, txn, buf, file, synced, tmp>>

------------------------------------------------------------------------------
(* Crashes and the constructor                                             *)

Dead ==
    /\ mode' = "down" /\ must' = FALSE /\ table' = EmptyTable /\ txn' = NoTxn
    /\ buf' = <<>>
    /\ IF "stale_tmp" \notin Faults THEN tmp' = <<>>
       ELSE IF mode # "logstate" THEN tmp' = tmp
       ELSE \E n \in 0 .. Len(LogState(table)) :
               tmp' \in Overlay(SubSeq(LogState(table), 1, n), tmp)

ProcessDies ==
    /\ "process" \in Faults /\ Up
    /\ Dead
    /\ file' \in Cuts(Written, Len(file)) /\ UNCHANGED synced
    /\ old' = IF "lost_rename" \in Faults THEN old ELSE NoFile

MachineDies ==
    /\ "machine" \in Faults
    /\ Up \/ synced < Len(file) \/ old # NoFile
    /\ Dead
    /\ file' \in Cuts(Written, synced)
                 \cup (IF old = NoFile THEN {} ELSE Cuts(old.file, old.synced))
    /\ synced' = Len(file') /\ old' = NoFile

(* The constructor, up to its TruncLog().  A header written behind a       *)
(* broken first record is on the same line, and so still part of it.       *)
Recover ==
    /\ mode = "down"
    /\ IF Unrecoverable(file)
       THEN mode' = "stuck" /\ UNCHANGED <<must, table, buf>>
       ELSE /\ table' = Recovered(file)
            /\ buf' = IF file = <<>> THEN <<SequenceNumber>> ELSE <<>>
            /\ must' = RequiresCleaning(file)
            /\ mode' = IF must' \/ HasTransactions(file) THEN "cleaning" ELSE "open"
    /\ UNCHANGED <<txn, disk>>

Next ==
    \/ BeginTransaction \/ AppendToTransaction \/ AppendToLog \/ AbortTransaction
    \/ CommitTransaction \/ FlushLog \/ ForceLog
    \/ StartRotation \/ RotationSkipped \/ StateLogged \/ Rename \/ RenameFails
    \/ SyncDirectory \/ ProcessDies \/ MachineDies \/ Recover

Spec == Init /\ [][Next]_vars

(* The log on a disk that can fill up. *)
SpecDiskFull == Init /\ [][Next \/ CommitUnwritten]_vars

------------------------------------------------------------------------------
(* Properties                                                              *)

(* The tables that a crash can leave when at least n records of f survive. *)
Reachable(f, n) ==
    UNION {{h[i].table : i \in {j \in DOMAIN h : j > n \/ j = Len(h)}} : h \in {Replays(f)}}

Recoverable ==
    Reachable(Written, synced)
    \cup (IF old = NoFile THEN {} ELSE Reachable(old.file, old.synced))

DT == INSTANCE DurableTable
        WITH up <- Up, owes <- mode = "forcing",
             table <- IF Up THEN table ELSE Recovered(file), safe <- Recoverable

(* The log implements the durable table: whatever crashes, tears and       *)
(* rotations happen, replay gives the table of some commit at least as     *)
(* recent as the last durable one, never a part of a transaction, and a    *)
(* durable change returns only when no crash can undo it                   *)
(* (CommitTransaction, ForceLog, TruncLog, the constructor).               *)
ImplementsDurableTable == DT!DTSpec

(* No crash leaves a log that the constructor refuses: a broken record is  *)
(* never inside a closed transaction (InstantiateLogEntry).                *)
NeverUnrecoverable == mode # "stuck"

(* Nothing is appended behind a broken record or an unfinished transaction *)
(* ("we _must_ _not_ write anything more into this log"): a log that is    *)
(* open reads to its end, apart from what is still being written.          *)
AppendsToSoundLog ==
    mode \in {"open", "forcing"} =>
        ~RequiresCleaning(Written) /\ Recovered(Written) = table

(* Clients that look through the active transaction first, as              *)
(* classad_log.h asks, see the table its commit would give.                *)
LookupIsStrict ==
    txn # NoTxn => \A k \in Keys :
        LET after == PlayAll(txn, table)[k]
        IN  /\ AdExistsInTableOrTransaction(k, txn, table) <=> after # NoAd
            /\ LookupThrough(k, txn, table) = IF after = NoAd THEN "blank" ELSE after
==============================================================================
