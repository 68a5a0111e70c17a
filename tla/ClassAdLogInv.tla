---------------------------- MODULE ClassAdLogInv ----------------------------
(***************************************************************************)
(* The inductive invariants of ClassAdLog, for logs whose <log>.tmp is     *)
(* gone before the next rotation.  ClassAdLog_proofs proves them.          *)
(***************************************************************************)
EXTENDS ClassAdLog

(* A crash tears the last record at most. *)
OnlyLastTorn(f) == \A i \in 1 .. Len(f) - 1 : f[i] # Junk

(* What the daemon still has to do or to write when it is in a given mode. *)
ModeInv ==
    /\ mode # "stuck"
    /\ ~Up \/ must => buf = <<>> /\ txn = NoTxn
    /\ must => mode \in {"cleaning", "logstate", "closed", "renamed"}
    /\ mode \in {"closed", "renamed"} => buf = <<>>
    /\ tmp = IF mode = "closed" THEN LogState(table) ELSE <<>>

(* What is on its way to the disk replays to the table in memory, and only *)
(* a log that must be cleaned has an end that cannot be appended to.       *)
FileInv ==
    /\ OnlyLastTorn(Written)
    /\ Up => Recovered(Written) = table
    /\ Up /\ RequiresCleaning(Written) => must /\ mode # "renamed"

(* The file that a rename replaced. *)
OldInv ==
    /\ old # NoFile => OnlyLastTorn(old.file)
    /\ old # NoFile /\ "lost_rename" \notin Faults => mode = "renamed"
    /\ mode = "renamed" => synced = Len(file)

LogInv == TypeOK /\ ModeInv /\ FileInv /\ OldInv

(* What the active transaction says of an ad, as ExamineTransaction() and  *)
(* AdExistsInTableOrTransaction() read it, against the ad its commit would *)
(* leave.                                                                  *)
LookupInv ==
    txn # NoTxn => \A k \in Keys :
        LET after == PlayAll(txn, table)[k]
            e == ExamineTransaction(k, txn)
        IN  /\ AdExistsInTableOrTransaction(k, txn, table) <=> after # NoAd
            /\ DestroyClassAd(k) \in Range(txn) => after = NoAd
            /\ after = NoAd =>
                  IF DestroyClassAd(k) \in Range(txn) THEN e.adDeleted
                  ELSE table[k] = NoAd /\ ~e.adDeleted /\ ~e.found /\ ~e.valDeleted
            /\ after # NoAd =>
                  /\ ~e.adDeleted
                  /\ e.valDeleted => ~e.found /\ after = "blank"
                  /\ e.found => after = e.val
                  /\ ~e.found /\ ~e.valDeleted =>
                        after = IF table[k] = NoAd THEN "blank" ELSE table[k]
==============================================================================
