----------------------------- MODULE DurableTable -----------------------------
(***************************************************************************)
(* What the ClassAd log promises its users: a table of ads changed by      *)
(* single operations and by transactions, one at a time, that survives     *)
(* crashes.  safe is the set of tables a crash may leave: it grows by the  *)
(* new table when a change is logged, shrinks to the current table when    *)
(* the log is forced to disk, and no crash ever leaves anything else; in   *)
(* particular not a part of a transaction.  A durable change is forced     *)
(* before its caller gets control back.                                    *)
(***************************************************************************)
EXTENDS Sequences

CONSTANTS
    EmptyTable, Operations,
    Play(_, _),     \* the table that an operation makes of a table
    PlayAll(_, _),  \* what a sequence of them does, one after the other
    NoTxn           \* there is no active transaction

VARIABLES
    up,        \* the daemon is running
    owes,      \* a durable change has not returned yet
    table, txn, safe

dtVars == <<up, owes, table, txn, safe>>

DTInit ==
    /\ ~up /\ ~owes /\ table = EmptyTable /\ txn = NoTxn /\ safe = {EmptyTable}

(* The transaction under construction is private. *)
DTPrepare ==
    /\ up /\ up' /\ ~owes /\ ~owes'
    /\ \/ txn = NoTxn /\ txn' = <<>>
       \/ txn # NoTxn /\ \E r \in Operations : txn' = Append(txn, r)
       \/ txn # NoTxn /\ txn' = NoTxn
    /\ UNCHANGED <<table, safe>>

(* A change, durable if owes'. *)
DTCommit ==
    /\ up /\ up' /\ ~owes /\ owes' \in BOOLEAN
    /\ \/ txn # NoTxn /\ table' = PlayAll(txn, table)
       \/ txn = NoTxn /\ \E r \in Operations : table' = Play(table, r)
    /\ txn' = NoTxn
    /\ safe' = safe \cup {table'}

DTForce ==
    /\ up /\ ~owes' /\ UNCHANGED <<up, table, txn>>
    /\ safe' = {table}

DTCrash ==
    /\ ~up' /\ ~owes' /\ txn' = NoTxn
    /\ table' \in safe' /\ safe' \subseteq safe

DTRecover ==
    /\ ~up /\ up' /\ UNCHANGED <<owes, table, txn, safe>>

DTNext == DTPrepare \/ DTCommit \/ DTForce \/ DTCrash \/ DTRecover

DTSpec == DTInit /\ [][DTNext]_dtVars
==============================================================================
