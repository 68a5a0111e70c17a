------------------------------ MODULE LogRecords ------------------------------
(***************************************************************************)
(* The records of the ClassAd log (condor_utils/classad_log.cpp, log.cpp)  *)
(* and what they do to the table of ads.                                   *)
(*                                                                         *)
(* An ad is abstracted to one attribute: "blank" is an ad without it, and  *)
(* NoAd stands for a key that is not in the table.  The sequence number    *)
(* that heads a log file is a record without a number: nothing but the     *)
(* name of a historical copy depends on it.                                *)
(***************************************************************************)
EXTENDS Integers, Sequences, FiniteSetsExt, Functions

CONSTANTS Keys, Values, NoAd

Ad == Values \cup {"blank"}

ASSUME KeysAssumption == IsFiniteSet(Keys)
ASSUME NoAdAssumption == NoAd \notin Ad

Table == [Keys -> Ad \cup {NoAd}]

EmptyTable == [k \in Keys |-> NoAd]

NewClassAd(k)      == [op |-> "NewClassAd", key |-> k]
DestroyClassAd(k)  == [op |-> "DestroyClassAd", key |-> k]
SetAttribute(k, v) == [op |-> "SetAttribute", key |-> k, value |-> v]
DeleteAttribute(k) == [op |-> "DeleteAttribute", key |-> k]
BeginTransactionR  == [op |-> "BeginTransaction"]
EndTransactionR    == [op |-> "EndTransaction"]
SequenceNumber     == [op |-> "HistoricalSequenceNumber"]

(* The first bytes of a record whose rest was never written. *)
Junk == [op |-> "Junk"]

Operations ==
    {NewClassAd(k) : k \in Keys} \cup {DestroyClassAd(k) : k \in Keys}
    \cup {SetAttribute(k, v) : k \in Keys, v \in Values}
    \cup {DeleteAttribute(k) : k \in Keys}

Records ==
    Operations \cup {BeginTransactionR, EndTransactionR, SequenceNumber, Junk}

(* LogRecord::Play().  The delimiters leave the table alone, and so does   *)
(* an operation on an ad that does not exist.                              *)
Play(t, r) ==
    CASE r.op = "NewClassAd"     -> [t EXCEPT ![r.key] = "blank"]
      [] r.op = "DestroyClassAd" -> [t EXCEPT ![r.key] = NoAd]
      [] r.op = "SetAttribute"   -> [t EXCEPT ![r.key] = IF @ = NoAd THEN @ ELSE r.value]
      [] r.op = "DeleteAttribute"-> [t EXCEPT ![r.key] = IF @ = NoAd THEN @ ELSE "blank"]
      [] OTHER                   -> t

(* op applied to base and the elements of s, from left to right, each      *)
(* intermediate value computed once.                                       *)
Fold(op(_, _), base, s) ==
    LET f[i \in 0 .. Len(s)] ==
            IF i = 0 THEN base
            ELSE CHOOSE y \in {op(x, s[i]) : x \in {f[i - 1]}} : TRUE
    IN  f[Len(s)]

(* Transaction::Commit(), as far as the table is concerned. *)
PlayAll(recs, t) == Fold(Play, t, recs)

(* Slip: the attributes of an ad are not written. *)
AdRecordsNoAttributes(k, ad) == IF ad = NoAd THEN <<>> ELSE <<NewClassAd(k)>>

(* LogState(): a table as records, ad by ad. *)
AdRecords(k, ad) ==
    CASE ad = NoAd    -> <<>>
      [] ad = "blank" -> <<NewClassAd(k)>>
      [] OTHER        -> <<NewClassAd(k), SetAttribute(k, ad)>>

(* The hash table is walked in some order. *)
KeyOrder == CHOOSE s \in Bijection(1 .. Cardinality(Keys), Keys) : TRUE

LogState(t) ==
    Fold(LAMBDA s, k : s \o AdRecords(k, t[k]), <<SequenceNumber>>, KeyOrder)

------------------------------------------------------------------------------
(* What the constructor makes of a log file.                               *)

(* ReadLogEntry(), InstantiateLogEntry(): reading stops at the first       *)
(* record that is broken.                                                  *)
FirstBroken(file) ==
    LET broken == {i \in DOMAIN file : file[i] = Junk}
    IN  IF broken = {} THEN 0 ELSE Min(broken)

Readable(file) ==
    IF FirstBroken(file) = 0 THEN file ELSE SubSeq(file, 1, FirstBroken(file) - 1)

(* A broken record inside a closed transaction is an EXCEPT(). *)
Unrecoverable(file) ==
    /\ FirstBroken(file) # 0
    /\ \E i \in FirstBroken(file) + 1 .. Len(file) : file[i].op = "EndTransaction"

(* One turn of the constructor's loop: s.txn is active_transaction.  A     *)
(* nested begin and an unmatched end are only warned about.                *)
ReplayRecord(s, r) ==
    CASE r.op = "BeginTransaction" ->
           [s EXCEPT !.open = TRUE]
      [] r.op = "EndTransaction" ->
           [table |-> PlayAll(s.txn, s.table), open |-> FALSE, txn |-> <<>>]
      [] r.op = "HistoricalSequenceNumber" -> s
      [] OTHER ->
           IF s.open THEN [s EXCEPT !.txn = Append(@, r)]
                     ELSE [s EXCEPT !.table = Play(@, r)]

(* The constructor's state before the first and after each record. *)
ReplayEach(recs) ==
    Fold(LAMBDA h, r : Append(h, ReplayRecord(h[Len(h)], r)),
         <<[table |-> EmptyTable, open |-> FALSE, txn |-> <<>>]>>, recs)

Replays(file) == ReplayEach(Readable(file))

Replay(file) == LET h == Replays(file) IN h[Len(h)]

Recovered(file) == Replay(file).table

(* The log must be rotated before anything may be appended to it. *)
RequiresCleaning(file) == FirstBroken(file) # 0 \/ Replay(file).open

(* It was not shut down cleanly: a rotation is wanted. *)
HasTransactions(file) ==
    \E i \in DOMAIN Readable(file) : file[i].op = "BeginTransaction"

------------------------------------------------------------------------------
(* Looking through the active transaction.                                 *)

AdExistsInTableOrTransaction(k, txn, t) ==
    Fold(LAMBDA e, r : CASE r.op = "NewClassAd"     -> e \/ r.key = k
                         [] r.op = "DestroyClassAd" -> e /\ r.key # k
                         [] OTHER                   -> e,
         t[k] # NoAd, txn)

(* Slip: an attribute set after it was deleted still reads as deleted. *)
ExamineRecordStaysDeleted(s, r) ==
    CASE r.op = "NewClassAd"      -> [s EXCEPT !.adDeleted = FALSE]
      [] r.op = "DestroyClassAd"  -> [s EXCEPT !.adDeleted = TRUE]
      [] r.op = "SetAttribute"    -> [s EXCEPT !.found = TRUE, !.val = r.value]
      [] r.op = "DeleteAttribute" -> [s EXCEPT !.found = FALSE, !.valDeleted = TRUE]
      [] OTHER                    -> s

(* ExamineTransaction() for one attribute: the flags it keeps and the      *)
(* value it found.                                                         *)
ExamineRecord(s, r) ==
    CASE r.op = "NewClassAd"      -> [s EXCEPT !.adDeleted = FALSE]
      [] r.op = "DestroyClassAd"  -> [s EXCEPT !.adDeleted = TRUE]
      [] r.op = "SetAttribute"    ->
           [s EXCEPT !.found = TRUE, !.valDeleted = FALSE, !.val = r.value]
      [] r.op = "DeleteAttribute" ->
           [s EXCEPT !.found = FALSE, !.valDeleted = TRUE]
      [] OTHER                    -> s

ExamineTransaction(k, txn) ==
    Fold(LAMBDA s, r : IF r.key = k THEN ExamineRecord(s, r) ELSE s,
         [adDeleted |-> FALSE, valDeleted |-> FALSE, found |-> FALSE, val |-> "blank"], txn)

(* What a client sees that calls LookupInTransaction() before it looks in  *)
(* the table, as the class's comment asks: "blank" when there is no value. *)
LookupThrough(k, txn, t) ==
    LET e == ExamineTransaction(k, txn)
    IN  IF e.adDeleted \/ e.valDeleted THEN "blank"
        ELSE IF e.found THEN e.val
        ELSE IF t[k] = NoAd THEN "blank" ELSE t[k]
==============================================================================
