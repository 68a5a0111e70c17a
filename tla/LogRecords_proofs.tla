-------------------------- MODULE LogRecords_proofs --------------------------
(***************************************************************************)
(* What the recursive operators of LogRecords compute, for every sequence  *)
(* of records: transactions are played one record after the other, the     *)
(* constructor reads a file up to the first broken record and replays what *)
(* it reads, LogState() writes a file that replays to the table it was     *)
(* made from, and a lookup goes through a transaction from the first       *)
(* record to the last. The induction that this takes comes first.          *)
(***************************************************************************)
EXTENDS ClassAdLogInv, FiniteSetTheorems, TLAPS

------------------------------------------------------------------------------
(* Induction                                                               *)

(* Every nonempty set of natural numbers has a least element. *)
LEMMA LeastNat ==
  ASSUME NEW S \in SUBSET Nat, S # {}
  PROVE  \E x \in S : \A y \in S : x <= y
<1> DEFINE R == {p \in Nat \X Nat : p[1] < p[2]}
<1>1. IsWellFoundedOn(R, Nat)
  BY NatLessThanWellFounded, Zenon DEF OpToRel
<1>2. PICK x \in S : \A y \in S : ~ (<<y, x>> \in R)
  BY <1>1, WFMin, Zenon
<1>3. \A y \in S : ~(y < x)
  BY <1>2, Zenon
<1> QED BY <1>2, <1>3

(* Induction over the natural numbers, with a set as the predicate. *)
LEMMA Induction ==
  ASSUME NEW P, 0 \in P, \A n \in Nat : n \in P => n + 1 \in P
  PROVE  \A n \in Nat : n \in P
<1> SUFFICES ASSUME NEW m \in Nat, m \notin P PROVE FALSE
  BY Zenon
<1> DEFINE bad == {n \in Nat : n \notin P}
<1>1. PICK n \in bad : \A y \in bad : n <= y
  <2>1. bad \in SUBSET Nat /\ m \in bad
    BY Zenon
  <2> HIDE DEF bad
  <2> QED BY <2>1, LeastNat, Zenon
<1>2. n \in Nat /\ n # 0 /\ n - 1 \in Nat /\ (n - 1) + 1 = n /\ ~(n <= n - 1)
  BY <1>1
<1>3. n - 1 \in P
  BY <1>1, <1>2, Zenon
<1> QED BY <1>1, <1>2, <1>3, Zenon

(* A step function on S, iterated n times from b. *)
Iterated(g, S, n, b, F) ==
    /\ g \in [0 .. n -> S] /\ g[0] = b
    /\ \A i \in 1 .. n : g[i] = F[<<g[i - 1], i>>]

(* There is such an iteration. *)
LEMMA Iterates ==
  ASSUME NEW S, NEW n \in Nat, NEW b \in S, NEW F \in [S \X (1 .. n) -> S]
  PROVE  \E g : Iterated(g, S, n, b, F)
<1> DEFINE P == {m \in Nat : m <= n => \E g : Iterated(g, S, m, b, F)}
<1>1. 0 \in P
  <2> DEFINE g == [i \in 0 .. 0 |-> b]
  <2>1. Iterated(g, S, 0, b, F)
    BY DEF Iterated
  <2> QED BY <2>1, Zenon
<1>2. ASSUME NEW m \in Nat, m \in P PROVE m + 1 \in P
  <2> SUFFICES ASSUME m + 1 <= n PROVE \E g : Iterated(g, S, m + 1, b, F)
    OBVIOUS
  <2>1. PICK g : Iterated(g, S, m, b, F)
    BY <1>2
  <2> DEFINE y == F[<<g[m], m + 1>>]
             h == [i \in 0 .. m + 1 |-> IF i = m + 1 THEN y ELSE g[i]]
  <2>2. g[m] \in S /\ m + 1 \in 1 .. n
    BY <2>1 DEF Iterated
  <2>3. y \in S
    BY <2>2, Zenon
  <2>4. h \in [0 .. m + 1 -> S] /\ h[0] = b
    BY <2>1, <2>3 DEF Iterated
  <2>5. ASSUME NEW i \in 1 .. m + 1 PROVE h[i] = F[<<h[i - 1], i>>]
    <3>1. CASE i = m + 1
      <4>1. h[i] = y /\ h[i - 1] = g[m]
        BY <3>1
      <4> QED BY <3>1, <4>1, Zenon
    <3>2. CASE i # m + 1
      <4>1. i \in 1 .. m /\ h[i] = g[i] /\ h[i - 1] = g[i - 1]
        BY <3>2
      <4> QED BY <2>1, <4>1, Zenon DEF Iterated
    <3> QED BY <3>1, <3>2, Zenon
  <2> HIDE DEF h
  <2>6. Iterated(h, S, m + 1, b, F)
    BY <2>4, <2>5, Zenon DEF Iterated
  <2> QED BY <2>6, Zenon
<1>3. n \in P
  <2> HIDE DEF P
  <2> QED BY <1>1, <1>2, Induction, Zenon
<1> QED BY <1>3

(* Two functions start alike and take the same steps. *)
InStep(f, g, n) ==
    f[0] = g[0] /\ \A i \in 1 .. n : f[i - 1] = g[i - 1] => f[i] = g[i]

(* Such functions are alike. *)
LEMMA Agree ==
  ASSUME NEW n \in Nat, NEW f, NEW g, InStep(f, g, n)
  PROVE  \A i \in 0 .. n : f[i] = g[i]
<1> USE DEF InStep
<1> DEFINE P == {i \in Nat : i <= n => f[i] = g[i]}
<1>1. 0 \in P
  BY Zenon
<1>2. ASSUME NEW i \in Nat, i \in P PROVE i + 1 \in P
  <2> SUFFICES ASSUME i + 1 <= n PROVE f[i + 1] = g[i + 1]
    OBVIOUS
  <2>1. f[i] = g[i] /\ i + 1 \in 1 .. n /\ (i + 1) - 1 = i
    BY <1>2
  <2> QED BY <2>1, Zenon
<1> HIDE DEF P
<1>3. \A i \in Nat : i \in P
  BY <1>1, <1>2, Induction, Zenon
<1> QED BY <1>3 DEF P

------------------------------------------------------------------------------
(* What the recursive operators compute                                    *)

(* The value that Fold takes from a set of one. *)
LEMMA TheOne == ASSUME NEW a PROVE (CHOOSE y \in {a} : TRUE) = a
  BY Zenon

(* An operation, or any other record, makes a table of a table. *)
LEMMA PlayType == ASSUME NEW t \in Table, NEW r \in Records PROVE Play(t, r) \in Table
<1>1. CASE r \in Operations
  BY <1>1 DEF Play, Table, Ad, Operations, NewClassAd, DestroyClassAd, SetAttribute,
              DeleteAttribute
<1>2. CASE r \notin Operations
  BY <1>2 DEF Play, Records, BeginTransactionR, EndTransactionR, SequenceNumber, Junk
<1> QED BY <1>1, <1>2, Zenon

(* The tables that the records of a transaction make, one by one. *)
Plays(g, s, t) ==
    /\ g \in [0 .. Len(s) -> Table] /\ g[0] = t
    /\ \A i \in 1 .. Len(s) : g[i] = Play(g[i - 1], s[i])

(* Transaction::Commit() plays the records of a transaction one by one. *)
LEMMA PlayAllSteps ==
  ASSUME NEW s \in Seq(Operations), NEW t \in Table
  PROVE  /\ \E g : Plays(g, s, t)
         /\ \A g : Plays(g, s, t) => PlayAll(s, t) = g[Len(s)]
<1> DEFINE F == [p \in Table \X (1 .. Len(s)) |-> Play(p[1], s[p[2]])]
           Body(f) == [i \in 0 .. Len(s) |->
                          IF i = 0 THEN t
                          ELSE CHOOSE y \in {Play(x, s[i]) : x \in {f[i - 1]}} : TRUE]
<1>0. Len(s) \in Nat
  OBVIOUS
<1>1. F \in [Table \X (1 .. Len(s)) -> Table]
  BY PlayType DEF Records
<1>2. \A x \in Table, i \in 1 .. Len(s) : F[<<x, i>>] = Play(x, s[i])
  BY Zenon
<1> HIDE DEF F
<1>3. PICK g : Plays(g, s, t)
  <2>1. PICK g : Iterated(g, Table, Len(s), t, F)
    BY <1>0, <1>1, Iterates, Zenon
  <2>2. \A i \in 1 .. Len(s) : g[i - 1] \in Table
    BY <2>1 DEF Iterated
  <2>3. Plays(g, s, t)
    BY <1>2, <2>1, <2>2, Zenon DEF Iterated, Plays
  <2> QED BY <2>3, Zenon
<1>4. g = Body(g)
  <2>1. \A i \in 1 .. Len(s) : {Play(x, s[i]) : x \in {g[i - 1]}} = {g[i]}
    BY <1>3, Zenon DEF Plays
  <2> QED BY <1>3, <2>1, TheOne DEF Plays
<1>5. PICK f : f = Body(f) /\ PlayAll(s, t) = f[Len(s)]
  BY <1>4, Zenon DEF PlayAll, Fold
<1>6. f[0] = t /\ \A i \in 1 .. Len(s) : f[i] = Play(f[i - 1], s[i])
  <2>1. f[0] = t
    BY <1>5
  <2>2. \A i \in 1 .. Len(s) : {Play(x, s[i]) : x \in {f[i - 1]}} = {Play(f[i - 1], s[i])}
    BY Zenon
  <2>3. \A i \in 1 .. Len(s) : f[i] = CHOOSE y \in {Play(x, s[i]) : x \in {f[i - 1]}} : TRUE
    BY <1>5
  <2> QED BY <2>1, <2>2, <2>3, TheOne, Zenon
<1> HIDE DEF Body
<1>7. ASSUME NEW h, Plays(h, s, t) PROVE PlayAll(s, t) = h[Len(s)]
  <2>1. InStep(f, h, Len(s))
    BY <1>6, <1>7, Zenon DEF Plays, InStep
  <2>2. \A i \in 0 .. Len(s) : f[i] = h[i]
    BY <1>0, <2>1, Agree
  <2> QED BY <1>0, <1>5, <2>2
<1> QED BY <1>3, <1>7, Zenon

(* Transaction::Commit() makes a table of a table. *)
LEMMA PlayAllType ==
  ASSUME NEW s \in Seq(Operations), NEW t \in Table
  PROVE  PlayAll(s, t) \in Table
BY PlayAllSteps DEF Plays

(* An empty transaction changes nothing, ... *)
LEMMA PlayAllEmpty == ASSUME NEW t \in Table PROVE PlayAll(<<>>, t) = t
<1>1. <<>> \in Seq(Operations) /\ Len(<<>>) = 0
  OBVIOUS
<1>2. PICK g : Plays(g, <<>>, t)
  BY <1>1, PlayAllSteps, Zenon
<1>3. PlayAll(<<>>, t) = g[Len(<<>>)]
  BY <1>1, <1>2, PlayAllSteps, Zenon
<1> QED BY <1>1, <1>2, <1>3, Zenon DEF Plays

(* ... and a record at the end of a transaction is played last. *)
LEMMA PlayAllAppend ==
  ASSUME NEW s \in Seq(Operations), NEW r \in Operations, NEW t \in Table
  PROVE  PlayAll(Append(s, r), t) = Play(PlayAll(s, t), r)
<1>1. PICK g : Plays(g, s, t)
  BY PlayAllSteps, Zenon
<1> DEFINE n == Len(s)
           a == Append(s, r)
           h == [i \in 0 .. n + 1 |-> IF i = n + 1 THEN Play(g[n], r) ELSE g[i]]
<1>2. n \in Nat /\ a \in Seq(Operations) /\ Len(a) = n + 1 /\ a[n + 1] = r
      /\ \A i \in 1 .. n : a[i] = s[i]
  OBVIOUS
<1>3. g[n] \in Table /\ Play(g[n], r) \in Table
  BY <1>1, <1>2, PlayType DEF Plays, Records
<1>4. h \in [0 .. n + 1 -> Table] /\ h[0] = t /\ h[n + 1] = Play(g[n], r)
  BY <1>1, <1>2, <1>3 DEF Plays
<1>5. ASSUME NEW i \in 1 .. n + 1 PROVE h[i] = Play(h[i - 1], a[i])
  <2>1. CASE i = n + 1
    BY <1>2, <2>1
  <2>2. CASE i # n + 1
    <3>1. i \in 1 .. n /\ h[i] = g[i] /\ h[i - 1] = g[i - 1]
      BY <1>2, <2>2
    <3> QED BY <1>1, <1>2, <3>1, Zenon DEF Plays
  <2> QED BY <2>1, <2>2, Zenon
<1> HIDE DEF h, a
<1>6. Plays(h, a, t)
  BY <1>2, <1>4, <1>5, Zenon DEF Plays
<1>7. PlayAll(a, t) = h[n + 1] /\ PlayAll(s, t) = g[n]
  BY <1>1, <1>2, <1>6, PlayAllSteps, Zenon
<1> QED BY <1>4, <1>7, Zenon DEF a

------------------------------------------------------------------------------
(* Reading a log file                                                      *)

(* The records of a file without broken ones. *)
Sound == Records \ {Junk}

(* The constructor reads what is before the first broken record. *)
LEMMA ReadableIs ==
  ASSUME NEW f \in Seq(Records)
  PROVE  /\ Readable(f) \in Seq(Sound) /\ FirstBroken(f) \in 0 .. Len(f)
         /\ FirstBroken(f) = 0 => Readable(f) = f
         /\ FirstBroken(f) # 0 =>
               /\ f[FirstBroken(f)] = Junk
               /\ Readable(f) = SubSeq(f, 1, FirstBroken(f) - 1)
<1> DEFINE broken == {i \in DOMAIN f : f[i] = Junk}
<1>1. broken \in SUBSET Nat
  OBVIOUS
<1>2. CASE broken = {}
  <2>1. FirstBroken(f) = 0 /\ Readable(f) = f
    BY <1>2, Zenon DEF FirstBroken, Readable
  <2>2. f \in Seq(Sound)
    BY <1>2 DEF Sound
  <2> QED BY <2>1, <2>2
<1>3. CASE broken # {}
  <2>1. FirstBroken(f) = Min(broken)
    BY <1>3, Zenon DEF FirstBroken
  <2> HIDE DEF broken
  <2>2. FirstBroken(f) \in broken /\ \A y \in broken : FirstBroken(f) <= y
    BY <1>1, <1>3, <2>1, LeastNat, Zenon DEF Min
  <2> USE DEF broken
  <2>3. FirstBroken(f) \in 1 .. Len(f) /\ f[FirstBroken(f)] = Junk
    BY <2>2
  <2>4. Readable(f) = SubSeq(f, 1, FirstBroken(f) - 1)
    BY <2>3 DEF Readable
  <2>5. \A i \in 1 .. FirstBroken(f) - 1 : f[i] \in Sound
    BY <2>2, <2>3 DEF Sound
  <2>6. SubSeq(f, 1, FirstBroken(f) - 1) \in Seq(Sound)
    BY <2>3, <2>5
  <2> QED BY <2>3, <2>4, <2>6
<1> QED BY <1>2, <1>3, Zenon

(* A file without broken records is read to its end. *)
LEMMA ReadableSound ==
  ASSUME NEW f \in Seq(Sound)
  PROVE  f \in Seq(Records) /\ FirstBroken(f) = 0 /\ Readable(f) = f
<1>1. f \in Seq(Records) /\ \A i \in 1 .. Len(f) : f[i] # Junk
  BY DEF Sound
<1> QED BY <1>1, ReadableIs

(* A file torn at its end is read but for the last record, and there is    *)
(* nothing behind that the constructor would refuse.                       *)
LEMMA ReadableTorn ==
  ASSUME NEW f \in Seq(Records), OnlyLastTorn(f)
  PROVE  /\ ~Unrecoverable(f)
         /\ FirstBroken(f) # 0 => /\ FirstBroken(f) = Len(f) /\ f[Len(f)] = Junk
                                  /\ Readable(f) = SubSeq(f, 1, Len(f) - 1)
<1>1. FirstBroken(f) # 0 => FirstBroken(f) = Len(f)
  BY ReadableIs DEF OnlyLastTorn
<1>2. ~Unrecoverable(f)
  BY <1>1 DEF Unrecoverable
<1> QED BY <1>1, <1>2, ReadableIs, Zenon

------------------------------------------------------------------------------
(* Replaying it                                                            *)

(* The states of the constructor. *)
RState ==
    {s \in [table : Table, open : BOOLEAN, txn : Seq(Operations)] : ~s.open => s.txn = <<>>}

Start == [table |-> EmptyTable, open |-> FALSE, txn |-> <<>>]

(* The constructor starts outside a transaction. *)
LEMMA StartType == Start \in RState
BY DEF Start, RState, EmptyTable, Table

(* One turn of the constructor's loop keeps the type of its state. *)
LEMMA ReplayRecordType ==
  ASSUME NEW s \in RState, NEW r \in Sound
  PROVE  ReplayRecord(s, r) \in RState
<1>1. CASE r \in Operations
  <2>1. r.op \in {"NewClassAd", "DestroyClassAd", "SetAttribute", "DeleteAttribute"}
    BY <1>1 DEF Operations, NewClassAd, DestroyClassAd, SetAttribute, DeleteAttribute
  <2>2. ReplayRecord(s, r) = IF s.open THEN [s EXCEPT !.txn = Append(@, r)]
                                       ELSE [s EXCEPT !.table = Play(@, r)]
    BY <2>1, Zenon DEF ReplayRecord
  <2>3. Play(s.table, r) \in Table /\ Append(s.txn, r) \in Seq(Operations)
    BY <1>1, PlayType DEF RState, Records
  <2> QED BY <2>2, <2>3, Zenon DEF RState
<1>2. CASE r = BeginTransactionR
  BY <1>2, Zenon DEF ReplayRecord, BeginTransactionR, RState
<1>3. CASE r = EndTransactionR
  <2>1. PlayAll(s.txn, s.table) \in Table
    BY PlayAllType, Zenon DEF RState
  <2> QED BY <1>3, <2>1 DEF ReplayRecord, EndTransactionR, RState
<1>4. CASE r = SequenceNumber
  BY <1>4, Zenon DEF ReplayRecord, SequenceNumber, RState
<1> QED BY <1>1, <1>2, <1>3, <1>4, Zenon DEF Sound, Records

(* The states of the constructor before the first and after each record. *)
Runs(h, f) ==
    /\ h \in Seq(RState) /\ Len(h) = Len(f) + 1 /\ h[1] = Start
    /\ \A i \in 1 .. Len(f) : h[i + 1] = ReplayRecord(h[i], f[i])

(* There are such states, ... *)
LEMMA RunsExist == ASSUME NEW f \in Seq(Sound) PROVE \E h : Runs(h, f)
<1> DEFINE F == [p \in RState \X (1 .. Len(f)) |-> ReplayRecord(p[1], f[p[2]])]
<1>0. Len(f) \in Nat
  OBVIOUS
<1>1. F \in [RState \X (1 .. Len(f)) -> RState]
  BY ReplayRecordType
<1>2. \A x \in RState, i \in 1 .. Len(f) : F[<<x, i>>] = ReplayRecord(x, f[i])
  BY Zenon
<1> HIDE DEF F
<1>3. PICK g : Iterated(g, RState, Len(f), Start, F)
  BY <1>0, <1>1, StartType, Iterates, Zenon
<1>g. /\ g \in [0 .. Len(f) -> RState] /\ g[0] = Start
      /\ \A i \in 1 .. Len(f) : g[i] = F[<<g[i - 1], i>>]
  BY <1>3, Zenon DEF Iterated
<1> DEFINE h == [j \in 1 .. Len(f) + 1 |-> g[j - 1]]
<1>4. h \in Seq(RState) /\ Len(h) = Len(f) + 1 /\ h[1] = Start
  <2>1. h \in [1 .. Len(f) + 1 -> RState] /\ h[1] = Start
    BY <1>0, <1>g
  <2> HIDE DEF h
  <2> QED BY <1>0, <2>1
<1>5. ASSUME NEW i \in 1 .. Len(f) PROVE h[i + 1] = ReplayRecord(h[i], f[i])
  <2>0. /\ i + 1 \in 1 .. Len(f) + 1 /\ (i + 1) - 1 = i
        /\ i \in 1 .. Len(f) + 1 /\ i - 1 \in 0 .. Len(f)
    BY <1>0
  <2>1. h[i + 1] = g[i] /\ h[i] = g[i - 1] /\ g[i - 1] \in RState
    BY <1>g, <2>0, Zenon
  <2>2. g[i] = F[<<g[i - 1], i>>]
    BY <1>g, Zenon
  <2> QED BY <1>2, <2>1, <2>2, Zenon
<1> HIDE DEF h
<1>6. Runs(h, f)
  BY <1>4, <1>5, Zenon DEF Runs
<1> QED BY <1>6, Zenon

(* ... and as long as two files have the same records, the same states. *)
LEMMA RunsAgree ==
  ASSUME NEW f \in Seq(Sound), NEW g \in Seq(Sound), NEW h, Runs(h, f), NEW q, Runs(q, g),
         NEW n \in Nat, n <= Len(f), n <= Len(g), \A i \in 1 .. n : f[i] = g[i]
  PROVE  \A i \in 1 .. n + 1 : h[i] = q[i]
<1> DEFINE a == [i \in 0 .. n |-> h[i + 1]]
           b == [i \in 0 .. n |-> q[i + 1]]
<1>1. a[0] = b[0]
  BY DEF Runs
<1>2. ASSUME NEW i \in 1 .. n, a[i - 1] = b[i - 1] PROVE a[i] = b[i]
  <2>1. h[i] = q[i] /\ a[i] = h[i + 1] /\ b[i] = q[i + 1]
    BY <1>2
  <2>2. i \in 1 .. Len(f) /\ i \in 1 .. Len(g) /\ f[i] = g[i]
    OBVIOUS
  <2> QED BY <2>1, <2>2, Zenon DEF Runs
<1>3. \A i \in 0 .. n : a[i] = b[i]
  <2> HIDE DEF a, b
  <2>1. InStep(a, b, n)
    BY <1>1, <1>2, Zenon DEF InStep
  <2> QED BY <2>1, Agree
<1> QED
  <2> SUFFICES ASSUME NEW i \in 1 .. n + 1 PROVE h[i] = q[i]
    BY Zenon
  <2>1. i - 1 \in 0 .. n /\ a[i - 1] = h[i] /\ b[i - 1] = q[i]
    OBVIOUS
  <2> QED BY <1>3, <2>1, Zenon

(* ReplayEach gives them. *)
LEMMA ReplayEachSteps == ASSUME NEW f \in Seq(Sound) PROVE Runs(ReplayEach(f), f)
<1>1. PICK h : Runs(h, f)
  BY RunsExist, Zenon
<1> DEFINE Op(x, r) == Append(x, ReplayRecord(x[Len(x)], r))
           Body(q) == [i \in 0 .. Len(f) |->
                          IF i = 0 THEN <<Start>>
                          ELSE CHOOSE y \in {Op(x, f[i]) : x \in {q[i - 1]}} : TRUE]
           g == [i \in 0 .. Len(f) |-> SubSeq(h, 1, i + 1)]
<1>2. g[0] = <<Start>>
  BY <1>1, SMTT(30) DEF Runs
<1>3. ASSUME NEW i \in 1 .. Len(f) PROVE g[i] = Op(g[i - 1], f[i])
  <2>1. g[i] = SubSeq(h, 1, i + 1) /\ g[i - 1] = SubSeq(h, 1, i)
    OBVIOUS
  <2>2. Len(g[i - 1]) = i /\ g[i - 1][i] = h[i]
    BY <1>1, <2>1 DEF Runs
  <2>3. SubSeq(h, 1, i + 1) = Append(SubSeq(h, 1, i), h[i + 1])
    BY <1>1 DEF Runs
  <2>4. h[i + 1] = ReplayRecord(h[i], f[i])
    BY <1>1, Zenon DEF Runs
  <2> QED BY <2>1, <2>2, <2>3, <2>4, Zenon
<1>4. g = Body(g)
  <2>1. \A i \in 1 .. Len(f) : {Op(x, f[i]) : x \in {g[i - 1]}} = {g[i]}
    BY <1>3, Zenon
  <2>2. g = [i \in 0 .. Len(f) |-> g[i]]
    BY Zenon
  <2> HIDE DEF g, Op
  <2>3. \A i \in 1 .. Len(f) :
           g[i] = CHOOSE y \in {Op(x, f[i]) : x \in {g[i - 1]}} : TRUE
    BY <2>1, TheOne, Zenon
  <2>4. \A i \in 0 .. Len(f) : i = 0 \/ i \in 1 .. Len(f)
    OBVIOUS
  <2>5. \A i \in 0 .. Len(f) :
           g[i] = IF i = 0 THEN <<Start>>
                  ELSE CHOOSE y \in {Op(x, f[i]) : x \in {g[i - 1]}} : TRUE
    BY <1>2, <2>3, <2>4, Zenon
  <2> QED BY <2>2, <2>5, Zenon
<1>6. PICK q : q = Body(q) /\ ReplayEach(f) = q[Len(f)]
  <2> HIDE DEF g
  <2> QED BY <1>4, Zenon DEF ReplayEach, Fold, Start
<1>7. \A i \in 0 .. Len(f) : q[i] = g[i]
  <2> HIDE DEF g, Op
  <2>1. q[0] = <<Start>>
    BY <1>6
  <2>2. \A i \in 1 .. Len(f) : q[i] = CHOOSE y \in {Op(x, f[i]) : x \in {q[i - 1]}} : TRUE
    <3>1. \A i \in 1 .. Len(f) : i \in 0 .. Len(f) /\ i # 0
      OBVIOUS
    <3> QED BY <1>6, <3>1, Zenon
  <2> HIDE DEF Body
  <2>3. \A i \in 1 .. Len(f) : {Op(x, f[i]) : x \in {q[i - 1]}} = {Op(q[i - 1], f[i])}
    BY Zenon
  <2>4. \A i \in 1 .. Len(f) : q[i] = Op(q[i - 1], f[i])
    BY <2>2, <2>3, TheOne, Zenon
  <2>5. InStep(q, g, Len(f))
    BY <1>2, <1>3, <2>1, <2>4, Zenon DEF InStep
  <2>6. Len(f) \in Nat
    OBVIOUS
  <2> QED BY <2>5, <2>6, Agree
<1>8. ReplayEach(f) = SubSeq(h, 1, Len(h))
  <2>1. Len(f) \in 0 .. Len(f) /\ Len(h) = Len(f) + 1
    BY <1>1 DEF Runs
  <2>2. ReplayEach(f) = q[Len(f)]
    BY <1>6, Zenon
  <2>3. g[Len(f)] = SubSeq(h, 1, Len(f) + 1)
    BY <2>1, Zenon
  <2> QED BY <1>7, <2>1, <2>2, <2>3, Zenon
<1>9. SubSeq(h, 1, Len(h)) = h
  BY <1>1 DEF Runs
<1> QED BY <1>1, <1>8, <1>9, Zenon

(* What is read of a file without broken records. *)
LEMMA ReplaySound ==
  ASSUME NEW f \in Seq(Sound)
  PROVE  /\ Runs(Replays(f), f) /\ Replay(f) = Replays(f)[Len(f) + 1]
         /\ Replay(f) \in RState /\ RequiresCleaning(f) = Replay(f).open
         /\ Recovered(f) = Replay(f).table
<1>1. Runs(Replays(f), f)
  BY ReplayEachSteps, ReadableSound, Zenon DEF Replays
<1>2. Replay(f) = Replays(f)[Len(f) + 1]
  BY <1>1, Zenon DEF Replay, Runs
<1>3. Replay(f) \in RState
  BY <1>1, <1>2 DEF Runs
<1>4. FirstBroken(f) = 0
  BY ReadableSound, Zenon
<1>5. Replay(f).open \in BOOLEAN
  BY <1>3, Zenon DEF RState
<1> QED BY <1>1, <1>2, <1>3, <1>4, <1>5, Zenon DEF RequiresCleaning, Recovered

(* The records that two files have in common are replayed in the same way. *)
LEMMA ReplaysCommon ==
  ASSUME NEW f \in Seq(Sound), NEW n \in Nat, n <= Len(f), NEW g \in Seq(Sound), n <= Len(g),
         \A i \in 1 .. n : f[i] = g[i]
  PROVE  \A i \in 1 .. n + 1 : Replays(f)[i] = Replays(g)[i]
<1>1. Runs(Replays(f), f) /\ Runs(Replays(g), g)
  BY ReplaySound, Zenon
<1> QED BY <1>1, RunsAgree

(* A file and what is left of it. *)
LEMMA ReplaysPrefix ==
  ASSUME NEW f \in Seq(Sound), NEW n \in 0 .. Len(f)
  PROVE  /\ SubSeq(f, 1, n) \in Seq(Sound) /\ Len(SubSeq(f, 1, n)) = n
         /\ \A i \in 1 .. n + 1 : Replays(SubSeq(f, 1, n))[i] = Replays(f)[i]
         /\ Replay(SubSeq(f, 1, n)) = Replays(f)[n + 1]
<1> DEFINE g == SubSeq(f, 1, n)
<1>1. g \in Seq(Sound) /\ Len(g) = n /\ \A i \in 1 .. n : g[i] = f[i]
  OBVIOUS
<1> HIDE DEF g
<1>2. \A i \in 1 .. n + 1 : Replays(g)[i] = Replays(f)[i]
  BY <1>1, ReplaysCommon
<1>3. Replay(g) = Replays(f)[n + 1]
  BY <1>1, <1>2, ReplaySound
<1> QED BY <1>1, <1>2, <1>3, Zenon DEF g

(* One more record. *)
LEMMA ReplayAppend ==
  ASSUME NEW f \in Seq(Sound), NEW r \in Sound
  PROVE  /\ Append(f, r) \in Seq(Sound)
         /\ \A i \in 1 .. Len(f) + 1 : Replays(Append(f, r))[i] = Replays(f)[i]
         /\ Replay(Append(f, r)) = ReplayRecord(Replay(f), r)
<1> DEFINE g == Append(f, r)
           n == Len(f)
<1>1. /\ g \in Seq(Sound) /\ n \in Nat /\ Len(g) = n + 1 /\ g[n + 1] = r
      /\ \A i \in 1 .. n : g[i] = f[i]
  OBVIOUS
<1> HIDE DEF g
<1>2. \A i \in 1 .. n + 1 : Replays(g)[i] = Replays(f)[i]
  BY <1>1, ReplaysCommon
<1>3. Replays(g)[n + 2] = ReplayRecord(Replays(g)[n + 1], r)
  BY <1>1, ReplaySound DEF Runs
<1>4. Replay(g) = Replays(g)[n + 2] /\ Replay(f) = Replays(f)[n + 1]
  BY <1>1, ReplaySound
<1> QED BY <1>1, <1>2, <1>3, <1>4 DEF g

(* An operation: played at once, or kept for the end of a transaction. *)
LEMMA ReplayOperation ==
  ASSUME NEW s \in RState, NEW r \in Operations
  PROVE  /\ r \in Sound
         /\ s.open => ReplayRecord(s, r) = [table |-> s.table, open |-> TRUE, txn |-> Append(s.txn, r)]
         /\ ~s.open => ReplayRecord(s, r) = [table |-> Play(s.table, r), open |-> FALSE, txn |-> <<>>]
<1>1. r.op \in {"NewClassAd", "DestroyClassAd", "SetAttribute", "DeleteAttribute"}
  BY DEF Operations, NewClassAd, DestroyClassAd, SetAttribute, DeleteAttribute
<1>2. r \in Sound
  BY <1>1 DEF Sound, Records, Junk
<1>3. ReplayRecord(s, r) = IF s.open THEN [s EXCEPT !.txn = Append(@, r)]
                                     ELSE [s EXCEPT !.table = Play(@, r)]
  BY <1>1, Zenon DEF ReplayRecord
<1> QED BY <1>2, <1>3, Zenon DEF RState

(* The delimiters. *)
LEMMA ReplayDelimiters ==
  ASSUME NEW s \in RState
  PROVE  /\ BeginTransactionR \in Sound /\ EndTransactionR \in Sound /\ SequenceNumber \in Sound
         /\ ReplayRecord(s, BeginTransactionR) = [table |-> s.table, open |-> TRUE, txn |-> s.txn]
         /\ ReplayRecord(s, EndTransactionR) =
               [table |-> PlayAll(s.txn, s.table), open |-> FALSE, txn |-> <<>>]
         /\ ReplayRecord(s, SequenceNumber) = s
BY Zenon DEF Sound, Records, ReplayRecord, BeginTransactionR, EndTransactionR, SequenceNumber, Junk, RState

(* One sequence behind another. *)
LEMMA Concat ==
  ASSUME NEW S, NEW f \in Seq(S), NEW d \in Seq(S)
  PROVE  /\ f \o d \in Seq(S) /\ Len(f \o d) = Len(f) + Len(d)
         /\ \A i \in 1 .. Len(f) : (f \o d)[i] = f[i]
         /\ \A i \in 1 .. Len(d) : (f \o d)[Len(f) + i] = d[i]
OBVIOUS

(* Nothing of a transaction is played before its end is read, and then all *)
(* of it.                                                                  *)
LEMMA ReplayDelimited ==
  ASSUME NEW f \in Seq(Sound), ~Replay(f).open, NEW s \in Seq(Operations), s # <<>>
  PROVE  LET g == f \o Delimited(s)
         IN  /\ g \in Seq(Sound) /\ Len(g) = Len(f) + Len(s) + 2
             /\ \A i \in 1 .. Len(f) + 1 : Replays(g)[i] = Replays(f)[i]
             /\ \A i \in Len(f) + 1 .. Len(g) : Replays(g)[i].table = Replay(f).table
             /\ Replay(g) = [table |-> PlayAll(s, Replay(f).table), open |-> FALSE, txn |-> <<>>]
<1> DEFINE n == Len(f)
           m == Len(s)
           D == Delimited(s)
           g == f \o D
           T == Replay(f).table
           q == Replays(g)
           At(j) == [table |-> T, open |-> TRUE, txn |-> SubSeq(s, 1, j)]
           P == {j \in Nat : j <= m => q[n + 2 + j] = At(j)}
<1>0. Operations \subseteq Sound /\ {BeginTransactionR, EndTransactionR} \subseteq Sound
  BY StartType, ReplayOperation, ReplayDelimiters, Zenon
<1>1. /\ n \in Nat /\ m \in Nat /\ D \in Seq(Sound) /\ Len(D) = m + 2
      /\ D[1] = BeginTransactionR /\ D[m + 2] = EndTransactionR
      /\ \A i \in 1 .. m : D[i + 1] = s[i]
  BY <1>0 DEF Delimited
<1>2. /\ g \in Seq(Sound) /\ Len(g) = n + m + 2 /\ g[n + 1] = BeginTransactionR
      /\ g[n + m + 2] = EndTransactionR /\ \A i \in 1 .. n : g[i] = f[i]
      /\ \A i \in 1 .. m : g[n + 1 + i] = s[i]
  <2> HIDE DEF D
  <2>0. g \in Seq(Sound) /\ Len(g) = n + Len(D) /\ \A i \in 1 .. n : g[i] = f[i]
    BY <1>1, Concat, ZenonT(60)
  <2>1. Len(g) = n + m + 2
    BY <1>1, <2>0
  <2>2. \A i \in 1 .. m + 2 : g[n + i] = D[i]
    BY <1>1
  <2> HIDE DEF g, n, m
  <2>3. g[n + 1] = BeginTransactionR /\ g[n + (m + 2)] = EndTransactionR
    BY <1>1, <2>2
  <2>4. ASSUME NEW i \in 1 .. m PROVE g[n + 1 + i] = s[i]
    <3>1. i + 1 \in 1 .. m + 2 /\ n + (i + 1) = n + 1 + i
      BY <1>1
    <3> QED BY <1>1, <2>2, <3>1, Zenon
  <2>5. n + (m + 2) = n + m + 2
    BY <1>1
  <2> QED BY <2>0, <2>1, <2>3, <2>4, <2>5, Zenon
<1> HIDE DEF g
<1>4. \A i \in 1 .. n + 1 : q[i] = Replays(f)[i]
  <2>1. n <= Len(g) /\ n <= Len(f)
    BY <1>1, <1>2
  <2> QED BY <1>1, <1>2, <2>1, ReplaysCommon, ZenonT(60)
<1>5. Replay(f) \in RState /\ q[n + 1] = Replay(f)
  BY <1>1, <1>4, ReplaySound
<1>6. /\ q \in Seq(RState) /\ Len(q) = n + m + 3 /\ Replay(g) = q[n + m + 3]
      /\ \A i \in 1 .. n + m + 2 : q[i + 1] = ReplayRecord(q[i], g[i])
  <2>1. Runs(q, g) /\ Replay(g) = q[Len(g) + 1]
    BY <1>2, ReplaySound, Zenon
  <2> HIDE DEF q, n, m
  <2>2. Len(g) + 1 = n + m + 3
    BY <1>1, <1>2
  <2> QED BY <1>2, <2>1, <2>2, Zenon DEF Runs
<1> HIDE DEF n, m
<1> HIDE DEF q
<1>7. 0 \in P
  <2>1. q[n + 2] = ReplayRecord(Replay(f), BeginTransactionR)
    BY <1>1, <1>2, <1>5, <1>6, SMTT(30)
  <2>2. Replay(f).txn = <<>>
    BY <1>5, Zenon DEF RState
  <2>3. SubSeq(s, 1, 0) = <<>>
    OBVIOUS
  <2>4. q[n + 2] = At(0)
    BY <1>5, <2>1, <2>2, <2>3, ReplayDelimiters, Zenon
  <2> QED BY <1>1, <2>4
<1>8. ASSUME NEW j \in Nat, j \in P PROVE j + 1 \in P
  <2> SUFFICES ASSUME j + 1 <= m PROVE q[n + 2 + (j + 1)] = At(j + 1)
    OBVIOUS
  <2>1. q[n + 2 + j] = At(j)
    <3>1. j <= m
      BY <1>1
    <3> QED BY <1>8, <3>1, Zenon
  <2>2. j + 1 \in 1 .. m /\ n + 1 + (j + 1) = n + 2 + j
    BY <1>1
  <2>3. g[n + 2 + j] = s[j + 1] /\ s[j + 1] \in Operations
    BY <1>2, <2>2 DEF m
  <2>4. q[n + 2 + (j + 1)] = ReplayRecord(At(j), s[j + 1])
    BY <1>1, <1>6, <2>1, <2>2, <2>3
  <2>5. At(j) \in RState
    <3>1. SubSeq(s, 1, j) \in Seq(Operations)
      BY <2>2 DEF m
    <3> QED BY <1>5, <3>1, Zenon DEF RState
  <2>6. ReplayRecord(At(j), s[j + 1]) =
           [table |-> T, open |-> TRUE, txn |-> Append(SubSeq(s, 1, j), s[j + 1])]
    BY <2>3, <2>5, ReplayOperation, Zenon
  <2>7. Append(SubSeq(s, 1, j), s[j + 1]) = SubSeq(s, 1, j + 1)
    BY <2>2 DEF m
  <2> QED BY <2>4, <2>6, <2>7, Zenon
<1>9. \A j \in 0 .. m : q[n + 2 + j] = At(j)
  <2>1. \A j \in Nat : j \in P
    <3> HIDE DEF P
    <3> QED BY <1>7, <1>8, Induction, Zenon
  <2>2. \A j \in 0 .. m : j \in Nat /\ j <= m
    BY <1>1
  <2> QED BY <2>1, <2>2, Zenon
<1>10. q[n + m + 3] = [table |-> PlayAll(s, T), open |-> FALSE, txn |-> <<>>]
  <2>1. q[n + m + 2] = At(m)
    BY <1>1, <1>9
  <2>2. SubSeq(s, 1, m) = s
    BY DEF m
  <2>3. At(m) \in RState
    BY <1>5, <2>2, Zenon DEF RState
  <2>4. q[n + m + 3] = ReplayRecord(At(m), EndTransactionR)
    BY <1>1, <1>2, <1>6, <2>1
  <2> QED BY <2>2, <2>3, <2>4, ReplayDelimiters, Zenon
<1>11. \A i \in n + 1 .. Len(g) : q[i].table = T
  <2> SUFFICES ASSUME NEW i \in n + 1 .. Len(g) PROVE q[i].table = T
    BY Zenon
  <2>1. CASE i = n + 1
    BY <1>5, <2>1, Zenon
  <2>2. CASE i # n + 1
    <3>1. i - n - 2 \in 0 .. m /\ n + 2 + (i - n - 2) = i
      BY <1>1, <1>2, <2>2
    <3>2. q[i] = At(i - n - 2)
      BY <1>9, <3>1, Zenon
    <3> QED BY <3>2
  <2> QED BY <2>1, <2>2, Zenon
<1> QED BY <1>2, <1>4, <1>6, <1>10, <1>11, Zenon DEF g, q, n, m

------------------------------------------------------------------------------
(* Writing a table                                                         *)

(* The walk over the hash table meets every key once. *)
LEMMA KeyOrderWalks ==
  /\ KeyOrder \in Seq(Keys)
  /\ \A i, j \in 1 .. Len(KeyOrder) : KeyOrder[i] = KeyOrder[j] => i = j
  /\ \A k \in Keys : \E i \in 1 .. Len(KeyOrder) : KeyOrder[i] = k
<1> DEFINE n == Cardinality(Keys)
<1>1. n \in Nat /\ ExistsBijection(1 .. n, Keys)
  BY KeysAssumption, FS_CardinalityType, Zenon
<1>2. KeyOrder \in Bijection(1 .. n, Keys)
  BY <1>1, Zenon DEF KeyOrder, ExistsBijection
<1> HIDE DEF n
<1>3. KeyOrder \in [1 .. n -> Keys]
  BY <1>2, Zenon DEF Bijection, Injection
<1>4. KeyOrder \in Seq(Keys) /\ Len(KeyOrder) = n
  BY <1>1, <1>3
<1>5. \A i, j \in 1 .. n : KeyOrder[i] = KeyOrder[j] => i = j
  BY <1>2, <1>3, Zenon DEF Bijection, Injection, IsInjective
<1>6. \A k \in Keys : \E i \in 1 .. n : KeyOrder[i] = k
  BY <1>2, Zenon DEF Bijection, Surjection
<1> QED BY <1>4, <1>5, <1>6, Zenon

(* LogState() writes records that can be read back. *)
LEMMA AdRecordsType ==
  ASSUME NEW k \in Keys, NEW ad \in Ad \cup {NoAd}
  PROVE  AdRecords(k, ad) \in Seq(Sound)
<1>1. NewClassAd(k) \in Sound
  BY StartType, ReplayOperation DEF Operations
<1>2. CASE ad = NoAd \/ ad = "blank"
  BY <1>1, <1>2 DEF AdRecords
<1>3. CASE ad # NoAd /\ ad # "blank"
  <2>1. ad \in Values
    BY <1>3, Zenon DEF Ad
  <2>2. SetAttribute(k, ad) \in Operations
    BY <2>1 DEF Operations
  <2>3. SetAttribute(k, ad) \in Sound
    BY <2>2, StartType, ReplayOperation, Zenon
  <2> QED BY <1>1, <1>3, <2>3 DEF AdRecords
<1> QED BY <1>2, <1>3, Zenon

(* The records of one ad put it into the table. *)
LEMMA ReplayAd ==
  ASSUME NEW f \in Seq(Sound), ~Replay(f).open, NEW k \in Keys, NEW ad \in Ad \cup {NoAd},
         Replay(f).table[k] = NoAd
  PROVE  /\ f \o AdRecords(k, ad) \in Seq(Sound) /\ ~Replay(f \o AdRecords(k, ad)).open
         /\ Replay(f \o AdRecords(k, ad)).table = [Replay(f).table EXCEPT ![k] = ad]
<1> DEFINE T == Replay(f).table
           new == NewClassAd(k)
           T1 == [T EXCEPT ![k] = "blank"]
           set == SetAttribute(k, ad)
<1>1. Replay(f) \in RState /\ T \in Table
  BY ReplaySound, Zenon DEF RState
<1>2. new \in Operations /\ new \in Sound /\ Play(T, new) = T1
  <2>1. new \in Operations
    BY DEF Operations
  <2>2. Play(T, new) = T1
    BY Zenon DEF Play, NewClassAd
  <2> QED BY <2>1, <2>2, <1>1, ReplayOperation, Zenon
<1>3. Append(f, new) \in Seq(Sound) /\ Replay(Append(f, new)) \in RState
      /\ Replay(Append(f, new)) = [table |-> T1, open |-> FALSE, txn |-> <<>>]
  BY <1>1, <1>2, ReplayAppend, ReplayOperation, ReplaySound, ZenonT(60)
<1>4. CASE ad = NoAd
  <2>1. f \o AdRecords(k, ad) = f
    <3>1. AdRecords(k, ad) = <<>>
      BY <1>4, NoAdAssumption, Zenon DEF AdRecords, Ad
    <3>2. f \o <<>> = f
      OBVIOUS
    <3> QED BY <3>1, <3>2, Zenon
  <2>2. [T EXCEPT ![k] = ad] = T
    BY <1>1, <1>4, Zenon DEF Table
  <2> QED BY <2>1, <2>2, Zenon
<1>5. CASE ad = "blank"
  <2>1. f \o AdRecords(k, ad) = Append(f, new)
    BY <1>5, NoAdAssumption DEF AdRecords, Ad
  <2>2. ~Replay(Append(f, new)).open /\ Replay(Append(f, new)).table = T1
    BY <1>3
  <2> QED BY <1>3, <1>5, <2>1, <2>2, Zenon
<1>6. CASE ad # NoAd /\ ad # "blank"
  <2>1. set \in Operations
    BY <1>6 DEF Operations, Ad
  <2>2. f \o AdRecords(k, ad) = Append(Append(f, new), set)
    <3>1. AdRecords(k, ad) = <<new, set>>
      BY <1>6, Zenon DEF AdRecords
    <3> HIDE DEF new, set
    <3>2. f \o <<new, set>> = Append(Append(f, new), set)
      OBVIOUS
    <3> QED BY <3>1, <3>2, Zenon
  <2>3. Play(T1, set) = [T EXCEPT ![k] = ad]
    <3>1. T1[k] # NoAd
      BY <1>1, NoAdAssumption, Zenon DEF Table, Ad
    <3>2. Play(T1, set) = [T1 EXCEPT ![k] = ad]
      BY <3>1, Zenon DEF Play, SetAttribute
    <3> QED BY <1>1, <3>2, Zenon DEF Table
  <2>4. Append(Append(f, new), set) \in Seq(Sound)
        /\ Replay(Append(Append(f, new), set)) = [table |-> Play(T1, set), open |-> FALSE, txn |-> <<>>]
    <3> DEFINE g == Append(f, new)
    <3>1. g \in Seq(Sound) /\ Replay(g) \in RState /\ Replay(g).table = T1 /\ ~Replay(g).open
      BY <1>3
    <3> HIDE DEF g, new, set, T1
    <3>2. set \in Sound
          /\ ReplayRecord(Replay(g), set) = [table |-> Play(T1, set), open |-> FALSE, txn |-> <<>>]
      BY <2>1, <3>1, ReplayOperation, Zenon
    <3>3. Append(g, set) \in Seq(Sound) /\ Replay(Append(g, set)) = ReplayRecord(Replay(g), set)
      BY <3>1, <3>2, ReplayAppend, Zenon
    <3> QED BY <3>2, <3>3, Zenon DEF g
  <2> QED BY <2>2, <2>3, <2>4
<1> QED BY <1>4, <1>5, <1>6, Zenon

(* LogState() writes the header and then ad by ad. *)
LEMMA LogStateSteps ==
  ASSUME NEW t \in Table
  PROVE  \E g : /\ g \in [0 .. Len(KeyOrder) -> Seq(Sound)] /\ g[0] = <<SequenceNumber>>
                /\ \A i \in 1 .. Len(KeyOrder) :
                      g[i] = g[i - 1] \o AdRecords(KeyOrder[i], t[KeyOrder[i]])
                /\ LogState(t) = g[Len(KeyOrder)]
<1> DEFINE n == Len(KeyOrder)
           Rs(i) == AdRecords(KeyOrder[i], t[KeyOrder[i]])
           F == [p \in Seq(Sound) \X (1 .. n) |-> p[1] \o Rs(p[2])]
           Body(f) == [i \in 0 .. n |->
                          IF i = 0 THEN <<SequenceNumber>>
                          ELSE CHOOSE y \in {x \o Rs(i) : x \in {f[i - 1]}} : TRUE]
<1>1. n \in Nat /\ \A i \in 1 .. n : Rs(i) \in Seq(Sound)
  BY KeyOrderWalks, AdRecordsType, SMTT(30) DEF Table
<1>2. F \in [Seq(Sound) \X (1 .. n) -> Seq(Sound)]
      /\ \A x \in Seq(Sound), i \in 1 .. n : F[<<x, i>>] = x \o Rs(i)
  <2> HIDE DEF Rs, n
  <2>1. \A x \in Seq(Sound), i \in 1 .. n : x \o Rs(i) \in Seq(Sound)
    BY <1>1, Concat, Zenon
  <2>2. \A p \in Seq(Sound) \X (1 .. n) : p[1] \o Rs(p[2]) \in Seq(Sound)
    BY <2>1, Zenon
  <2>3. F \in [Seq(Sound) \X (1 .. n) -> Seq(Sound)]
    BY <2>2, Zenon
  <2>4. ASSUME NEW x \in Seq(Sound), NEW i \in 1 .. n PROVE F[<<x, i>>] = x \o Rs(i)
    <3>1. <<x, i>> \in Seq(Sound) \X (1 .. n) /\ <<x, i>>[1] = x /\ <<x, i>>[2] = i
      BY Zenon
    <3> QED BY <3>1, Zenon
  <2> QED BY <2>3, <2>4, Zenon
<1>3. <<SequenceNumber>> \in Seq(Sound)
  BY StartType, ReplayDelimiters
<1>4. PICK g : Iterated(g, Seq(Sound), n, <<SequenceNumber>>, F)
  <2> HIDE DEF F, n
  <2> QED BY <1>1, <1>2, <1>3, Iterates, Zenon
<1>5. /\ g \in [0 .. n -> Seq(Sound)] /\ g[0] = <<SequenceNumber>>
      /\ \A i \in 1 .. n : g[i] = g[i - 1] \o Rs(i)
  <2> HIDE DEF F, n, Rs
  <2>1. /\ g \in [0 .. n -> Seq(Sound)] /\ g[0] = <<SequenceNumber>>
        /\ \A i \in 1 .. n : g[i] = F[<<g[i - 1], i>>]
    BY <1>4, Zenon DEF Iterated
  <2>2. \A i \in 1 .. n : g[i - 1] \in Seq(Sound)
    BY <1>1, <2>1
  <2> QED BY <1>2, <2>1, <2>2, Zenon
<1>6. g = Body(g)
  <2> HIDE DEF n, Rs
  <2>1. \A i \in 1 .. n : {x \o Rs(i) : x \in {g[i - 1]}} = {g[i]}
    BY <1>5, Zenon
  <2>2. \A i \in 1 .. n : g[i] = CHOOSE y \in {x \o Rs(i) : x \in {g[i - 1]}} : TRUE
    BY <2>1, TheOne, Zenon
  <2>3. \A i \in 0 .. n : i = 0 \/ i \in 1 .. n
    BY <1>1
  <2>4. \A i \in 0 .. n :
           g[i] = IF i = 0 THEN <<SequenceNumber>>
                  ELSE CHOOSE y \in {x \o Rs(i) : x \in {g[i - 1]}} : TRUE
    BY <1>5, <2>2, <2>3, Zenon
  <2>5. g = [i \in 0 .. n |-> g[i]]
    BY <1>5, Zenon
  <2> QED BY <2>4, <2>5, Zenon
<1>7. PICK f : f = Body(f) /\ LogState(t) = f[n]
  BY <1>6, Zenon DEF LogState, Fold
<1>8. InStep(f, g, n)
  <2> HIDE DEF n, Rs
  <2>1. \A i \in 1 .. n : i \in 0 .. n /\ i # 0
    BY <1>1
  <2>2. \A i \in 1 .. n : f[i] = CHOOSE y \in {x \o Rs(i) : x \in {f[i - 1]}} : TRUE
    BY <1>7, <2>1, Zenon
  <2>3. f[0] = <<SequenceNumber>>
    BY <1>1, <1>7
  <2> HIDE DEF Body
  <2>4. \A i \in 1 .. n : {x \o Rs(i) : x \in {f[i - 1]}} = {f[i - 1] \o Rs(i)}
    BY Zenon
  <2>5. \A i \in 1 .. n : f[i] = f[i - 1] \o Rs(i)
    BY <2>2, <2>4, TheOne, Zenon
  <2> QED BY <1>5, <2>3, <2>5, Zenon DEF InStep
<1>9. f[n] = g[n]
  <2> HIDE DEF n
  <2>1. \A i \in 0 .. n : f[i] = g[i]
    BY <1>1, <1>8, Agree, ZenonT(60)
  <2> QED BY <1>1, <2>1
<1> QED BY <1>5, <1>7, <1>9, Zenon

(* The file that a rotation writes replays to the table it was made from,  *)
(* and may be appended to.                                                 *)
LEMMA LogStateReplays ==
  ASSUME NEW t \in Table
  PROVE  /\ LogState(t) \in Seq(Sound) /\ LogState(t) # <<>>
         /\ Replay(LogState(t)).table = t /\ ~Replay(LogState(t)).open
<1> DEFINE n == Len(KeyOrder)
           Upto(i) == [k \in Keys |-> IF \E j \in 1 .. i : KeyOrder[j] = k THEN t[k] ELSE NoAd]
<1>1. PICK g : /\ g \in [0 .. n -> Seq(Sound)] /\ g[0] = <<SequenceNumber>>
               /\ \A i \in 1 .. n : g[i] = g[i - 1] \o AdRecords(KeyOrder[i], t[KeyOrder[i]])
               /\ LogState(t) = g[n]
  BY LogStateSteps, Zenon
<1>2. n \in Nat
  BY KeyOrderWalks
<1> DEFINE Good(i) == g[i] # <<>> /\ Replay(g[i]).table = Upto(i) /\ ~Replay(g[i]).open
           P == {i \in Nat : i <= n => Good(i)}
<1>3. 0 \in P
  <2>1. <<>> \in Seq(Sound) /\ SequenceNumber \in Sound /\ Append(<<>>, SequenceNumber) = g[0]
    BY <1>1, StartType, ReplayDelimiters
  <2>2. Replay(<<>>) = Start
    <3>1. Runs(Replays(<<>>), <<>>) /\ Replay(<<>>) = Replays(<<>>)[Len(<<>>) + 1]
      BY <2>1, ReplaySound, Zenon
    <3>2. Len(<<>>) + 1 = 1
      OBVIOUS
    <3> QED BY <3>1, <3>2, Zenon DEF Runs
  <2>3. Replay(g[0]) = Start
    BY <2>1, <2>2, StartType, ReplayAppend, ReplayDelimiters, ZenonT(60)
  <2>4. Upto(0) = EmptyTable
    BY DEF EmptyTable
  <2>5. Good(0)
    BY <1>1, <2>3, <2>4 DEF Start
  <2> QED BY <2>5, Zenon
<1>4. ASSUME NEW i \in Nat, i \in P PROVE i + 1 \in P
  <2> SUFFICES ASSUME i + 1 <= n PROVE Good(i + 1)
    OBVIOUS
  <2> DEFINE k == KeyOrder[i + 1]
             ad == t[k]
  <2>1. Good(i) /\ i + 1 \in 1 .. n /\ (i + 1) - 1 = i
    BY <1>2, <1>4
  <2>2. k \in Keys /\ ad \in Ad \cup {NoAd} /\ \A j \in 1 .. i : KeyOrder[j] # k
    BY <2>1, KeyOrderWalks, SMTT(30) DEF Table
  <2>3. g[i] \in Seq(Sound) /\ Upto(i)[k] = NoAd
    <3>1. i \in 0 .. n
      BY <1>2
    <3>2. ~\E j \in 1 .. i : KeyOrder[j] = k
      BY <2>2, Zenon
    <3> QED BY <1>1, <2>2, <3>1, <3>2, Zenon
  <2>4. g[i + 1] = g[i] \o AdRecords(k, ad)
    BY <1>1, <2>1, Zenon
  <2>5. ~Replay(g[i + 1]).open /\ Replay(g[i + 1]).table = [Upto(i) EXCEPT ![k] = ad]
    <3> HIDE DEF Upto, k, ad
    <3> QED BY <2>1, <2>2, <2>3, <2>4, ReplayAd
  <2>6. [Upto(i) EXCEPT ![k] = ad] = Upto(i + 1)
    <3>1. \A x \in Keys : (\E j \in 1 .. i + 1 : KeyOrder[j] = x) <=> x = k \/ \E j \in 1 .. i : KeyOrder[j] = x
      OBVIOUS
    <3> QED BY <2>2, <3>1, ZenonT(60)
  <2>7. g[i + 1] # <<>>
    BY <2>1, <2>2, <2>3, <2>4, AdRecordsType
  <2> QED BY <2>5, <2>6, <2>7, Zenon
<1>5. n \in P
  <2> HIDE DEF P, n
  <2> QED BY <1>2, <1>3, <1>4, Induction, Zenon
<1>6. Good(n) /\ g[n] \in Seq(Sound)
  BY <1>1, <1>2, <1>5
<1>7. Upto(n) = t
  <2>1. \A k \in Keys : \E j \in 1 .. n : KeyOrder[j] = k
    BY KeyOrderWalks, Zenon
  <2> QED BY <2>1, Zenon DEF Table
<1> QED BY <1>1, <1>6, <1>7, Zenon

------------------------------------------------------------------------------
(* Looking through a transaction                                           *)

(* What a record says of the existence of an ad. *)
ExistsAfter(k, e, r) ==
    CASE r.op = "NewClassAd"     -> e \/ r.key = k
      [] r.op = "DestroyClassAd" -> e /\ r.key # k
      [] OTHER                   -> e

(* AdExistsInTableOrTransaction() goes through the records one by one. *)
LEMMA AdExistsSteps ==
  ASSUME NEW s \in Seq(Operations), NEW k \in Keys, NEW t \in Table
  PROVE  \E f : /\ f[0] = (t[k] # NoAd)
                /\ \A i \in 1 .. Len(s) : f[i] = ExistsAfter(k, f[i - 1], s[i])
                /\ AdExistsInTableOrTransaction(k, s, t) = f[Len(s)]
<1> DEFINE n == Len(s)
           F == [p \in BOOLEAN \X (1 .. n) |-> ExistsAfter(k, p[1], s[p[2]])]
           Op(e, r) == CASE r.op = "NewClassAd"     -> e \/ r.key = k
                         [] r.op = "DestroyClassAd" -> e /\ r.key # k
                         [] OTHER                   -> e
           Body(f) == [i \in 0 .. n |->
                          IF i = 0 THEN t[k] # NoAd
                          ELSE CHOOSE y \in {Op(x, s[i]) : x \in {f[i - 1]}} : TRUE]
<1>1. n \in Nat /\ (t[k] # NoAd) \in BOOLEAN /\ \A e, r : Op(e, r) = ExistsAfter(k, e, r)
  BY DEF ExistsAfter
<1>2. \A e \in BOOLEAN, i \in 1 .. n : ExistsAfter(k, e, s[i]) \in BOOLEAN
  BY Zenon DEF ExistsAfter
<1>3. F \in [BOOLEAN \X (1 .. n) -> BOOLEAN]
      /\ \A e \in BOOLEAN, i \in 1 .. n : F[<<e, i>>] = ExistsAfter(k, e, s[i])
  BY <1>2, Zenon
<1>4. PICK g : Iterated(g, BOOLEAN, n, t[k] # NoAd, F)
  <2> HIDE DEF F, n
  <2> QED BY <1>1, <1>3, Iterates, Zenon
<1>5. /\ g \in [0 .. n -> BOOLEAN] /\ g[0] = (t[k] # NoAd)
      /\ \A i \in 1 .. n : g[i] = Op(g[i - 1], s[i])
  <2> HIDE DEF F, n, Op
  <2>1. /\ g \in [0 .. n -> BOOLEAN] /\ g[0] = (t[k] # NoAd)
        /\ \A i \in 1 .. n : g[i] = F[<<g[i - 1], i>>]
    BY <1>4, Zenon DEF Iterated
  <2>2. \A i \in 1 .. n : i - 1 \in 0 .. n
    BY <1>1
  <2>3. \A i \in 1 .. n : g[i - 1] \in BOOLEAN
    BY <2>1, <2>2, Zenon
  <2> QED BY <1>1, <1>3, <2>1, <2>3, Zenon
<1>6. g = Body(g)
  <2> HIDE DEF n, Op
  <2>1. \A i \in 1 .. n : {Op(x, s[i]) : x \in {g[i - 1]}} = {g[i]}
    BY <1>5, Zenon
  <2>2. \A i \in 1 .. n : g[i] = CHOOSE y \in {Op(x, s[i]) : x \in {g[i - 1]}} : TRUE
    BY <2>1, TheOne, Zenon
  <2>3. \A i \in 0 .. n : i = 0 \/ i \in 1 .. n
    BY <1>1
  <2>4. \A i \in 0 .. n : g[i] = IF i = 0 THEN t[k] # NoAd
                                 ELSE CHOOSE y \in {Op(x, s[i]) : x \in {g[i - 1]}} : TRUE
    BY <1>5, <2>2, <2>3, Zenon
  <2>5. g = [i \in 0 .. n |-> g[i]]
    BY <1>5, Zenon
  <2> QED BY <2>4, <2>5, Zenon
<1>7. PICK f : f = Body(f) /\ AdExistsInTableOrTransaction(k, s, t) = f[n]
  BY <1>6, Zenon DEF AdExistsInTableOrTransaction, Fold
<1>8. f[0] = (t[k] # NoAd) /\ \A i \in 1 .. n : f[i] = ExistsAfter(k, f[i - 1], s[i])
  <2> HIDE DEF n, Op
  <2>1. 0 \in 0 .. n /\ \A i \in 1 .. n : i \in 0 .. n /\ i # 0
    BY <1>1
  <2>2. f[0] = (t[k] # NoAd)
        /\ \A i \in 1 .. n : f[i] = CHOOSE y \in {Op(x, s[i]) : x \in {f[i - 1]}} : TRUE
    BY <1>7, <2>1, Zenon
  <2> HIDE DEF Body
  <2>3. \A i \in 1 .. n : {Op(x, s[i]) : x \in {f[i - 1]}} = {Op(f[i - 1], s[i])}
    BY Zenon
  <2> QED BY <1>1, <2>2, <2>3, TheOne, Zenon
<1> QED BY <1>7, <1>8, Zenon

(* An empty transaction leaves the answer to the table, ... *)
LEMMA AdExistsEmpty ==
  ASSUME NEW k \in Keys, NEW t \in Table
  PROVE  AdExistsInTableOrTransaction(k, <<>>, t) = (t[k] # NoAd)
<1>1. <<>> \in Seq(Operations) /\ Len(<<>>) = 0
  OBVIOUS
<1>2. PICK f : f[0] = (t[k] # NoAd) /\ AdExistsInTableOrTransaction(k, <<>>, t) = f[Len(<<>>)]
  BY <1>1, AdExistsSteps, ZenonT(60)
<1> QED BY <1>1, <1>2, Zenon

(* ... and one more record changes it as its operation says. *)
LEMMA AdExistsAppend ==
  ASSUME NEW s \in Seq(Operations), NEW r \in Operations, NEW k \in Keys, NEW t \in Table
  PROVE  AdExistsInTableOrTransaction(k, Append(s, r), t)
            = ExistsAfter(k, AdExistsInTableOrTransaction(k, s, t), r)
<1> DEFINE a == Append(s, r)
           n == Len(s)
<1>1. /\ n \in Nat /\ a \in Seq(Operations) /\ Len(a) = n + 1 /\ a[n + 1] = r
      /\ \A i \in 1 .. n : a[i] = s[i]
  OBVIOUS
<1>2. PICK f : /\ f[0] = (t[k] # NoAd)
               /\ \A i \in 1 .. n : f[i] = ExistsAfter(k, f[i - 1], s[i])
               /\ AdExistsInTableOrTransaction(k, s, t) = f[n]
  BY AdExistsSteps, Zenon
<1>3. PICK h : /\ h[0] = (t[k] # NoAd)
               /\ \A i \in 1 .. Len(a) : h[i] = ExistsAfter(k, h[i - 1], a[i])
               /\ AdExistsInTableOrTransaction(k, a, t) = h[Len(a)]
  <2> HIDE DEF a
  <2> QED BY <1>1, AdExistsSteps, Zenon
<1> HIDE DEF a, n
<1>4. \A i \in 1 .. n : i \in 1 .. Len(a)
  BY <1>1
<1>5. InStep(f, h, n)
  BY <1>1, <1>2, <1>3, <1>4, Zenon DEF InStep
<1>6. \A i \in 0 .. n : f[i] = h[i]
  BY <1>1, <1>5, Agree
<1>7. n \in 0 .. n /\ n + 1 \in 1 .. Len(a) /\ (n + 1) - 1 = n
  BY <1>1
<1>8. h[n + 1] = ExistsAfter(k, h[n], r)
  BY <1>1, <1>3, <1>7, Zenon
<1> QED BY <1>1, <1>2, <1>3, <1>6, <1>7, <1>8, Zenon DEF a

(* What ExamineTransaction() starts from, and what it can find. *)
Unseen == [adDeleted |-> FALSE, valDeleted |-> FALSE, found |-> FALSE, val |-> "blank"]

Seen == [adDeleted : BOOLEAN, valDeleted : BOOLEAN, found : BOOLEAN, val : Ad]

(* What a record adds. *)
ExamineAfter(k, e, r) == IF r.key = k THEN ExamineRecord(e, r) ELSE e

(* One record keeps the type of what ExamineTransaction() has found. *)
LEMMA ExamineType ==
  ASSUME NEW k \in Keys, NEW e \in Seen, NEW r \in Operations
  PROVE  Unseen \in Seen /\ ExamineAfter(k, e, r) \in Seen
<1>1. Unseen \in Seen
  BY Zenon DEF Unseen, Seen, Ad
<1>2. CASE r.op = "NewClassAd"
  BY <1>1, <1>2, Zenon DEF ExamineAfter, ExamineRecord, Seen
<1>3. CASE r.op = "DestroyClassAd"
  BY <1>1, <1>3, Zenon DEF ExamineAfter, ExamineRecord, Seen
<1>4. CASE r.op = "SetAttribute"
  <2>1. r.value \in Ad
    BY <1>4 DEF Operations, NewClassAd, DestroyClassAd, SetAttribute, DeleteAttribute, Ad
  <2>2. ExamineRecord(e, r) = [e EXCEPT !.found = TRUE, !.valDeleted = FALSE, !.val = r.value]
    BY <1>4, Zenon DEF ExamineRecord
  <2> QED BY <1>1, <2>1, <2>2, Zenon DEF ExamineAfter, Seen
<1>5. CASE r.op = "DeleteAttribute"
  BY <1>1, <1>5, Zenon DEF ExamineAfter, ExamineRecord, Seen
<1>6. r.op \in {"NewClassAd", "DestroyClassAd", "SetAttribute", "DeleteAttribute"}
  BY DEF Operations, NewClassAd, DestroyClassAd, SetAttribute, DeleteAttribute
<1> QED BY <1>2, <1>3, <1>4, <1>5, <1>6, Zenon

(* ExamineTransaction() goes through the records one by one. *)
LEMMA ExamineSteps ==
  ASSUME NEW s \in Seq(Operations), NEW k \in Keys
  PROVE  \E f : /\ f[0] = Unseen
                /\ \A i \in 1 .. Len(s) : f[i] = ExamineAfter(k, f[i - 1], s[i])
                /\ ExamineTransaction(k, s) = f[Len(s)]
<1> DEFINE n == Len(s)
           F == [p \in Seen \X (1 .. n) |-> ExamineAfter(k, p[1], s[p[2]])]
           Op(e, r) == IF r.key = k THEN ExamineRecord(e, r) ELSE e
           Body(f) == [i \in 0 .. n |->
                          IF i = 0 THEN Unseen
                          ELSE CHOOSE y \in {Op(x, s[i]) : x \in {f[i - 1]}} : TRUE]
<1>1. n \in Nat /\ Unseen \in Seen /\ \A e, r : Op(e, r) = ExamineAfter(k, e, r)
  BY DEF ExamineAfter, Unseen, Seen, Ad
<1>2. \A e \in Seen, i \in 1 .. n : ExamineAfter(k, e, s[i]) \in Seen
  BY ExamineType
<1>3. F \in [Seen \X (1 .. n) -> Seen]
      /\ \A e \in Seen, i \in 1 .. n : F[<<e, i>>] = ExamineAfter(k, e, s[i])
  BY <1>2, Zenon
<1>4. PICK g : Iterated(g, Seen, n, Unseen, F)
  <2> HIDE DEF F, n
  <2> QED BY <1>1, <1>3, Iterates, Zenon
<1>5. /\ g \in [0 .. n -> Seen] /\ g[0] = Unseen
      /\ \A i \in 1 .. n : g[i] = Op(g[i - 1], s[i])
  <2> HIDE DEF F, n, Op
  <2>1. /\ g \in [0 .. n -> Seen] /\ g[0] = Unseen
        /\ \A i \in 1 .. n : g[i] = F[<<g[i - 1], i>>]
    BY <1>4, Zenon DEF Iterated
  <2>2. \A i \in 1 .. n : i - 1 \in 0 .. n
    BY <1>1
  <2>3. \A i \in 1 .. n : g[i - 1] \in Seen
    BY <2>1, <2>2, Zenon
  <2> QED BY <1>1, <1>3, <2>1, <2>3, Zenon
<1>6. g = Body(g)
  <2> HIDE DEF n, Op
  <2>1. \A i \in 1 .. n : {Op(x, s[i]) : x \in {g[i - 1]}} = {g[i]}
    BY <1>5, Zenon
  <2>2. \A i \in 1 .. n : g[i] = CHOOSE y \in {Op(x, s[i]) : x \in {g[i - 1]}} : TRUE
    BY <2>1, TheOne, Zenon
  <2>3. \A i \in 0 .. n : i = 0 \/ i \in 1 .. n
    BY <1>1
  <2>4. \A i \in 0 .. n : g[i] = IF i = 0 THEN Unseen
                                 ELSE CHOOSE y \in {Op(x, s[i]) : x \in {g[i - 1]}} : TRUE
    BY <1>5, <2>2, <2>3, Zenon
  <2>5. g = [i \in 0 .. n |-> g[i]]
    BY <1>5, Zenon
  <2> QED BY <2>4, <2>5, Zenon
<1>7. PICK f : f = Body(f) /\ ExamineTransaction(k, s) = f[n]
  BY <1>6, Zenon DEF ExamineTransaction, Fold, Unseen
<1>8. f[0] = Unseen /\ \A i \in 1 .. n : f[i] = ExamineAfter(k, f[i - 1], s[i])
  <2> HIDE DEF n, Op
  <2>1. 0 \in 0 .. n /\ \A i \in 1 .. n : i \in 0 .. n /\ i # 0
    BY <1>1
  <2>2. f[0] = Unseen
        /\ \A i \in 1 .. n : f[i] = CHOOSE y \in {Op(x, s[i]) : x \in {f[i - 1]}} : TRUE
    BY <1>7, <2>1, Zenon
  <2> HIDE DEF Body
  <2>3. \A i \in 1 .. n : {Op(x, s[i]) : x \in {f[i - 1]}} = {Op(f[i - 1], s[i])}
    BY Zenon
  <2> QED BY <1>1, <2>2, <2>3, TheOne, Zenon
<1> QED BY <1>7, <1>8, Zenon

(* An empty transaction says nothing of an ad, ... *)
LEMMA ExamineEmpty ==
  ASSUME NEW k \in Keys
  PROVE  ExamineTransaction(k, <<>>) = Unseen
<1>1. <<>> \in Seq(Operations) /\ Len(<<>>) = 0
  OBVIOUS
<1>2. PICK f : f[0] = Unseen /\ ExamineTransaction(k, <<>>) = f[Len(<<>>)]
  BY <1>1, ExamineSteps, Zenon
<1> QED BY <1>1, <1>2, Zenon

(* ... and one more record adds what it says. *)
LEMMA ExamineAppend ==
  ASSUME NEW s \in Seq(Operations), NEW r \in Operations, NEW k \in Keys
  PROVE  ExamineTransaction(k, Append(s, r))
            = ExamineAfter(k, ExamineTransaction(k, s), r)
<1> DEFINE a == Append(s, r)
           n == Len(s)
<1>1. /\ n \in Nat /\ a \in Seq(Operations) /\ Len(a) = n + 1 /\ a[n + 1] = r
      /\ \A i \in 1 .. n : a[i] = s[i]
  OBVIOUS
<1>2. PICK f : /\ f[0] = Unseen
               /\ \A i \in 1 .. n : f[i] = ExamineAfter(k, f[i - 1], s[i])
               /\ ExamineTransaction(k, s) = f[n]
  BY ExamineSteps, Zenon
<1>3. PICK h : /\ h[0] = Unseen
               /\ \A i \in 1 .. Len(a) : h[i] = ExamineAfter(k, h[i - 1], a[i])
               /\ ExamineTransaction(k, a) = h[Len(a)]
  <2> HIDE DEF a
  <2> QED BY <1>1, ExamineSteps, Zenon
<1> HIDE DEF a, n
<1>4. \A i \in 1 .. n : i \in 1 .. Len(a)
  BY <1>1
<1>5. InStep(f, h, n)
  BY <1>1, <1>2, <1>3, <1>4, Zenon DEF InStep
<1>6. \A i \in 0 .. n : f[i] = h[i]
  BY <1>1, <1>5, Agree
<1>7. n \in 0 .. n /\ n + 1 \in 1 .. Len(a) /\ (n + 1) - 1 = n
  BY <1>1
<1>8. h[n + 1] = ExamineAfter(k, h[n], r)
  BY <1>1, <1>3, <1>7, Zenon
<1> QED BY <1>1, <1>2, <1>3, <1>6, <1>7, <1>8, Zenon DEF a
==============================================================================
