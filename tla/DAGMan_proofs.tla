---------------------------- MODULE DAGMan_proofs ----------------------------
(***************************************************************************)
(* What DAGMan keeps for every DAG, cycles included, every setting of the  *)
(* throttles and any number of crashes.  Each method of the Dag object is  *)
(* shown to keep the object sound; the loops over the nodes take an        *)
(* induction.                                                              *)
(***************************************************************************)
EXTENDS DAGManInv, FiniteSetTheorems, TLAPS

-----------------------------------------------------------------------------
\* Induction over the natural numbers, for the loops over the nodes

\* Every nonempty set of natural numbers has a least element.
LEMMA LeastNat ==
    ASSUME NEW S \in SUBSET Nat, S # {}
    PROVE  \E x \in S : \A y \in S : x <= y
  <1> DEFINE R == {p \in Nat \X Nat : p[1] < p[2]}
  <1>1. IsWellFoundedOn(R, Nat)
    BY NatLessThanWellFounded, Zenon DEF OpToRel
  <1>2. PICK x \in S : \A y \in S : ~ (<<y, x>> \in R)
    BY <1>1, WFMin, Zenon
  <1>3. \A y \in S : ~(y < x)
    BY <1>2, Zenon
  <1> QED BY <1>2, <1>3

\* Induction over the natural numbers, with a set as the predicate.
LEMMA Induction ==
    ASSUME NEW P, 0 \in P, \A n \in Nat : n \in P => n + 1 \in P
    PROVE  \A n \in Nat : n \in P
  <1> SUFFICES ASSUME NEW m \in Nat, m \notin P PROVE FALSE
    BY Zenon
  <1> DEFINE bad == {n \in Nat : n \notin P}
  <1>1. PICK n \in bad : \A y \in bad : n <= y
    <2>1. bad \in SUBSET Nat /\ m \in bad
      BY Zenon
    <2> HIDE DEF bad
    <2> QED BY <2>1, LeastNat, Zenon
  <1>2. n \in Nat /\ n # 0 /\ n - 1 \in Nat /\ (n - 1) + 1 = n /\ ~(n <= n - 1)
    BY <1>1
  <1>3. n - 1 \in P
    BY <1>1, <1>2, Zenon
  <1> QED BY <1>1, <1>2, <1>3, Zenon

\* A step function on S, iterated n times from b.
Iterated(g, S, n, b, F) ==
    /\ g \in [0 .. n -> S] /\ g[0] = b
    /\ \A i \in 1 .. n : g[i] = F[<<g[i - 1], i>>]

\* There is such an iteration.
LEMMA Iterates ==
    ASSUME NEW S, NEW n \in Nat, NEW b \in S, NEW F \in [S \X (1 .. n) -> S]
    PROVE  \E g : Iterated(g, S, n, b, F)
  <1> DEFINE P == {m \in Nat : m <= n => \E g : Iterated(g, S, m, b, F)}
  <1>1. 0 \in P
    <2> DEFINE g == [i \in 0 .. 0 |-> b]
    <2>1. Iterated(g, S, 0, b, F)
      BY DEF Iterated
    <2> QED BY <2>1, Zenon
  <1>2. ASSUME NEW m \in Nat, m \in P PROVE m + 1 \in P
    <2> SUFFICES ASSUME m + 1 <= n PROVE \E g : Iterated(g, S, m + 1, b, F)
      OBVIOUS
    <2>1. PICK g : Iterated(g, S, m, b, F)
      BY <1>2
    <2> DEFINE y == F[<<g[m], m + 1>>]
               h == [i \in 0 .. m + 1 |-> IF i = m + 1 THEN y ELSE g[i]]
    <2>2. g[m] \in S /\ m + 1 \in 1 .. n
      BY <2>1 DEF Iterated
    <2>3. y \in S
      BY <2>2, Zenon
    <2>4. h \in [0 .. m + 1 -> S] /\ h[0] = b
      BY <2>1, <2>3 DEF Iterated
    <2>5. ASSUME NEW i \in 1 .. m + 1 PROVE h[i] = F[<<h[i - 1], i>>]
      <3>1. CASE i = m + 1
        <4>1. h[i] = y /\ h[i - 1] = g[m]
          BY <3>1
        <4> QED BY <3>1, <4>1, Zenon
      <3>2. CASE i # m + 1
        <4>1. i \in 1 .. m /\ h[i] = g[i] /\ h[i - 1] = g[i - 1]
          BY <3>2
        <4> QED BY <2>1, <4>1, Zenon DEF Iterated
      <3> QED BY <3>1, <3>2, Zenon
    <2> HIDE DEF h
    <2>6. Iterated(h, S, m + 1, b, F)
      BY <2>4, <2>5, Zenon DEF Iterated
    <2> QED BY <2>6, Zenon
  <1>3. n \in P
    <2> HIDE DEF P
    <2> QED BY <1>1, <1>2, Induction, Zenon
  <1> QED BY <1>3

\* A function that starts in S and does not leave it.
Stays(f, S, n) == f[0] \in S /\ \A i \in 1 .. n : f[i - 1] \in S => f[i] \in S

\* Such a function is in S at the end.
LEMMA StaysInside ==
    ASSUME NEW n \in Nat, NEW S, NEW f, Stays(f, S, n)
    PROVE  f[n] \in S
  <1> USE DEF Stays
  <1> DEFINE P == {i \in Nat : i <= n => f[i] \in S}
  <1>1. 0 \in P
    BY Zenon
  <1>2. ASSUME NEW i \in Nat, i \in P PROVE i + 1 \in P
    <2> SUFFICES ASSUME i + 1 <= n PROVE f[i + 1] \in S
      OBVIOUS
    <2>1. f[i] \in S /\ i + 1 \in 1 .. n /\ (i + 1) - 1 = i
      BY <1>2
    <2> QED BY <2>1, Zenon
  <1> HIDE DEF P
  <1>3. n \in P
    BY <1>1, <1>2, Induction, Zenon
  <1> QED BY <1>3 DEF P

\* The value that ForEach takes from a set of one.
LEMMA TheOne == ASSUME NEW a PROVE (CHOOSE y \in {a} : TRUE) = a
    BY Zenon

-----------------------------------------------------------------------------
\* Sound Dag objects

\* The two differ in nothing that Sound is about.
Alike(d, e) ==
    /\ e.waiting = d.waiting /\ e.readyQ = d.readyQ
    /\ e.counted = d.counted /\ e.done = d.done
    /\ \A n \in Nodes : e.status[n] = "PRERUN" => d.status[n] = "PRERUN"

\* A sound object is a Dag object.
LEMMA SoundIsDag == ASSUME NEW F, NEW d \in Sound(F) PROVE d \in Dags
  BY Zenon DEF Sound

\* The types of the fields that the methods compute with.
LEMMA Fields ==
    ASSUME NEW d \in Dags
    PROVE  /\ d.status \in [Nodes -> Statuses] /\ d.waiting \in [Nodes -> SUBSET Nodes]
           /\ d.retries \in [Nodes -> Int] /\ d.tries \in [Nodes -> Int]
           /\ d.procs \in [Nodes -> Int] /\ d.id \in [Nodes -> Int]
           /\ d.preDone \in SUBSET Nodes /\ d.idle \in SUBSET Nodes
           /\ d.counted \in SUBSET Nodes /\ d.hash \in SUBSET (Int \X Nodes)
           /\ d.readyQ \in Seq(Nodes)
           /\ d.running \in [Scripts -> SUBSET Nodes]
           /\ d.deferred \in [Scripts -> Seq(Nodes)]
           /\ d.jobs \in Int /\ d.done \in Int /\ d.failed \in Int /\ d.preRun \in Int
           /\ d.postRun \in Int /\ d.idleProcs \in Int /\ d.fakeID \in Int
  BY Zenon DEF Dags

\* A change that Sound does not see keeps the object sound.
LEMMA AlikeSound ==
    ASSUME NEW F, NEW d \in Sound(F), NEW e \in Dags, Alike(d, e)
    PROVE  e \in Sound(F)
  BY Zenon DEF Sound, Alike

\* An object is no less sound when more nodes are done.
LEMMA SoundGrows ==
    ASSUME NEW F, NEW G, F \subseteq G, NEW d \in Sound(F)
    PROVE  d \in Sound(G)
  BY Zenon DEF Sound

-----------------------------------------------------------------------------
\* Scripts and the ready queue

\* An EXCEPT() changes nothing but the fact that it was reached.
LEMMA ExceptSound ==
    ASSUME NEW F, NEW d \in Sound(F)
    PROVE  Except(d) \in Sound(F) /\ Except(d).status = d.status
  <1>1. d \in Dags
    BY SoundIsDag, Zenon
  <1>2. Except(d) \in Dags /\ Alike(d, Except(d)) /\ Except(d).status = d.status
    BY <1>1, Zenon DEF Except, Dags, Alike
  <1> QED BY <1>2, AlikeSound, Zenon

\* ScriptQ::Run leaves the nodes alone.
LEMMA RunScriptSound ==
    ASSUME NEW F, NEW d \in Sound(F), NEW k \in Scripts, NEW n \in Nodes
    PROVE  RunScript(d, k, n) \in Sound(F) /\ RunScript(d, k, n).status = d.status
  <1>0. d \in Dags
    BY SoundIsDag, Zenon
  <1> DEFINE v == Append(d.deferred[k], n)
             w == d.running[k] \cup {n}
             e == [d EXCEPT !.deferred[k] = v]
             f == [d EXCEPT !.running[k] = w]
  <1>1. v \in Seq(Nodes) /\ w \in SUBSET Nodes
    BY <1>0 DEF Dags
  <1> HIDE DEF v, w
  <1>2. e \in Dags /\ Alike(d, e) /\ e.status = d.status
    BY <1>0, <1>1, Zenon DEF Dags, Alike
  <1>3. f \in Dags /\ Alike(d, f) /\ f.status = d.status
    BY <1>0, <1>1, Zenon DEF Dags, Alike
  <1>4. RunScript(d, k, n) \in {e, f}
    BY Zenon DEF RunScript, v, w
  <1> HIDE DEF e, f
  <1> QED BY <1>2, <1>3, <1>4, AlikeSound, Zenon

\* Neither does ScriptQ::RunWaitingScript.
LEMMA RunWaitingScriptSound ==
    ASSUME NEW F, NEW d \in Sound(F), NEW k \in Scripts
    PROVE  RunWaitingScript(d, k) \in Sound(F) /\ RunWaitingScript(d, k).status = d.status
  <1>1. CASE d.deferred[k] = << >>
    BY <1>1, Zenon DEF RunWaitingScript
  <1>2. CASE d.deferred[k] # << >>
    <2>0. d \in Dags
      BY SoundIsDag, Zenon
    <2> DEFINE v == Tail(d.deferred[k])
               n == Head(d.deferred[k])
               e == [d EXCEPT !.deferred[k] = v]
    <2>1. v \in Seq(Nodes) /\ n \in Nodes
      BY <2>0, <1>2 DEF Dags
    <2>2. RunWaitingScript(d, k) = RunScript(e, k, n)
      BY <1>2, Zenon DEF RunWaitingScript
    <2> HIDE DEF v, n
    <2>3. e \in Dags /\ Alike(d, e) /\ e.status = d.status
      BY <2>0, <2>1, Zenon DEF Dags, Alike
    <2> HIDE DEF e
    <2>4. e \in Sound(F)
      BY <2>3, AlikeSound, Zenon
    <2> QED BY <2>1, <2>2, <2>3, <2>4, RunScriptSound, Zenon
  <1> QED BY <1>1, <1>2, Zenon

\* Nodes that wait for nobody may be queued for submission.
LEMMA QueueSound ==
    ASSUME NEW F, NEW d \in Sound(F), NEW n \in Nodes, d.waiting[n] = {}
    PROVE  LET e == [d EXCEPT !.readyQ = Append(@, n)]
           IN  e \in Sound(F) /\ e.status = d.status
  <1>0. d \in Dags
    BY SoundIsDag, Zenon
  <1> DEFINE q == Append(d.readyQ, n)
             e == [d EXCEPT !.readyQ = q]
  <1>1. q \in Seq(Nodes)
    BY <1>0 DEF Dags
  <1>2. \A i \in 1..Len(q) : d.waiting[q[i]] = {}
    <2> SUFFICES ASSUME NEW i \in 1..Len(q) PROVE d.waiting[q[i]] = {}
      BY Zenon
    <2>1. d.readyQ \in Seq(Nodes) /\ Len(q) = Len(d.readyQ) + 1 /\ Len(d.readyQ) \in Nat
      BY <1>0 DEF Dags
    <2>2. q[i] = IF i = Len(q) THEN n ELSE d.readyQ[i]
      BY <2>1
    <2>3. i # Len(q) => i \in 1..Len(d.readyQ)
      BY <2>1
    <2> QED BY <2>2, <2>3, Zenon DEF Sound
  <1> HIDE DEF q
  <1>3. /\ e \in Dags /\ e.status = d.status /\ e.waiting = d.waiting
        /\ e.counted = d.counted /\ e.done = d.done /\ e.readyQ = q
    BY <1>0, <1>1, Zenon DEF Dags
  <1> HIDE DEF e
  <1>4. e \in Sound(F)
    BY <1>2, <1>3, Zenon DEF Sound
  <1> QED BY <1>3, <1>4, Zenon DEF e, q

\* StartNode() starts or queues a node only when it waits for nobody, and
\* touches no node that is done.
LEMMA StartNodeSound ==
    ASSUME NEW F, NEW d \in Sound(F), NEW n \in Nodes
    PROVE  /\ StartNode(d, n) \in Sound(F)
           /\ \A m \in Nodes : d.status[m] = "DONE" => StartNode(d, n).status[m] = "DONE"
  <1>1. CASE d.status[n] # "READY" \/ d.waiting[n] # {}
    BY <1>1, ExceptSound, Zenon DEF StartNode
  <1>2. CASE d.status[n] = "READY" /\ d.waiting[n] = {}
    <2>0. d \in Dags
      BY SoundIsDag, Zenon
    <2>1. CASE n \in PreScripts /\ n \notin d.preDone
      <3> DEFINE e == [d EXCEPT !.status[n] = "PRERUN", !.preRun = @ + 1]
      <3>0. e \in Dags
        <4>1. d.preRun + 1 \in Int /\ "PRERUN" \in Statuses
          BY <2>0 DEF Dags, Statuses
        <4> QED BY <2>0, <4>1, Zenon DEF Dags
      <3>1. /\ e.waiting = d.waiting /\ e.readyQ = d.readyQ
            /\ e.counted = d.counted /\ e.done = d.done
        BY <2>0, Zenon DEF Dags
      <3>2. StartNode(d, n) = RunScript(e, "PRE", n)
        BY <1>2, <2>1, Zenon DEF StartNode
      <3>3. \A m \in Nodes : e.status[m] = IF m = n THEN "PRERUN" ELSE d.status[m]
        BY <2>0, Zenon DEF Dags
      <3> HIDE DEF e
      <3>4. e \in Sound(F)
        BY <1>2, <3>0, <3>1, <3>3 DEF Sound
      <3>5. StartNode(d, n) \in Sound(F) /\ StartNode(d, n).status = e.status
        BY <3>2, <3>4, RunScriptSound, Zenon DEF Scripts
      <3> QED BY <1>2, <3>3, <3>5, Zenon
    <2>2. CASE ~(n \in PreScripts /\ n \notin d.preDone)
      <3>1. StartNode(d, n) = [d EXCEPT !.readyQ = Append(@, n)]
        BY <1>2, <2>2, Zenon DEF StartNode
      <3> QED BY <1>2, <3>1, QueueSound
    <2> QED BY <2>1, <2>2, Zenon
  <1> QED BY <1>1, <1>2, Zenon

\* A node may get any other status but PRERUN, and counters any value.
LEMMA StatusSound ==
    ASSUME NEW F, NEW d \in Sound(F), NEW n \in Nodes, NEW s \in Statuses, s # "PRERUN"
    PROVE  LET e == [d EXCEPT !.status[n] = s]
           IN  e \in Sound(F) /\ e.status = [d.status EXCEPT ![n] = s]
  <1>0. d \in Dags
    BY SoundIsDag, Zenon
  <1> DEFINE e == [d EXCEPT !.status[n] = s]
  <1>1. e \in Dags
    BY <1>0, Zenon DEF Dags
  <1>2. Alike(d, e) /\ e.status = [d.status EXCEPT ![n] = s]
    BY <1>0, Zenon DEF Dags, Alike
  <1> HIDE DEF e
  <1> QED BY <1>1, <1>2, AlikeSound, Zenon DEF e

\* RunPostScript().
LEMMA RunPostScriptSound ==
    ASSUME NEW F, NEW d \in Sound(F), NEW n \in Nodes
    PROVE  RunPostScript(d, n) \in Sound(F)
  <1>0. d \in Dags
    BY SoundIsDag, Zenon
  <1> DEFINE e == [d EXCEPT !.status[n] = "POSTRUN", !.postRun = @ + 1]
  <1>1. e \in Dags
    <2>1. d.postRun + 1 \in Int /\ "POSTRUN" \in Statuses
      BY <1>0 DEF Dags, Statuses
    <2> QED BY <1>0, <2>1, Zenon DEF Dags
  <1>2. Alike(d, e)
    BY <1>0, Zenon DEF Dags, Alike
  <1>3. RunPostScript(d, n) = RunScript(e, "POST", n)
    BY Zenon DEF RunPostScript
  <1> HIDE DEF e
  <1>4. e \in Sound(F)
    BY <1>1, <1>2, AlikeSound, Zenon
  <1> QED BY <1>3, <1>4, RunScriptSound, Zenon DEF Scripts

\* RestartNode().
LEMMA RestartNodeSound ==
    ASSUME NEW F, NEW d \in Sound(F), NEW n \in Nodes, NEW recovery \in BOOLEAN
    PROVE  RestartNode(d, n, recovery) \in Sound(F)
  <1>0. d \in Dags
    BY SoundIsDag, Zenon
  <1> DEFINE Again == [d EXCEPT !.status[n] = "READY", !.retries[n] = @ + 1,
                                !.preDone = @ \ {n}]
             e == [Again EXCEPT !.hash = @ \ {<<d.id[n], n>>}, !.id[n] = NoID]
  <1>1. Again \in Dags
    <2>1. d.retries[n] + 1 \in Int /\ d.preDone \ {n} \in SUBSET Nodes /\ "READY" \in Statuses
      BY <1>0 DEF Dags, Statuses
    <2> QED BY <1>0, <2>1, Zenon DEF Dags
  <1>2. Alike(d, Again)
    BY <1>0, Zenon DEF Dags, Alike
  <1>3. RestartNode(d, n, recovery) \in {Except(d), StartNode(Again, n), e}
    BY Zenon DEF RestartNode
  <1> HIDE DEF Again
  <1>4. Again \in Sound(F)
    BY <1>1, <1>2, AlikeSound, Zenon
  <1>5. e \in Dags
    <2>1. Again.hash \ {<<d.id[n], n>>} \in SUBSET (Int \X Nodes) /\ NoID \in Int
      BY <1>1 DEF Dags, NoID
    <2> QED BY <1>1, <2>1, Zenon DEF Dags
  <1>6. Alike(Again, e)
    BY <1>1, Zenon DEF Dags, Alike
  <1> HIDE DEF e
  <1>7. e \in Sound(F)
    BY <1>4, <1>5, <1>6, AlikeSound, Zenon
  <1> QED BY <1>3, <1>4, <1>7, ExceptSound, StartNodeSound, Zenon

\* A node fails.
LEMMA FailNodeSound ==
    ASSUME NEW F, NEW d \in Sound(F), NEW n \in Nodes, NEW recovery \in BOOLEAN
    PROVE  FailNode(d, n, recovery) \in Sound(F)
  <1> DEFINE Failed == [d EXCEPT !.status[n] = "ERROR"]
             e == [Failed EXCEPT !.failed = @ + 1]
  <1>1. Failed \in Sound(F)
    BY StatusSound, Zenon DEF Statuses
  <1>2. FailNode(d, n, recovery) \in {RestartNode(Failed, n, recovery), e}
    BY Zenon DEF FailNode
  <1> HIDE DEF Failed
  <1>3. Failed \in Dags
    BY <1>1, SoundIsDag, Zenon
  <1>4. e \in Dags /\ Alike(Failed, e)
    <2>1. Failed.failed + 1 \in Int
      BY <1>3 DEF Dags
    <2> QED BY <1>3, <2>1, Zenon DEF Dags, Alike
  <1> HIDE DEF e
  <1> QED BY <1>1, <1>2, <1>4, AlikeSound, RestartNodeSound, Zenon

-----------------------------------------------------------------------------
\* TerminateJob

\* A child stops waiting for a parent that is done, and starts if that was the
\* last one.
LEMMA ReleaseSound ==
    ASSUME NEW G, NEW d \in Sound(G), NEW n \in Nodes \cap G, NEW c \in Nodes
    PROVE  LET f == [d EXCEPT !.waiting[c] = @ \ {n}]
           IN  f \in Sound(G) /\ f.status = d.status
  <1>0. d \in Dags
    BY SoundIsDag, Zenon
  <1> DEFINE w == d.waiting[c] \ {n}
             f == [d EXCEPT !.waiting[c] = w]
  <1>1. w \in SUBSET Nodes
    BY <1>0, Zenon DEF Dags
  <1>2. f \in Dags
    BY <1>0, <1>1, Zenon DEF Dags
  <1>3. /\ f.status = d.status /\ f.readyQ = d.readyQ
        /\ f.counted = d.counted /\ f.done = d.done
    BY <1>0, Zenon DEF Dags
  <1>4. \A m \in Nodes : f.waiting[m] = IF m = c THEN d.waiting[m] \ {n} ELSE d.waiting[m]
    BY <1>0, Zenon DEF Dags
  <1> HIDE DEF w, f
  <1>5. \A m \in Nodes : Parents[m] \ f.waiting[m] \subseteq G
    BY <1>4, Zenon DEF Sound
  <1>6. \A m \in Nodes : d.waiting[m] = {} => f.waiting[m] = {}
    BY <1>4, Zenon
  <1>7. \A i \in 1..Len(d.readyQ) : d.readyQ[i] \in Nodes
    BY <1>0 DEF Dags
  <1>8. f \in Sound(G)
    BY <1>2, <1>3, <1>5, <1>6, <1>7, Zenon DEF Sound
  <1> QED BY <1>3, <1>8, Zenon DEF f, w

\* The node itself is counted, once.
LEMMA CountSound ==
    ASSUME NEW F, NEW d \in Sound(F), NEW n \in Nodes
    PROVE  LET e == [d EXCEPT !.status[n] = "DONE",
                              !.done = IF n \in d.counted THEN @ ELSE @ + 1,
                              !.counted = @ \cup {n}]
           IN  e \in Sound(F \cup {n}) /\ e.status[n] = "DONE"
  <1>0. d \in Dags
    BY SoundIsDag, Zenon
  <1> DEFINE k == IF n \in d.counted THEN d.done ELSE d.done + 1
             C == d.counted \cup {n}
             e == [d EXCEPT !.status[n] = "DONE",
                            !.done = IF n \in d.counted THEN @ ELSE @ + 1,
                            !.counted = @ \cup {n}]
  <1>1. k \in Int /\ C \in SUBSET Nodes /\ "DONE" \in Statuses
    BY <1>0 DEF Dags, Statuses
  <1>2. k = Cardinality(C)
    <2>1. IsFiniteSet(d.counted)
      <3>1. IsFiniteSet(Nodes)
        BY FS_Interval, DagAssumption DEF Nodes
      <3>2. d.counted \subseteq Nodes
        BY <1>0, Zenon DEF Dags
      <3> QED BY <3>1, <3>2, FS_Subset, Zenon
    <2>2. Cardinality(C) = IF n \in d.counted THEN Cardinality(d.counted)
                           ELSE Cardinality(d.counted) + 1
      BY <2>1, FS_AddElement, Zenon
    <2> QED BY <2>2, Zenon DEF Sound
  <1>3. e = [d EXCEPT !.status[n] = "DONE", !.done = k, !.counted = C]
    BY <1>0, Zenon DEF Dags
  <1> HIDE DEF k, C
  <1>4. e \in Dags
    BY <1>0, <1>1, <1>3, Zenon DEF Dags
  <1>5. /\ e.waiting = d.waiting /\ e.readyQ = d.readyQ
        /\ e.counted = C /\ e.done = k
    BY <1>0, <1>3, Zenon DEF Dags
  <1>6. \A m \in Nodes : e.status[m] = IF m = n THEN "DONE" ELSE d.status[m]
    BY <1>0, Zenon DEF Dags
  <1> HIDE DEF e
  <1>7. e \in Sound(F \cup {n})
    BY <1>2, <1>4, <1>5, <1>6, Zenon DEF Sound, C
  <1> QED BY <1>6, <1>7, Zenon DEF e

\* TerminateJob() keeps the object sound, now that n is done.
LEMMA TerminateJobSound ==
    ASSUME NEW F, NEW d \in Sound(F), NEW n \in Nodes, NEW later \in BOOLEAN
    PROVE  /\ TerminateJob(d, n, later) \in Sound(F \cup {n})
           /\ TerminateJob(d, n, later).status[n] = "DONE"
  <1> DEFINE G == F \cup {n}
             S == {e \in Sound(G) : e.status[n] = "DONE"}
             start == [d EXCEPT !.status[n] = "DONE",
                                !.done = IF n \in d.counted THEN @ ELSE @ + 1,
                                !.counted = @ \cup {n}]
             Release(e, c) ==
                LET f == [e EXCEPT !.waiting[c] = @ \ {n}]
                IN  IF f.status[c] = "READY" /\ f.waiting[c] = {} /\ ~later
                    THEN StartNode(f, c) ELSE f
             Step(e, c) == IF c \in Children(n) THEN Release(e, c) ELSE e
             Body(f) == [i \in 0..NumNodes |->
                            IF i = 0 THEN start
                            ELSE CHOOSE y \in {Step(e, i) : e \in {f[i - 1]}} : TRUE]
             L == [p \in S \X (1..NumNodes) |-> Step(p[1], p[2])]
  <1>0. NumNodes \in Nat
    BY DagAssumption
  <1>1. start \in S
    BY CountSound, Zenon
  <1>2. ASSUME NEW e \in S, NEW c \in Nodes PROVE Release(e, c) \in S
    <2> DEFINE f == [e EXCEPT !.waiting[c] = @ \ {n}]
    <2>1. f \in Sound(G) /\ f.status = e.status
      BY ReleaseSound
    <2>2. Release(e, c) \in {f, StartNode(f, c)}
      BY Zenon
    <2> HIDE DEF f, Release
    <2>3. /\ StartNode(f, c) \in Sound(G)
          /\ f.status[n] = "DONE" => StartNode(f, c).status[n] = "DONE"
      BY <2>1, StartNodeSound, Zenon
    <2> QED BY <2>1, <2>2, <2>3, Zenon
  <1>3. \A e \in S, i \in 1..NumNodes : Step(e, i) \in S
    BY <1>2, Zenon DEF Nodes
  <1>4. TerminateJob(d, n, later) = (CHOOSE f : f = Body(f))[NumNodes]
    BY Zenon DEF TerminateJob, ForEach
  <1> HIDE DEF S, start, Step
  <1>5. L \in [S \X (1..NumNodes) -> S] /\ \A e \in S, i \in 1..NumNodes : L[<<e, i>>] = Step(e, i)
    BY <1>3, Zenon
  <1> HIDE DEF L
  <1>6. PICK g : Iterated(g, S, NumNodes, start, L)
    BY <1>0, <1>1, <1>5, Iterates, Zenon
  <1>7. g = Body(g)
    <2>1. \A i \in 1..NumNodes : g[i - 1] \in S
      BY <1>0, <1>6 DEF Iterated
    <2>2. \A i \in 1..NumNodes : {Step(e, i) : e \in {g[i - 1]}} = {g[i]}
      BY <1>5, <1>6, <2>1, Zenon DEF Iterated
    <2>3. \A i \in 1..NumNodes : g[i] = CHOOSE y \in {Step(e, i) : e \in {g[i - 1]}} : TRUE
      BY <2>2, TheOne, Zenon
    <2>4. g = [i \in 0..NumNodes |-> g[i]] /\ g[0] = start
      BY <1>6, Zenon DEF Iterated
    <2>5. \A i \in 0..NumNodes : i # 0 => i \in 1..NumNodes
      BY <1>0
    <2>6. \A i \in 0..NumNodes : g[i] = Body(g)[i]
      BY <2>3, <2>4, <2>5, Zenon
    <2> QED BY <2>4, <2>6, Zenon
  <1>8. PICK f : f = Body(f) /\ TerminateJob(d, n, later) = f[NumNodes]
    BY <1>4, <1>7, Zenon
  <1>9. Stays(f, S, NumNodes)
    <2>1. f[0] = start
      BY <1>0, <1>8
    <2>2. \A i \in 1..NumNodes : {Step(e, i) : e \in {f[i - 1]}} = {Step(f[i - 1], i)}
      BY Zenon
    <2>3. \A i \in 1..NumNodes : f[i] = CHOOSE y \in {Step(e, i) : e \in {f[i - 1]}} : TRUE
      BY <1>8
    <2>4. \A i \in 1..NumNodes : f[i] = Step(f[i - 1], i)
      BY <2>2, <2>3, TheOne, Zenon
    <2> QED BY <1>1, <1>3, <2>1, <2>4, Zenon DEF Stays
  <1>10. f[NumNodes] \in S
    BY <1>0, <1>9, StaysInside, Zenon
  <1> QED BY <1>8, <1>10, Zenon DEF S

-----------------------------------------------------------------------------
\* Events of the job log

\* A method that starts from an object that is sound for F leaves one that is
\* sound for F and the nodes that are done now.
Kept(F, e) == e \in Sound(F \cup Done(e))

\* That is so when nothing is done, ...
LEMMA KeptSame == ASSUME NEW F, NEW e \in Sound(F) PROVE Kept(F, e)
  BY SoundGrows, Zenon DEF Kept

\* ... and when n is.
LEMMA KeptDone ==
    ASSUME NEW F, NEW n \in Nodes, NEW e \in Sound(F \cup {n}), e.status[n] = "DONE"
    PROVE  Kept(F, e)
  BY SoundGrows, Zenon DEF Kept, Done

\* DecrementJobCounts(), ...
LEMMA DecrementSound ==
    ASSUME NEW F, NEW d \in Sound(F), NEW n \in Nodes
    PROVE  DecrementJobCounts(d, n) \in Sound(F)
  <1>0. d \in Dags
    BY SoundIsDag, Zenon
  <1> DEFINE e == [d EXCEPT !.procs[n] = @ - 1]
             f == [e EXCEPT !.jobs = @ - 1]
  <1>1. e \in Dags /\ Alike(d, e)
    <2>1. d.procs[n] - 1 \in Int
      BY <1>0 DEF Dags
    <2> QED BY <1>0, <2>1, Zenon DEF Dags, Alike
  <1>2. DecrementJobCounts(d, n) \in {Except(d), e, f}
    BY Zenon DEF DecrementJobCounts
  <1> HIDE DEF e
  <1>3. f \in Dags /\ Alike(e, f)
    <2>1. e.jobs - 1 \in Int
      BY <1>1 DEF Dags
    <2> QED BY <1>1, <2>1, Zenon DEF Dags, Alike
  <1> HIDE DEF f
  <1>4. e \in Sound(F)
    BY <1>1, AlikeSound, Zenon
  <1> QED BY <1>2, <1>3, <1>4, AlikeSound, ExceptSound, Zenon

\* ... the check of the idle jobs, ...
LEMMA CheckIdleSound == ASSUME NEW F, NEW d \in Sound(F) PROVE CheckIdle(d) \in Sound(F)
  <1>0. d \in Dags
    BY SoundIsDag, Zenon
  <1> DEFINE e == [d EXCEPT !.idleProcs = 0]
  <1>1. e \in Dags /\ Alike(d, e)
    <2>1. 0 \in Int
      OBVIOUS
    <2> QED BY <1>0, <2>1, Zenon DEF Dags, Alike
  <1>2. CheckIdle(d) \in {d, e}
    BY Zenon DEF CheckIdle
  <1> HIDE DEF e
  <1> QED BY <1>1, <1>2, AlikeSound, Zenon

\* ... and the events that a job is idle, or no longer is, change counters.
LEMMA IsIdleSound ==
    ASSUME NEW F, NEW d \in Sound(F), NEW n \in Nodes
    PROVE  ProcessIsIdleEvent(d, n) \in Sound(F)
  <1>0. d \in Dags
    BY SoundIsDag, Zenon
  <1> DEFINE e == [d EXCEPT !.idle = @ \cup {n}, !.idleProcs = @ + 1]
  <1>1. e \in Dags /\ Alike(d, e)
    <2>1. d.idle \cup {n} \in SUBSET Nodes /\ d.idleProcs + 1 \in Int
      BY <1>0 DEF Dags
    <2> QED BY <1>0, <2>1, Zenon DEF Dags, Alike
  <1>2. ProcessIsIdleEvent(d, n) \in {CheckIdle(d), CheckIdle(e)}
    BY Zenon DEF ProcessIsIdleEvent
  <1> HIDE DEF e
  <1> QED BY <1>1, <1>2, AlikeSound, CheckIdleSound, Zenon

\* The same for ProcessNotIdleEvent().
LEMMA NotIdleSound ==
    ASSUME NEW F, NEW d \in Sound(F), NEW n \in Nodes
    PROVE  ProcessNotIdleEvent(d, n) \in Sound(F)
  <1>0. d \in Dags
    BY SoundIsDag, Zenon
  <1> DEFINE e == [d EXCEPT !.idle = @ \ {n}, !.idleProcs = @ - 1]
  <1>1. e \in Dags /\ Alike(d, e)
    <2>1. d.idle \ {n} \in SUBSET Nodes /\ d.idleProcs - 1 \in Int
      BY <1>0 DEF Dags
    <2> QED BY <1>0, <2>1, Zenon DEF Dags, Alike
  <1>2. ProcessNotIdleEvent(d, n) \in {CheckIdle(d), CheckIdle(e)}
    BY Zenon DEF ProcessNotIdleEvent
  <1> HIDE DEF e
  <1> QED BY <1>1, <1>2, AlikeSound, CheckIdleSound, Zenon

\* ProcessJobProcEnd(): the node may be restarted, get its POST script, fail,
\* or be done.
LEMMA ProcEndKept ==
    ASSUME NEW F, NEW d \in Sound(F), NEW n \in Nodes,
           NEW recovery \in BOOLEAN, NEW failed \in BOOLEAN
    PROVE  Kept(F, ProcessJobProcEnd(d, n, recovery, failed))
  <1>0. d \in Dags
    BY SoundIsDag, Zenon
  <1> DEFINE e == [d EXCEPT !.failed = @ + 1]
             f == [d EXCEPT !.status[n] = "POSTRUN", !.postRun = @ + 1]
  <1>1. e \in Dags /\ Alike(d, e)
    <2>1. d.failed + 1 \in Int
      BY <1>0 DEF Dags
    <2> QED BY <1>0, <2>1, Zenon DEF Dags, Alike
  <1>2. f \in Dags
    <2>1. d.postRun + 1 \in Int /\ "POSTRUN" \in Statuses
      BY <1>0 DEF Dags, Statuses
    <2> QED BY <1>0, <2>1, Zenon DEF Dags
  <1>3. Alike(d, f)
    BY <1>0, Zenon DEF Dags, Alike
  <1>4. ProcessJobProcEnd(d, n, recovery, failed) \in
           {RestartNode(d, n, recovery), e, d, f, RunPostScript(d, n),
            TerminateJob(d, n, recovery)}
    BY Zenon DEF ProcessJobProcEnd
  <1> HIDE DEF e, f
  <1>5. e \in Sound(F) /\ f \in Sound(F)
    BY <1>1, <1>2, <1>3, AlikeSound, Zenon
  <1>6. RestartNode(d, n, recovery) \in Sound(F) /\ RunPostScript(d, n) \in Sound(F)
    BY RestartNodeSound, RunPostScriptSound, Zenon
  <1>7. Kept(F, TerminateJob(d, n, recovery))
    BY TerminateJobSound, KeptDone, Zenon
  <1> QED BY <1>4, <1>5, <1>6, <1>7, KeptSame, Zenon

\* The end of a job.
LEMMA EndEventKept ==
    ASSUME NEW F, NEW d \in Sound(F), NEW n \in Nodes,
           NEW recovery \in BOOLEAN, NEW ok \in BOOLEAN
    PROVE  Kept(F, ProcessEndEvent(d, n, recovery, ok))
  <1> DEFINE e == DecrementJobCounts(ProcessNotIdleEvent(d, n), n)
             f == IF FailsFirst(e, n, ok) THEN [e EXCEPT !.status[n] = "ERROR"] ELSE e
  <1>1. e \in Sound(F)
    BY NotIdleSound, DecrementSound, Zenon
  <1>2. ProcessEndEvent(d, n, recovery, ok) \in {e, ProcessJobProcEnd(f, n, recovery, ~ok)}
    BY Zenon DEF ProcessEndEvent
  <1> HIDE DEF e
  <1>3. f \in Sound(F)
    BY <1>1, StatusSound, Zenon DEF Statuses
  <1> HIDE DEF f
  <1>4. (~ok) \in BOOLEAN
    BY Zenon
  <1> QED BY <1>1, <1>2, <1>3, <1>4, KeptSame, ProcEndKept, Zenon

\* The end of a POST script.
LEMMA PostTermKept ==
    ASSUME NEW F, NEW d \in Sound(F), NEW n \in Nodes,
           NEW recovery \in BOOLEAN, NEW ok \in BOOLEAN
    PROVE  Kept(F, ProcessPostTermEvent(d, n, recovery, ok))
  <1>0. d \in Dags
    BY SoundIsDag, Zenon
  <1> DEFINE f == [d EXCEPT !.postRun = @ - 1]
             e == IF d.status[n] = "POSTRUN" THEN f ELSE d
  <1>1. f \in Dags /\ Alike(d, f)
    <2>1. d.postRun - 1 \in Int
      BY <1>0 DEF Dags
    <2> QED BY <1>0, <2>1, Zenon DEF Dags, Alike
  <1>2. ProcessPostTermEvent(d, n, recovery, ok) \in
            {Except(d), TerminateJob(e, n, recovery), FailNode(e, n, recovery)}
    BY Zenon DEF ProcessPostTermEvent
  <1> HIDE DEF f
  <1>3. e \in Sound(F)
    BY <1>1, AlikeSound, Zenon
  <1> HIDE DEF e
  <1>4. Kept(F, TerminateJob(e, n, recovery))
    BY <1>3, TerminateJobSound, KeptDone, Zenon
  <1>5. FailNode(e, n, recovery) \in Sound(F) /\ Except(d) \in Sound(F)
    BY <1>3, FailNodeSound, ExceptSound, Zenon
  <1> QED BY <1>2, <1>4, <1>5, KeptSame, Zenon

\* A node gets a CondorID.
LEMMA IdentifySound ==
    ASSUME NEW F, NEW d \in Sound(F), NEW n \in Nodes, NEW id \in Int
    PROVE  Identify(d, n, id) \in Sound(F)
  <1>0. d \in Dags
    BY SoundIsDag, Zenon
  <1> DEFINE e == [d EXCEPT !.id[n] = id, !.hash = @ \cup {<<id, n>>}]
  <1>1. e \in Dags /\ Alike(d, e)
    <2>1. d.hash \cup {<<id, n>>} \in SUBSET (Int \X Nodes)
      BY <1>0 DEF Dags
    <2> QED BY <1>0, <2>1, Zenon DEF Dags, Alike
  <1>2. Identify(d, n, id) \in {Except(d), e}
    BY Zenon DEF Identify
  <1> HIDE DEF e
  <1> QED BY <1>1, <1>2, AlikeSound, ExceptSound, Zenon

\* The submission of a job.
LEMMA SubmitEventSound ==
    ASSUME NEW F, NEW d \in Sound(F), NEW n \in Nodes, NEW id \in Int,
           NEW recovery \in BOOLEAN
    PROVE  ProcessSubmitEvent(d, n, id, recovery) \in Sound(F)
  <1> DEFINE c == Identify(d, n, id)
             e == [c EXCEPT !.procs[n] = @ + 1]
             j == IF e.procs[n] = 1 THEN e.jobs + 1 ELSE e.jobs
             f == [e EXCEPT !.jobs = IF e.procs[n] = 1 THEN @ + 1 ELSE @,
                            !.status[n] = "SUBMITTED"]
  <1>1. c \in Sound(F)
    BY IdentifySound, Zenon
  <1>2. ProcessSubmitEvent(d, n, id, recovery) \in
            {ProcessIsIdleEvent(e, n), ProcessIsIdleEvent(f, n)}
    BY Zenon DEF ProcessSubmitEvent
  <1> HIDE DEF c
  <1>3. c \in Dags
    BY <1>1, SoundIsDag, Zenon
  <1>4. e \in Dags /\ Alike(c, e)
    <2>1. c.procs[n] + 1 \in Int
      BY <1>3 DEF Dags
    <2> QED BY <1>3, <2>1, Zenon DEF Dags, Alike
  <1> HIDE DEF e
  <1>5. f \in Dags
    <2>1. j \in Int /\ "SUBMITTED" \in Statuses
      BY <1>4 DEF Dags, Statuses
    <2>2. f = [e EXCEPT !.jobs = j, !.status[n] = "SUBMITTED"]
      BY Zenon
    <2> HIDE DEF j
    <2> QED BY <1>4, <2>1, <2>2, Zenon DEF Dags
  <1>6. Alike(e, f)
    BY <1>4, Zenon DEF Dags, Alike
  <1> HIDE DEF f
  <1>7. e \in Sound(F)
    BY <1>1, <1>4, AlikeSound, Zenon
  <1>8. f \in Sound(F)
    BY <1>5, <1>6, <1>7, AlikeSound, Zenon
  <1> QED BY <1>2, <1>7, <1>8, IsIdleSound, Zenon

\* A skipped node is done.
LEMMA PreSkipKept ==
    ASSUME NEW F, NEW d \in Sound(F), NEW n \in Nodes, NEW id \in Int,
           NEW recovery \in BOOLEAN
    PROVE  Kept(F, ProcessPreSkipEvent(d, n, id, recovery))
  <1> DEFINE c == Identify(d, n, id)
             e == TerminateJob(c, n, recovery)
             f == [e EXCEPT !.preRun = @ - 1]
  <1>1. e \in Sound(F \cup {n}) /\ e.status[n] = "DONE"
    <2>1. c \in Sound(F)
      BY IdentifySound, Zenon
    <2> HIDE DEF c
    <2> QED BY <2>1, TerminateJobSound, Zenon
  <1>2. ProcessPreSkipEvent(d, n, id, recovery) \in {e, f}
    BY Zenon DEF ProcessPreSkipEvent
  <1> HIDE DEF e
  <1>3. e \in Dags
    BY <1>1, SoundIsDag, Zenon
  <1>4. f \in Dags /\ Alike(e, f) /\ f.status = e.status
    <2>1. e.preRun - 1 \in Int
      BY <1>3 DEF Dags
    <2> QED BY <1>3, <2>1, Zenon DEF Dags, Alike
  <1> HIDE DEF f
  <1>5. f \in Sound(F \cup {n}) /\ f.status[n] = "DONE"
    BY <1>1, <1>4, AlikeSound, Zenon
  <1> QED BY <1>1, <1>2, <1>5, KeptDone, Zenon

-----------------------------------------------------------------------------
\* Reapers and submission

\* The end of a PRE script: a node whose script ran waits for nobody, so it may
\* be queued.
LEMMA PreReaperSound ==
    ASSUME NEW F, NEW d \in Sound(F), NEW n \in Nodes, NEW result \in {"ok", "fail", "skip"}
    PROVE  PreScriptReaper(d, n, result) \in Sound(F)
  <1>0. d \in Dags
    BY SoundIsDag, Zenon
  <1> DEFINE e == [d EXCEPT !.running["PRE"] = @ \ {n}, !.preDone = @ \cup {n},
                            !.preRun = @ - 1]
             f == [e EXCEPT !.fakeID = @ + 1, !.id[n] = -(d.fakeID + 1), !.preRun = @ + 1]
             g == [e EXCEPT !.status[n] = "READY"]
             h == [e EXCEPT !.status[n] = "READY", !.readyQ = Append(@, n)]
  <1>1. e \in Dags /\ Alike(d, e)
    <2>1. /\ d.running["PRE"] \ {n} \in SUBSET Nodes /\ d.preDone \cup {n} \in SUBSET Nodes
          /\ d.preRun - 1 \in Int
      BY <1>0 DEF Dags, Scripts
    <2> QED BY <1>0, <2>1, Zenon DEF Dags, Alike
  <1>2. \/ PreScriptReaper(d, n, result) \in
                {RunWaitingScript(x, "PRE") :
                    x \in {Except(d), f, RunPostScript(e, n), FailNode(e, n, FALSE)}}
        \/ PreScriptReaper(d, n, result) = RunWaitingScript(h, "PRE") /\ d.status[n] = "PRERUN"
    BY Zenon DEF PreScriptReaper
  <1> HIDE DEF e
  <1>3. e \in Sound(F)
    BY <1>1, AlikeSound, Zenon
  <1>4. f \in Sound(F)
    <2>1. e.fakeID + 1 \in Int /\ -(d.fakeID + 1) \in Int /\ e.preRun + 1 \in Int
      BY <1>0, <1>1, Fields
    <2>2. f \in Dags /\ Alike(e, f)
      BY <1>1, <2>1, Zenon DEF Dags, Alike
    <2> HIDE DEF f
    <2> QED BY <1>3, <2>2, AlikeSound, Zenon
  <1>5. CASE d.status[n] = "PRERUN"
    <2>1. g \in Sound(F)
      BY <1>3, StatusSound, Zenon DEF Statuses
    <2>2. g.waiting[n] = {}
      <3>1. d.waiting[n] = {}
        BY <1>5, Zenon DEF Sound
      <3>2. g.waiting = e.waiting
        BY <1>1, Zenon DEF Dags
      <3> QED BY <1>1, <3>1, <3>2, Zenon DEF Alike
    <2>3. h = [g EXCEPT !.readyQ = Append(@, n)]
      BY Zenon
    <2> HIDE DEF g, h
    <2>4. h \in Sound(F)
      BY <2>1, <2>2, <2>3, QueueSound, Zenon
    <2> HIDE DEF f
    <2>5. /\ Except(d) \in Sound(F) /\ RunPostScript(e, n) \in Sound(F)
          /\ FailNode(e, n, FALSE) \in Sound(F)
      BY <1>3, ExceptSound, RunPostScriptSound, FailNodeSound, Zenon
    <2> QED BY <1>2, <1>4, <2>4, <2>5, RunWaitingScriptSound, Zenon DEF Scripts
  <1>6. CASE d.status[n] # "PRERUN"
    <2> HIDE DEF f, g, h
    <2>5. /\ Except(d) \in Sound(F) /\ RunPostScript(e, n) \in Sound(F)
          /\ FailNode(e, n, FALSE) \in Sound(F)
      BY <1>3, ExceptSound, RunPostScriptSound, FailNodeSound, Zenon
    <2> QED BY <1>2, <1>4, <1>6, <2>5, RunWaitingScriptSound, Zenon DEF Scripts
  <1> QED BY <1>5, <1>6, Zenon

\* The end of a POST script.
LEMMA PostReaperSound ==
    ASSUME NEW F, NEW d \in Sound(F), NEW n \in Nodes
    PROVE  PostScriptReaper(d, n) \in Sound(F)
  <1>0. d \in Dags
    BY SoundIsDag, Zenon
  <1> DEFINE e == [d EXCEPT !.running["POST"] = @ \ {n}]
  <1>1. e \in Dags /\ Alike(d, e)
    <2>1. d.running["POST"] \ {n} \in SUBSET Nodes
      BY <1>0, Zenon DEF Dags, Scripts
    <2> QED BY <1>0, <2>1, Zenon DEF Dags, Alike
  <1>2. PostScriptReaper(d, n) \in {Except(d), RunWaitingScript(e, "POST")}
    BY Zenon DEF PostScriptReaper
  <1> HIDE DEF e
  <1>3. e \in Sound(F)
    BY <1>1, AlikeSound, Zenon
  <1> QED BY <1>2, <1>3, ExceptSound, RunWaitingScriptSound, Zenon DEF Scripts

\* The node at the head of the ready queue waits for nobody, also when it is put
\* back after a failed submission.
LEMMA DequeueSound ==
    ASSUME NEW F, NEW d \in Sound(F), d.readyQ # << >>
    PROVE  /\ Head(d.readyQ) \in Nodes /\ d.waiting[Head(d.readyQ)] = {}
           /\ Dequeue(d) \in Sound(F) /\ Dequeue(d).waiting = d.waiting
  <1>0. d \in Dags
    BY SoundIsDag, Zenon
  <1> DEFINE n == Head(d.readyQ)
             q == Tail(d.readyQ)
             e == [d EXCEPT !.readyQ = Tail(@), !.tries[n] = @ + 1,
                            !.hash = @ \ {<<d.id[n], n>>}, !.id[n] = NoID]
  <1>1. /\ d.readyQ \in Seq(Nodes) /\ n = d.readyQ[1] /\ 1 \in 1..Len(d.readyQ)
        /\ n \in Nodes /\ q \in Seq(Nodes)
        /\ \A i \in 1..Len(q) : i + 1 \in 1..Len(d.readyQ) /\ q[i] = d.readyQ[i + 1]
    BY <1>0 DEF Dags
  <1>2. d.waiting[n] = {} /\ \A i \in 1..Len(q) : d.waiting[q[i]] = {}
    BY <1>1, Zenon DEF Sound
  <1>3. Dequeue(d) \in {Except(d), e}
    BY Zenon DEF Dequeue
  <1>4. e = [d EXCEPT !.readyQ = q, !.tries[n] = @ + 1,
                      !.hash = @ \ {<<d.id[n], n>>}, !.id[n] = NoID]
    BY Zenon
  <1> HIDE DEF n, q
  <1>5. e \in Dags /\ e.status = d.status /\ e.waiting = d.waiting
        /\ e.counted = d.counted /\ e.done = d.done /\ e.readyQ = q
    <2>1. /\ d.tries[n] + 1 \in Int /\ d.hash \ {<<d.id[n], n>>} \in SUBSET (Int \X Nodes)
          /\ NoID \in Int
      BY <1>0, <1>1, Fields DEF NoID
    <2>2. e \in Dags
      BY <1>0, <1>1, <1>4, <2>1, Zenon DEF Dags
    <2>3. e.status = d.status /\ e.waiting = d.waiting
          /\ e.counted = d.counted /\ e.done = d.done /\ e.readyQ = q
      BY <1>0, <1>4, Zenon DEF Dags
    <2> QED BY <2>2, <2>3, Zenon
  <1> HIDE DEF e
  <1>6. e \in Sound(F)
    BY <1>2, <1>5, Zenon DEF Sound
  <1>7. Except(d) \in Sound(F) /\ Except(d).waiting = d.waiting
    <2>1. Except(d).waiting = d.waiting
      BY <1>0, Zenon DEF Except, Dags
    <2> QED BY <2>1, ExceptSound, Zenon
  <1> QED BY <1>1, <1>2, <1>3, <1>5, <1>6, <1>7, Zenon DEF n

\* A successful submission, ...
LEMMA SuccessfulSubmitSound ==
    ASSUME NEW F, NEW d \in Sound(F), NEW n \in Nodes, NEW c \in Int
    PROVE  ProcessSuccessfulSubmit(d, n, c) \in Sound(F)
  <1>0. d \in Dags
    BY SoundIsDag, Zenon
  <1> DEFINE e == ProcessSuccessfulSubmit(d, n, c)
  <1>1. e \in Dags
    <2>1. /\ "SUBMITTED" \in Statuses /\ d.jobs + 1 \in Int
          /\ d.hash \cup {<<c, n>>} \in SUBSET (Int \X Nodes)
      BY <1>0 DEF Dags, Statuses
    <2> QED BY <1>0, <2>1, Zenon DEF Dags, ProcessSuccessfulSubmit
  <1>2. Alike(d, e)
    BY <1>0, Zenon DEF Dags, Alike, ProcessSuccessfulSubmit
  <1> QED BY <1>1, <1>2, AlikeSound, Zenon

\* ... and one that failed.
LEMMA FailedSubmitSound ==
    ASSUME NEW F, NEW d \in Sound(F), NEW n \in Nodes, d.waiting[n] = {}
    PROVE  ProcessFailedSubmit(d, n) \in Sound(F)
  <1>0. d \in Dags
    BY SoundIsDag, Zenon
  <1> DEFINE e == [d EXCEPT !.retries[n] = RetryMax[n]]
             q == <<n>> \o d.readyQ
             f == [d EXCEPT !.readyQ = q]
  <1>1. e \in Dags /\ Alike(d, e)
    <2>1. RetryMax[n] \in Int
      BY DagAssumption
    <2> QED BY <1>0, <2>1, Zenon DEF Dags, Alike
  <1>2. ProcessFailedSubmit(d, n) \in {f, RunPostScript(e, n), FailNode(e, n, FALSE)}
    BY Zenon DEF ProcessFailedSubmit
  <1>3. /\ q \in Seq(Nodes) /\ q[1] = n
        /\ \A i \in 1..Len(q) : i # 1 => i - 1 \in 1..Len(d.readyQ) /\ q[i] = d.readyQ[i - 1]
    <2>1. d.readyQ \in Seq(Nodes)
      BY <1>0, Fields, Zenon
    <2> QED BY <2>1
  <1>4. \A i \in 1..Len(q) : d.waiting[q[i]] = {}
    BY <1>3, Zenon DEF Sound
  <1> HIDE DEF e, q
  <1>5. /\ f \in Dags /\ f.status = d.status /\ f.waiting = d.waiting
        /\ f.counted = d.counted /\ f.done = d.done /\ f.readyQ = q
    BY <1>0, <1>3, Zenon DEF Dags
  <1> HIDE DEF f
  <1>6. f \in Sound(F)
    BY <1>4, <1>5, Zenon DEF Sound
  <1>7. e \in Sound(F)
    BY <1>1, AlikeSound, Zenon
  <1> QED BY <1>2, <1>6, <1>7, RunPostScriptSound, FailNodeSound, Zenon

-----------------------------------------------------------------------------
\* Bootstrap

\* The nodes that are ready start.
LEMMA StartReadySound ==
    ASSUME NEW F, NEW d \in Sound(F)
    PROVE  StartReadyNodes(d) \in Sound(F)
  <1> DEFINE S == Sound(F)
             start == d
             Start(e, n) == IF e.status[n] = "READY" /\ e.waiting[n] = {}
                            THEN StartNode(e, n) ELSE e
             Step(e, n) == IF n \in Nodes THEN Start(e, n) ELSE e
             Body(f) == [i \in 0..NumNodes |->
                            IF i = 0 THEN start
                            ELSE CHOOSE y \in {Step(e, i) : e \in {f[i - 1]}} : TRUE]
             L == [p \in S \X (1..NumNodes) |-> Step(p[1], p[2])]
  <1>0. NumNodes \in Nat
    BY DagAssumption, Zenon
  <1>1. start \in S
    BY Zenon
  <1>3. \A e \in S, i \in 1..NumNodes : Step(e, i) \in S
    BY StartNodeSound, Zenon DEF Nodes
  <1>4. StartReadyNodes(d) = (CHOOSE f : f = Body(f))[NumNodes]
    BY Zenon DEF StartReadyNodes, ForEach
  <1> HIDE DEF S, start, Step
  <1>5. L \in [S \X (1..NumNodes) -> S] /\ \A e \in S, i \in 1..NumNodes : L[<<e, i>>] = Step(e, i)
    BY <1>3, Zenon
  <1> HIDE DEF L
  <1>6. PICK g : Iterated(g, S, NumNodes, start, L)
    BY <1>0, <1>1, <1>5, Iterates, Zenon
  <1>7. g = Body(g)
    <2>1. \A i \in 1..NumNodes : g[i - 1] \in S
      BY <1>0, <1>6 DEF Iterated
    <2>2. \A i \in 1..NumNodes : {Step(e, i) : e \in {g[i - 1]}} = {g[i]}
      BY <1>5, <1>6, <2>1, Zenon DEF Iterated
    <2>3. \A i \in 1..NumNodes : g[i] = CHOOSE y \in {Step(e, i) : e \in {g[i - 1]}} : TRUE
      BY <2>2, TheOne, Zenon
    <2>4. g = [i \in 0..NumNodes |-> g[i]] /\ g[0] = start
      BY <1>6, Zenon DEF Iterated
    <2>5. \A i \in 0..NumNodes : i # 0 => i \in 1..NumNodes
      BY <1>0
    <2>6. \A i \in 0..NumNodes : g[i] = Body(g)[i]
      BY <2>3, <2>4, <2>5, Zenon
    <2> QED BY <2>4, <2>6, Zenon
  <1>8. PICK f : f = Body(f) /\ StartReadyNodes(d) = f[NumNodes]
    BY <1>4, <1>7, Zenon
  <1>9. Stays(f, S, NumNodes)
    <2>1. f[0] = start
      BY <1>0, <1>8
    <2>2. \A i \in 1..NumNodes : {Step(e, i) : e \in {f[i - 1]}} = {Step(f[i - 1], i)}
      BY Zenon
    <2>3. \A i \in 1..NumNodes : f[i] = CHOOSE y \in {Step(e, i) : e \in {f[i - 1]}} : TRUE
      BY <1>8
    <2>4. \A i \in 1..NumNodes : f[i] = Step(f[i - 1], i)
      BY <2>2, <2>3, TheOne, Zenon
    <2> QED BY <1>1, <1>3, <2>1, <2>4, Zenon DEF Stays
  <1>10. f[NumNodes] \in S
    BY <1>0, <1>9, StaysInside, Zenon
  <1> QED BY <1>8, <1>10, Zenon DEF S

\* After the nodes marked DONE have released their children, the object is
\* sound: nothing but them is done.
LEMMA PreCompletedSound == PreCompleted \in Sound(PreDone)
  <1> DEFINE S == Sound(PreDone)
             start == NewDag
             Step(e, n) == IF n \in PreDone THEN TerminateJob(e, n, TRUE) ELSE e
             Body(f) == [i \in 0..NumNodes |->
                            IF i = 0 THEN start
                            ELSE CHOOSE y \in {Step(e, i) : e \in {f[i - 1]}} : TRUE]
             L == [p \in S \X (1..NumNodes) |-> Step(p[1], p[2])]
  <1>0. NumNodes \in Nat
    BY DagAssumption, Zenon
  <1>1. start \in S
    <2>1. NewDag \in Dags
      BY DagAssumption DEF NewDag, Dags, Statuses, Scripts, NoID
    <2>2. \A n \in Nodes : Parents[n] \ NewDag.waiting[n] = {} /\ NewDag.status[n] # "PRERUN"
      BY Zenon DEF NewDag
    <2>3. NewDag.readyQ = << >> /\ NewDag.counted = {} /\ NewDag.done = Cardinality(NewDag.counted)
      BY FS_EmptySet, Zenon DEF NewDag
    <2>4. /\ \A i \in 1..Len(NewDag.readyQ) : NewDag.waiting[NewDag.readyQ[i]] = {}
          /\ \A n \in Nodes : Parents[n] \ NewDag.waiting[n] \subseteq PreDone
          /\ NewDag.counted \subseteq PreDone
      BY <2>2, <2>3
    <2> QED BY <2>1, <2>2, <2>3, <2>4, Zenon DEF Sound
  <1>3. \A e \in S, i \in 1..NumNodes : Step(e, i) \in S
    <2> SUFFICES ASSUME NEW e \in S, NEW i \in Nodes, i \in PreDone
                 PROVE  TerminateJob(e, i, TRUE) \in S
      BY Zenon DEF Nodes
    <2>1. TerminateJob(e, i, TRUE) \in Sound(PreDone \cup {i})
      BY TerminateJobSound, Zenon
    <2>2. PreDone \cup {i} = PreDone
      BY Zenon
    <2> QED BY <2>1, <2>2, Zenon
  <1>4. PreCompleted = (CHOOSE f : f = Body(f))[NumNodes]
    BY Zenon DEF PreCompleted, ForEach
  <1> HIDE DEF S, start, Step
  <1>5. L \in [S \X (1..NumNodes) -> S] /\ \A e \in S, i \in 1..NumNodes : L[<<e, i>>] = Step(e, i)
    BY <1>3, Zenon
  <1> HIDE DEF L
  <1>6. PICK g : Iterated(g, S, NumNodes, start, L)
    BY <1>0, <1>1, <1>5, Iterates, Zenon
  <1>7. g = Body(g)
    <2>1. \A i \in 1..NumNodes : g[i - 1] \in S
      BY <1>0, <1>6 DEF Iterated
    <2>2. \A i \in 1..NumNodes : {Step(e, i) : e \in {g[i - 1]}} = {g[i]}
      BY <1>5, <1>6, <2>1, Zenon DEF Iterated
    <2>3. \A i \in 1..NumNodes : g[i] = CHOOSE y \in {Step(e, i) : e \in {g[i - 1]}} : TRUE
      BY <2>2, TheOne, Zenon
    <2>4. g = [i \in 0..NumNodes |-> g[i]] /\ g[0] = start
      BY <1>6, Zenon DEF Iterated
    <2>5. \A i \in 0..NumNodes : i # 0 => i \in 1..NumNodes
      BY <1>0
    <2>6. \A i \in 0..NumNodes : g[i] = Body(g)[i]
      BY <2>3, <2>4, <2>5, Zenon
    <2> QED BY <2>4, <2>6, Zenon
  <1>8. PICK f : f = Body(f) /\ PreCompleted = f[NumNodes]
    BY <1>4, <1>7, Zenon
  <1>9. Stays(f, S, NumNodes)
    <2>1. f[0] = start
      BY <1>0, <1>8
    <2>2. \A i \in 1..NumNodes : {Step(e, i) : e \in {f[i - 1]}} = {Step(f[i - 1], i)}
      BY Zenon
    <2>3. \A i \in 1..NumNodes : f[i] = CHOOSE y \in {Step(e, i) : e \in {f[i - 1]}} : TRUE
      BY <1>8
    <2>4. \A i \in 1..NumNodes : f[i] = Step(f[i - 1], i)
      BY <2>2, <2>3, TheOne, Zenon
    <2> QED BY <1>1, <1>3, <2>1, <2>4, Zenon DEF Stays
  <1>10. f[NumNodes] \in S
    BY <1>0, <1>9, StaysInside, Zenon
  <1> QED BY <1>8, <1>10, Zenon DEF S

\* The end of recovery.
LEMMA FinishRecoverySound ==
    ASSUME NEW F, NEW d \in Sound(F)
    PROVE  FinishRecovery(d) \in Sound(F)
  <1> DEFINE S == Sound(F)
             start == [d EXCEPT !.fakeID = 0]
             Post(e, n) == IF e.status[n] = "POSTRUN" THEN RunScript(e, "POST", n) ELSE e
             Step(e, n) == IF n \in Nodes THEN Post(e, n) ELSE e
             Body(f) == [i \in 0..NumNodes |->
                            IF i = 0 THEN start
                            ELSE CHOOSE y \in {Step(e, i) : e \in {f[i - 1]}} : TRUE]
             L == [p \in S \X (1..NumNodes) |-> Step(p[1], p[2])]
             Posted == (CHOOSE f : f = Body(f))[NumNodes]
  <1>0. NumNodes \in Nat
    BY DagAssumption, Zenon
  <1>1. start \in S
    <2>1. d \in Dags /\ 0 \in Int
      BY SoundIsDag
    <2>2. start \in Dags /\ Alike(d, start)
      BY <2>1, Zenon DEF Dags, Alike
    <2> HIDE DEF start
    <2> QED BY <2>2, AlikeSound, Zenon
  <1>3. \A e \in S, i \in 1..NumNodes : Step(e, i) \in S
    BY RunScriptSound, Zenon DEF Nodes, Scripts
  <1>4. FinishRecovery(d) = StartReadyNodes(Posted)
    BY DEF FinishRecovery, ForEach
  <1> HIDE DEF S, start, Step
  <1>5. L \in [S \X (1..NumNodes) -> S] /\ \A e \in S, i \in 1..NumNodes : L[<<e, i>>] = Step(e, i)
    BY <1>3, Zenon
  <1> HIDE DEF L
  <1>6. PICK g : Iterated(g, S, NumNodes, start, L)
    BY <1>0, <1>1, <1>5, Iterates, Zenon
  <1>7. g = Body(g)
    <2>1. \A i \in 1..NumNodes : g[i - 1] \in S
      BY <1>0, <1>6 DEF Iterated
    <2>2. \A i \in 1..NumNodes : {Step(e, i) : e \in {g[i - 1]}} = {g[i]}
      BY <1>5, <1>6, <2>1, Zenon DEF Iterated
    <2>3. \A i \in 1..NumNodes : g[i] = CHOOSE y \in {Step(e, i) : e \in {g[i - 1]}} : TRUE
      BY <2>2, TheOne, Zenon
    <2>4. g = [i \in 0..NumNodes |-> g[i]] /\ g[0] = start
      BY <1>6, Zenon DEF Iterated
    <2>5. \A i \in 0..NumNodes : i # 0 => i \in 1..NumNodes
      BY <1>0
    <2>6. \A i \in 0..NumNodes : g[i] = Body(g)[i]
      BY <2>3, <2>4, <2>5, Zenon
    <2> QED BY <2>4, <2>6, Zenon
  <1>8. PICK f : f = Body(f) /\ Posted = f[NumNodes]
    BY <1>7, Zenon
  <1>9. Stays(f, S, NumNodes)
    <2>1. f[0] = start
      BY <1>0, <1>8
    <2>2. \A i \in 1..NumNodes : {Step(e, i) : e \in {f[i - 1]}} = {Step(f[i - 1], i)}
      BY Zenon
    <2>3. \A i \in 1..NumNodes : f[i] = CHOOSE y \in {Step(e, i) : e \in {f[i - 1]}} : TRUE
      BY <1>8
    <2>4. \A i \in 1..NumNodes : f[i] = Step(f[i - 1], i)
      BY <2>2, <2>3, TheOne, Zenon
    <2> QED BY <1>1, <1>3, <2>1, <2>4, Zenon DEF Stays
  <1>10. f[NumNodes] \in S
    BY <1>0, <1>9, StaysInside, Zenon
  <1> QED BY <1>4, <1>8, <1>10, StartReadySound DEF S

-----------------------------------------------------------------------------
\* The actions keep the invariant

\* What Becomes() does to the objects and to the nodes that are done.
LEMMA BecomesSound ==
    ASSUME IInv, NEW d, Kept(finished, d), Becomes(d)
    PROVE  /\ dag' \in Sound(finished') /\ dag' \in Dags
           /\ finished' \in SUBSET Nodes /\ finished \subseteq finished'
           /\ PreDone \subseteq finished'
  <1>1. dag' = d /\ finished' = finished \cup Done(d)
    BY Zenon DEF Becomes, Done
  <1>2. dag' \in Sound(finished')
    BY <1>1, Zenon DEF Kept
  <1>3. Done(d) \subseteq Nodes
    BY Zenon DEF Done
  <1> QED BY <1>1, <1>2, <1>3, SoundIsDag, Zenon DEF IInv, TypeOK

\* The queue grows by no cluster: the parents of its nodes stay done.
LEMMA SameQueue ==
    ASSUME ParentsFirst, finished \subseteq finished', UNCHANGED queue
    PROVE  ParentsFirst'
  BY Zenon DEF ParentsFirst

\* Events that are written are events.
LEMMA WriteType ==
    ASSUME NEW type \in {"SUBMIT", "EXECUTE", "EVICTED", "END", "POST", "PRESKIP"},
           NEW id \in Int, NEW proc \in Nat, NEW node \in Nodes, NEW ok \in BOOLEAN,
           log \in Seq(Events)
    PROVE  Write(type, id, proc, node, ok) \in Seq(Events)
  <1> DEFINE e == [type |-> type, id |-> id, proc |-> proc, node |-> node, ok |-> ok]
  <1>1. e \in Events
    BY Zenon DEF Events
  <1>2. Write(type, id, proc, node, ok) = Append(log, e)
    BY Zenon DEF Write
  <1> HIDE DEF e
  <1> QED BY <1>1, <1>2

\* The start of condor_dagman.
LEMMA Initial == Init => IInv
  <1> SUFFICES ASSUME Init PROVE IInv
    BY Zenon
  <1>1. dag \in Sound(finished)
    BY PreCompletedSound, StartReadySound, Zenon DEF Init
  <1>2. dag \in Dags
    BY <1>1, SoundIsDag, Zenon
  <1>3. log \in Seq(Events) /\ pos \in Nat /\ queue \in Seq(Clusters) /\ DOMAIN queue = {}
    BY DEF Init
  <1>4. finished \in SUBSET Nodes /\ PreDone \subseteq finished /\ pc # "success"
    BY DagAssumption, Zenon DEF Init
  <1> QED BY <1>1, <1>2, <1>3, <1>4, Zenon DEF IInv, TypeOK, ParentsFirst, SuccessIsComplete

\* A submission adds a cluster whose node waits for nobody.
LEMMA SubmitSucceedsInv == ASSUME IInv, SubmitSucceeds PROVE IInv'
  <1> DEFINE n == Head(dag.readyQ)
             c == Len(queue) + 1
             d == Dequeue(dag)
             k == [node |-> n, proc |-> [p \in 1..Procs[n] |-> "idle"]]
             s == [p \in 1..Procs[n] |->
                        [type |-> "SUBMIT", id |-> c, proc |-> p, node |-> n, ok |-> TRUE]]
  <1>1. dag \in Sound(finished) /\ dag.readyQ # << >>
    BY Zenon DEF SubmitSucceeds, MaySubmit, IInv
  <1>2. n \in Nodes /\ dag.waiting[n] = {} /\ d \in Sound(finished)
    BY <1>1, DequeueSound, Zenon
  <1>3. Parents[n] \subseteq finished
    BY <1>1, <1>2, Zenon DEF Sound
  <1>4. /\ queue \in Seq(Clusters) /\ log \in Seq(Events) /\ c \in Int
        /\ Procs[n] \in Nat
    BY <1>2, ProcsAssumption DEF IInv, TypeOK
  <1>5. /\ pc' = "submit" /\ pos' = pos
        /\ \/ Becomes(d) /\ UNCHANGED <<log, queue>>
           \/ /\ Becomes(ProcessSuccessfulSubmit(d, n, c))
              /\ queue' = Append(queue, k) /\ log' = log \o s
    BY Zenon DEF SubmitSucceeds
  <1>6. k \in Clusters /\ k.node = n
    BY <1>2 DEF Clusters
  <1>7. s \in Seq(Events)
    <2>1. s \in [1..Procs[n] -> Events]
      BY <1>2, <1>4 DEF Events
    <2> HIDE DEF s
    <2> QED BY <1>4, <2>1
  <1>8. ProcessSuccessfulSubmit(d, n, c) \in Sound(finished)
    BY <1>2, <1>4, SuccessfulSubmitSound, Zenon
  <1> HIDE DEF n, c, d, k, s
  <1>9. /\ dag' \in Sound(finished') /\ dag' \in Dags
        /\ finished' \in SUBSET Nodes /\ finished \subseteq finished'
        /\ PreDone \subseteq finished'
    <2>1. Kept(finished, d) /\ Kept(finished, ProcessSuccessfulSubmit(d, n, c))
      BY <1>2, <1>8, KeptSame, Zenon
    <2> QED BY <1>5, <2>1, BecomesSound, Zenon
  <1>10. queue' \in Seq(Clusters) /\ log' \in Seq(Events)
    <2>1. Append(queue, k) \in Seq(Clusters)
      BY <1>4, <1>6
    <2>2. log \o s \in Seq(Events)
      BY <1>4, <1>7
    <2> QED BY <1>4, <1>5, <2>1, <2>2, Zenon
  <1>11. ParentsFirst'
    <2>1. CASE queue' = queue
      BY <1>9, <2>1, SameQueue, Zenon DEF IInv
    <2>2. CASE queue' = Append(queue, k)
      <3> SUFFICES ASSUME NEW b \in DOMAIN queue' PROVE Parents[queue'[b].node] \subseteq finished'
        BY Zenon DEF ParentsFirst
      <3>1. (b \in DOMAIN queue /\ queue'[b] = queue[b]) \/ queue'[b] = k
        BY <1>4, <2>2
      <3>2. b \in DOMAIN queue => Parents[queue[b].node] \subseteq finished
        BY Zenon DEF IInv, ParentsFirst
      <3> QED BY <1>3, <1>6, <1>9, <3>1, <3>2, Zenon
    <2> QED BY <1>5, <2>1, <2>2, Zenon
  <1>12. pos' \in Nat /\ SuccessIsComplete'
    BY <1>5, Zenon DEF IInv, TypeOK, SuccessIsComplete
  <1> QED BY <1>9, <1>10, <1>11, <1>12, Zenon DEF IInv, TypeOK

\* Steps of condor_dagman that submit nothing and do not end it.
LEMMA QuietInv ==
    ASSUME IInv, NEW d, Kept(finished, d), Becomes(d),
           UNCHANGED queue, pos' \in Nat, log' \in Seq(Events), pc' # "success"
    PROVE  IInv'
  <1>1. /\ dag' \in Sound(finished') /\ dag' \in Dags
        /\ finished' \in SUBSET Nodes /\ finished \subseteq finished'
        /\ PreDone \subseteq finished'
    BY BecomesSound, Zenon
  <1>2. ParentsFirst'
    BY <1>1, SameQueue, Zenon DEF IInv
  <1> QED BY <1>1, <1>2, Zenon DEF IInv, TypeOK, SuccessIsComplete

\* A submission that fails.
LEMMA SubmitFailsInv == ASSUME IInv, SubmitFails PROVE IInv'
  <1> DEFINE n == Head(dag.readyQ)
             d == Dequeue(dag)
  <1>1. dag \in Sound(finished) /\ dag.readyQ # << >>
    BY Zenon DEF SubmitFails, MaySubmit, IInv
  <1>2. n \in Nodes /\ d \in Sound(finished) /\ d.waiting[n] = {}
    BY <1>1, DequeueSound, Zenon
  <1>3. /\ Becomes(ProcessFailedSubmit(d, n)) /\ pc' = "read"
        /\ UNCHANGED <<log, pos, queue>>
    BY Zenon DEF SubmitFails
  <1> HIDE DEF n, d
  <1>4. Kept(finished, ProcessFailedSubmit(d, n))
    BY <1>2, FailedSubmitSound, KeptSame, Zenon
  <1>5. pos' \in Nat /\ log' \in Seq(Events)
    BY <1>3, Zenon DEF IInv, TypeOK
  <1> QED BY <1>3, <1>4, <1>5, QuietInv, Zenon

\* An event of the log.
LEMMA ProcessKept ==
    ASSUME NEW F, dag \in Sound(F), NEW e \in Events, NEW n \in Nodes,
           NEW recovery \in BOOLEAN
    PROVE  Kept(F, Process(e, n, recovery))
  <1>1. e.type \in {"SUBMIT", "EXECUTE", "EVICTED", "END", "POST", "PRESKIP"}
        /\ e.id \in Int /\ e.ok \in BOOLEAN
    BY Zenon DEF Events
  <1>2. Process(e, n, recovery) \in
            {ProcessSubmitEvent(dag, n, e.id, recovery), ProcessNotIdleEvent(dag, n),
             ProcessIsIdleEvent(dag, n), ProcessEndEvent(dag, n, recovery, e.ok),
             ProcessPostTermEvent(dag, n, recovery, e.ok),
             ProcessPreSkipEvent(dag, n, e.id, recovery)}
    BY <1>1, Zenon DEF Process
  <1>3. /\ ProcessSubmitEvent(dag, n, e.id, recovery) \in Sound(F)
        /\ ProcessNotIdleEvent(dag, n) \in Sound(F) /\ ProcessIsIdleEvent(dag, n) \in Sound(F)
    BY <1>1, SubmitEventSound, NotIdleSound, IsIdleSound, Zenon
  <1>4. /\ Kept(F, ProcessEndEvent(dag, n, recovery, e.ok))
        /\ Kept(F, ProcessPostTermEvent(dag, n, recovery, e.ok))
        /\ Kept(F, ProcessPreSkipEvent(dag, n, e.id, recovery))
    BY <1>1, EndEventKept, PostTermKept, PreSkipKept, Zenon
  <1> QED BY <1>2, <1>3, <1>4, KeptSame, Zenon

\* ProcessOneEvent().
LEMMA ReadEventInv == ASSUME IInv, ReadEvent PROVE IInv'
  <1> DEFINE e == log[pos + 1]
             ns == EventNodes(e)
             n == CHOOSE m \in ns : TRUE
  <1>1. dag \in Sound(finished) /\ log \in Seq(Events) /\ pos \in Nat /\ dag \in Dags
    BY Zenon DEF IInv, TypeOK
  <1>2. e \in Events
    <2>1. pos < Len(log)
      BY Zenon DEF ReadEvent
    <2>2. pos + 1 \in 1..Len(log)
      BY <1>1, <2>1
    <2> QED BY <1>1, <2>2
  <1>3. ns \subseteq Nodes
    BY <1>2, Zenon DEF EventNodes, Events
  <1>4. /\ pos' = pos + 1 /\ UNCHANGED <<log, queue>> /\ pc \in {"read", "recover"}
        /\ \/ UNCHANGED <<pc, dag, finished>>
           \/ Becomes(Except(dag)) /\ UNCHANGED pc
           \/ pc' \in {"bad event", "unfinished parents"} /\ UNCHANGED <<dag, finished>>
           \/ ns # {} /\ Becomes(Process(e, n, pc = "recover")) /\ UNCHANGED pc
    BY Zenon DEF ReadEvent
  <1>5. ns # {} => n \in Nodes
    BY <1>3, Zenon
  <1> HIDE DEF e, ns, n
  <1>6. pos' \in Nat /\ log' \in Seq(Events) /\ pc' # "success"
    <2>1. pos + 1 \in Nat
      BY <1>1
    <2> QED BY <1>1, <1>4, <2>1, Zenon
  <1>7. CASE UNCHANGED <<dag, finished>>
    <2>1. ParentsFirst'
      BY <1>4, <1>7, SameQueue, Zenon DEF IInv
    <2> QED BY <1>4, <1>6, <1>7, <2>1, Zenon DEF IInv, TypeOK, SuccessIsComplete
  <1>8. CASE Becomes(Except(dag))
    <2>1. Kept(finished, Except(dag))
      BY <1>1, ExceptSound, KeptSame, Zenon
    <2> QED BY <1>4, <1>6, <1>8, <2>1, QuietInv, Zenon
  <1>9. CASE ns # {} /\ Becomes(Process(e, n, pc = "recover"))
    <2>1. Kept(finished, Process(e, n, pc = "recover"))
      BY <1>1, <1>2, <1>5, <1>9, ProcessKept, Zenon
    <2> QED BY <1>4, <1>6, <1>9, <2>1, QuietInv, Zenon
  <1> QED BY <1>4, <1>7, <1>8, <1>9, Zenon

\* The end of the timer: as many nodes as the DAG has are all of them.
LEMMA FinishTimerInv == ASSUME IInv, FinishTimer PROVE IInv'
  <1>1. /\ dag \in Sound(finished) /\ log \in Seq(Events) /\ pos \in Nat /\ dag \in Dags
        /\ finished \in SUBSET Nodes
    BY Zenon DEF IInv, TypeOK
  <1>2. /\ UNCHANGED <<log, pos, queue>>
        /\ \/ Becomes(Except(dag)) /\ pc' = "read"
           \/ UNCHANGED <<dag, finished>> /\ (pc' = "success" => DoneSuccess(dag))
    BY Zenon DEF FinishTimer
  <1>3. CASE Becomes(Except(dag)) /\ pc' = "read"
    <2>1. Kept(finished, Except(dag))
      BY <1>1, ExceptSound, KeptSame, Zenon
    <2>2. pos' \in Nat /\ log' \in Seq(Events) /\ pc' # "success"
      BY <1>1, <1>2, <1>3, Zenon
    <2> QED BY <1>2, <1>3, <2>1, <2>2, QuietInv, Zenon
  <1>4. CASE UNCHANGED <<dag, finished>> /\ (pc' = "success" => DoneSuccess(dag))
    <2>1. DoneSuccess(dag) => finished = Nodes
      <3> SUFFICES ASSUME DoneSuccess(dag) PROVE finished = Nodes
        BY Zenon
      <3>1. IsFiniteSet(Nodes) /\ Cardinality(Nodes) = NumNodes
        BY FS_Interval, DagAssumption DEF Nodes
      <3>2. dag.counted \subseteq finished /\ Cardinality(dag.counted) = NumNodes
        BY <1>1, Zenon DEF DoneSuccess, Sound
      <3>3. dag.counted = Nodes
        BY <1>1, <3>1, <3>2, FS_Subset, Zenon
      <3> QED BY <1>1, <3>2, <3>3, Zenon
    <2>2. SuccessIsComplete'
      BY <1>4, <2>1, Zenon DEF SuccessIsComplete
    <2>3. ParentsFirst'
      BY <1>2, <1>4, SameQueue, Zenon DEF IInv
    <2> QED BY <1>2, <1>4, <2>2, <2>3, Zenon DEF IInv, TypeOK
  <1> QED BY <1>2, <1>3, <1>4, Zenon

\* The reapers.
LEMMA ReaperInv ==
    ASSUME IInv, NEW n \in Nodes,
           \/ \E result \in {"ok", "fail", "skip"} : PreScriptExits(n, result)
           \/ \E ok \in BOOLEAN : PostScriptExits(n, ok)
    PROVE  IInv'
  <1>1. /\ dag \in Sound(finished) /\ log \in Seq(Events) /\ pos \in Nat
        /\ dag.fakeID \in Int /\ dag.id[n] \in Int /\ Procs[n] \in Nat
    BY Fields, ProcsAssumption, Zenon DEF IInv, TypeOK
  <1>2. ASSUME NEW result \in {"ok", "fail", "skip"}, PreScriptExits(n, result) PROVE IInv'
    <2>1. /\ pc' = "wait" /\ Becomes(PreScriptReaper(dag, n, result))
          /\ UNCHANGED <<pos, queue>>
      BY <1>2, Zenon DEF PreScriptExits
    <2>2. Kept(finished, PreScriptReaper(dag, n, result))
      BY <1>1, PreReaperSound, KeptSame, Zenon
    <2>3. -(dag.fakeID + 1) \in Int
      BY <1>1
    <2>4. Write("PRESKIP", -(dag.fakeID + 1), 0, n, TRUE) \in Seq(Events)
      BY <1>1, <2>3, WriteType, Zenon
    <2>5. log' \in Seq(Events)
      BY <1>1, <1>2, <2>4, Zenon DEF PreScriptExits
    <2> QED BY <1>1, <2>1, <2>2, <2>5, QuietInv, Zenon
  <1>3. ASSUME NEW ok \in BOOLEAN, PostScriptExits(n, ok) PROVE IInv'
    <2>1. /\ pc' = "wait" /\ Becomes(PostScriptReaper(dag, n))
          /\ UNCHANGED <<pos, queue>> /\ log' = Write("POST", dag.id[n], 1, n, ok)
      BY <1>3, Zenon DEF PostScriptExits
    <2>2. Kept(finished, PostScriptReaper(dag, n))
      BY <1>1, PostReaperSound, KeptSame, Zenon
    <2>3. log' \in Seq(Events)
      BY <1>1, <2>1, WriteType, Zenon
    <2> QED BY <1>1, <2>1, <2>2, <2>3, QuietInv, Zenon
  <1> QED BY <1>2, <1>3, Zenon

\* The end of recovery.
LEMMA EndRecoveryInv == ASSUME IInv, EndRecovery PROVE IInv'
  <1>1. Becomes(FinishRecovery(dag)) /\ pc' = "wait" /\ UNCHANGED <<log, pos, queue>>
    BY Zenon DEF EndRecovery
  <1>2. Kept(finished, FinishRecovery(dag))
    BY FinishRecoverySound, KeptSame, Zenon DEF IInv
  <1>3. pos' \in Nat /\ log' \in Seq(Events)
    BY <1>1, Zenon DEF IInv, TypeOK
  <1> QED BY <1>1, <1>2, <1>3, QuietInv, Zenon

\* A crash: the new condor_dagman knows less, but nothing wrong.
LEMMA CrashInv == ASSUME IInv, Crash PROVE IInv'
  <1>1. /\ dag' = PreCompleted /\ pos' = 0 /\ pc' = "recover"
        /\ UNCHANGED <<log, queue, finished>>
    BY Zenon DEF Crash
  <1>2. dag' \in Sound(finished')
    BY <1>1, PreCompletedSound, SoundGrows, Zenon DEF IInv
  <1>3. dag' \in Dags
    BY <1>2, SoundIsDag, Zenon
  <1>4. ParentsFirst'
    BY <1>1, SameQueue, Zenon DEF IInv
  <1> QED BY <1>1, <1>2, <1>3, <1>4, Zenon DEF IInv, TypeOK, SuccessIsComplete

\* What the jobs do reaches condor_dagman only through the log.
LEMMA JobStepInv == ASSUME IInv, JobStep PROVE IInv'
  <1>1. PICK c \in DOMAIN queue : \E p \in DOMAIN queue[c].proc :
            \/ Execute(c, p) \/ Evict(c, p) \/ DuplicateEnd(c, p)
            \/ \E ok \in BOOLEAN : End(c, p, ok)
    BY Zenon DEF JobStep
  <1>2. PICK p \in DOMAIN queue[c].proc :
            \/ Execute(c, p) \/ Evict(c, p) \/ DuplicateEnd(c, p)
            \/ \E ok \in BOOLEAN : End(c, p, ok)
    BY <1>1, Zenon
  <1>3. queue \in Seq(Clusters) /\ log \in Seq(Events) /\ c \in Nat
    BY DEF IInv, TypeOK
  <1>0. PICK n \in Nodes, m \in Nodes :
            \E f \in [1..Procs[m] -> {"idle", "running", "gone"}] : queue[c] = [node |-> n, proc |-> f]
    <2>1. queue[c] \in Clusters
      BY <1>3
    <2> QED BY <2>1, Zenon DEF Clusters
  <1>4. PICK f \in [1..Procs[m] -> {"idle", "running", "gone"}] : queue[c] = [node |-> n, proc |-> f]
    BY <1>0, Zenon
  <1>5. queue[c].node = n /\ queue[c].proc = f /\ p \in 1..Procs[m] /\ p \in Nat
    BY <1>4, ProcsAssumption
  <1>6. UNCHANGED <<pc, dag, pos, finished>>
    BY <1>2, Zenon DEF Execute, Evict, DuplicateEnd, End, dagman
  <1>7. log' \in Seq(Events)
    <2>1. PICK type \in {"EXECUTE", "EVICTED", "END"}, ok \in BOOLEAN :
              log' = Write(type, c, p, queue[c].node, ok)
      BY <1>2, Zenon DEF Execute, Evict, DuplicateEnd, End
    <2>2. type \in {"SUBMIT", "EXECUTE", "EVICTED", "END", "POST", "PRESKIP"}
      BY Zenon
    <2>3. c \in Int
      BY <1>3
    <2>4. Write(type, c, p, n, ok) \in Seq(Events)
      BY <1>3, <1>5, <2>2, <2>3, WriteType, Zenon
    <2> QED BY <1>5, <2>1, <2>4, Zenon
  <1>8. \/ queue' = queue
        \/ \E s \in {"idle", "running", "gone"} : queue' = [queue EXCEPT ![c].proc[p] = s]
    BY <1>2, Zenon DEF Execute, Evict, DuplicateEnd, End
  <1>9. queue' \in Seq(Clusters) /\ DOMAIN queue' = DOMAIN queue
        /\ \A b \in DOMAIN queue : queue'[b].node = queue[b].node
    <2>1. CASE queue' = queue
      BY <1>3, <2>1, Zenon
    <2>2. ASSUME NEW s \in {"idle", "running", "gone"}, queue' = [queue EXCEPT ![c].proc[p] = s]
          PROVE  /\ queue' \in Seq(Clusters) /\ DOMAIN queue' = DOMAIN queue
                 /\ \A b \in DOMAIN queue : queue'[b].node = queue[b].node
      <3> DEFINE k == [node |-> n, proc |-> [f EXCEPT ![p] = s]]
      <3>1. k \in Clusters /\ k.node = n
        <4>1. [f EXCEPT ![p] = s] \in [1..Procs[m] -> {"idle", "running", "gone"}]
          BY Zenon
        <4>2. [f EXCEPT ![p] = s] \in UNION {[1..Procs[i] -> {"idle", "running", "gone"}] : i \in Nodes}
          BY <4>1, Zenon
        <4>3. k.node = n
          BY Zenon
        <4> QED BY <4>2, <4>3, Zenon DEF Clusters
      <3>2. [queue[c] EXCEPT !.proc[p] = s] = k
        BY <1>4, <1>5
      <3>3. queue' = [queue EXCEPT ![c] = k]
        BY <2>2, <3>2, Zenon
      <3> HIDE DEF k
      <3> QED BY <1>3, <1>5, <3>1, <3>3
    <2> QED BY <1>8, <2>1, <2>2, Zenon
  <1>10. ParentsFirst'
    BY <1>6, <1>9, Zenon DEF IInv, ParentsFirst
  <1> QED BY <1>6, <1>7, <1>9, <1>10, Zenon DEF IInv, TypeOK, SuccessIsComplete

\* IInv is inductive.
LEMMA NextInv == ASSUME IInv, [Next]_vars PROVE IInv'
  <1>1. CASE DagmanStep
    <2>1. CASE StartReading
      <3>1. UNCHANGED <<dag, log, pos, queue, finished>> /\ pc' = "read"
        BY <2>1, Zenon DEF StartReading
      <3> QED BY <3>1, Zenon DEF IInv, TypeOK, ParentsFirst, SuccessIsComplete
    <2> QED BY <1>1, <2>1, SubmitSucceedsInv, SubmitFailsInv, ReadEventInv, FinishTimerInv,
               EndRecoveryInv, ReaperInv, Zenon DEF DagmanStep
  <1>2. CASE JobStep
    BY <1>2, JobStepInv, Zenon
  <1>3. CASE Crash
    BY <1>3, CrashInv, Zenon
  <1>4. CASE UNCHANGED vars
    BY <1>4, Zenon DEF vars, IInv, TypeOK, ParentsFirst, SuccessIsComplete
  <1> QED BY <1>1, <1>2, <1>3, <1>4, Zenon DEF Next

-----------------------------------------------------------------------------
\* Theorems

\* The inductive invariant holds in every reachable state.
THEOREM DagInvariance == Spec => []IInv
  BY Initial, NextInv, PTL DEF Spec

\* A node is submitted only when all its parents are done, whatever the DAG, the
\* scripts, the throttles and the order of the events, and however often
\* condor_dagman dies and reads its log again (StartNode, TerminateJob,
\* Bootstrap).
THEOREM SubmitsParentsFirst == Spec => []ParentsFirst
  <1>1. IInv => ParentsFirst
    BY Zenon DEF IInv
  <1> QED BY <1>1, DagInvariance, PTL

\* condor_dagman exits with success only when every node of the DAG is done: no
\* node is counted twice by _numNodesDone (TerminateJob, DoneSuccess).
THEOREM SuccessMeansAllDone == Spec => []SuccessIsComplete
  <1>1. IInv => SuccessIsComplete
    BY Zenon DEF IInv
  <1> QED BY <1>1, DagInvariance, PTL
=============================================================================
