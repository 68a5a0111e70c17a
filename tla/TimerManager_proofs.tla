------------------------ MODULE TimerManager_proofs ------------------------
(***************************************************************************)
(* The safety properties of TimerManager for every number of timers, every *)
(* clock and every MAX_FIRES_PER_TIMEOUT.  First, lemmas about the         *)
(* operators that work on the linked list: what Walk, Listed, Prev,        *)
(* RemoveTimer, Trail and InsertTimer return for a list that is a chain of *)
(* n distinct timers.  Walk is recursive; what it computes for every list  *)
(* is shown from the least argument at which it would differ.  Then one    *)
(* lemma for each action shows that it keeps the inductive invariant of    *)
(* TimerManagerInv.                                                        *)
(***************************************************************************)
EXTENDS TimerManagerInv, WellFoundedInduction, TLAPS

\* Every nonempty set of natural numbers has a least element.
LEMMA LeastNat ==
    ASSUME NEW S \in SUBSET Nat, S # {}
    PROVE  \E x \in S : \A y \in S : x <= y
  <1> DEFINE R == {p \in Nat \X Nat : p[1] < p[2]}
  <1>1. IsWellFoundedOn(R, Nat)
    BY NatLessThanWellFounded, Zenon DEF OpToRel
  <1>2. PICK x \in S : \A y \in S : ~ (<<y, x>> \in R)
    BY <1>1, WFMin, Zenon
  <1>3. \A y \in S : ~(y < x)
    BY <1>2, Zenon
  <1> QED BY <1>2, <1>3

\* Min is that element.
LEMMA LeastIsMin ==
    ASSUME NEW S \in SUBSET Nat, S # {}
    PROVE  Min(S) \in S /\ \A y \in S : Min(S) <= y
  BY LeastNat, Zenon DEF Min

\* Walk computes what its recursive definition says.
LEMMA WalkDef ==
    ASSUME NEW l, NEW g, g = [i \in 0..MaxTimers |->
               IF i = 0 THEN l.head
               ELSE IF g[i - 1] = NULL THEN NULL ELSE l.next[g[i - 1]]]
    PROVE  Walk(l) = [i \in 0..MaxTimers |->
               IF i = 0 THEN l.head
               ELSE IF Walk(l)[i - 1] = NULL THEN NULL ELSE l.next[Walk(l)[i - 1]]]
  BY Zenon DEF Walk

\* No injection maps k + 1 numbers into k: the least such k would have a smaller one.
LEMMA Pigeonhole ==
    ASSUME NEW k \in Nat, NEW f \in [1..(k + 1) -> 1..k],
           \A i, j \in 1..(k + 1) : f[i] = f[j] => i = j
    PROVE  FALSE
  <1> DEFINE Injects(n, g) ==
               g \in [1..(n + 1) -> 1..n] /\ \A i, j \in 1..(n + 1) : g[i] = g[j] => i = j
             bad == {n \in Nat : \E g : Injects(n, g)}
  <1>1. k \in bad /\ bad \in SUBSET Nat
    BY Zenon
  <1>2. PICK n \in bad : \A i \in bad : n <= i
    <2> HIDE DEF bad
    <2> QED BY <1>1, LeastNat, Zenon
  <1>3. PICK g : Injects(n, g)
    BY <1>2, Zenon
  <1>4. n \in Nat /\ 1 \in 1..(n + 1) /\ n # 0
    <2>1. n \in Nat /\ 1 \in 1..(n + 1)
      BY <1>2
    <2>2. g[1] \in 1..n
      BY <1>3, <2>1, Zenon
    <2> QED BY <2>1, <2>2
  <1> DEFINE m == n - 1
             h == [i \in 1..n |-> IF g[i] = n THEN g[n + 1] ELSE g[i]]
  <1>5. m \in Nat /\ m + 1 = n /\ ~(n <= m)
    BY <1>4
  <1>6. /\ g \in [1..(n + 1) -> 1..n]
        /\ \A i, j \in 1..(n + 1) : g[i] = g[j] => i = j
        /\ \A i \in 1..n : i \in 1..(n + 1) /\ i # n + 1
        /\ n + 1 \in 1..(n + 1)
    <2>1. /\ \A i \in 1..n : i \in 1..(n + 1) /\ i # n + 1
          /\ n + 1 \in 1..(n + 1)
      BY <1>4
    <2> QED BY <1>3, <2>1, Zenon
  <1>7. \A i \in 1..n : h[i] = IF g[i] = n THEN g[n + 1] ELSE g[i]
    BY Zenon
  <1> HIDE DEF h
  <1>8. ASSUME NEW i \in 1..n
        PROVE  g[i] \in 1..n /\ g[n + 1] \in 1..n /\ g[i] # g[n + 1]
    BY <1>6, Zenon
  <1>9. h \in [1..n -> 1..m]
    <2>1. ASSUME NEW i \in 1..n PROVE h[i] \in 1..m
      <3>1. h[i] \in 1..n /\ h[i] # n
        BY <1>7, <1>8, Zenon
      <3>2. \A y \in 1..n : y # n => y \in 1..m
        BY <1>4
      <3> QED BY <3>1, <3>2, Zenon
    <2>2. h = [i \in 1..n |-> h[i]]
      BY Zenon DEF h
    <2> QED BY <2>1, <2>2, Zenon
  <1>10. ASSUME NEW i \in 1..n, NEW j \in 1..n, h[i] = h[j] PROVE i = j
    BY <1>6, <1>7, <1>8, <1>10, Zenon
  <1> HIDE DEF m
  <1>11. Injects(m, h)
    BY <1>5, <1>9, <1>10, Zenon
  <1>12. m \in bad
    BY <1>5, <1>11, Zenon
  <1> QED BY <1>2, <1>5, <1>12, Zenon

\* A chain has at most MaxTimers elements, for they are distinct.
LEMMA ChainShort ==
    ASSUME NEW l, NEW n \in Nat, NEW o, Chain(l, n, o)
    PROVE  n <= MaxTimers
  <1> SUFFICES ASSUME ~(n <= MaxTimers) PROVE FALSE
    BY Zenon
  <1> DEFINE f == [i \in 1..(MaxTimers + 1) |-> o[i]]
  <1>1. MaxTimers \in Nat /\ 1..(MaxTimers + 1) \subseteq 1..n
    BY TimerAssumption
  <1>2. /\ f \in [1..(MaxTimers + 1) -> 1..MaxTimers]
        /\ \A i, j \in 1..(MaxTimers + 1) : f[i] = f[j] => i = j
    BY <1>1, Zenon DEF Chain, Timers
  <1> HIDE DEF f
  <1> QED BY <1>1, <1>2, Pigeonhole, Zenon

\* Walking along a chain meets its elements one after the other, then NULL.
LEMMA WalkChain ==
    ASSUME NEW l, NEW n \in 0..MaxTimers, NEW o, Chain(l, n, o)
    PROVE  Walk(l) = [i \in 0..MaxTimers |-> IF i < n THEN o[i + 1] ELSE NULL]
  <1> DEFINE g == [i \in 0..MaxTimers |-> IF i < n THEN o[i + 1] ELSE NULL]
             w == Walk(l)
             bad == {i \in 0..MaxTimers : w[i] # g[i]}
  <1> USE TimerAssumption
  <1>1. ASSUME NEW i \in 0..MaxTimers
        PROVE  g[i] = IF i = 0 THEN l.head
                      ELSE IF g[i - 1] = NULL THEN NULL ELSE l.next[g[i - 1]]
    BY DEF Chain, NULL, Timers
  <1>2. w = [i \in 0..MaxTimers |->
               IF i = 0 THEN l.head ELSE IF w[i - 1] = NULL THEN NULL ELSE l.next[w[i - 1]]]
    <2> DEFINE Eq(f) == f = [i \in 0..MaxTimers |->
               IF i = 0 THEN l.head ELSE IF f[i - 1] = NULL THEN NULL ELSE l.next[f[i - 1]]]
    <2> HIDE DEF w
    <2>1. Eq(g)
      BY <1>1, Zenon
    <2>2. \A f : Eq(f) => Eq(w)
      BY WalkDef, Zenon DEF w
    <2>3. Eq(w)
      <3> HIDE DEF Eq, g
      <3> QED BY <2>1, <2>2, Zenon
    <2> QED BY <2>3, Zenon
  <1> HIDE DEF w, g
  <1>3. bad = {}
    <2> SUFFICES ASSUME bad # {} PROVE FALSE
      BY Zenon
    <2>1. PICK m \in bad : \A i \in bad : m <= i
      <3>1. bad \in SUBSET Nat
        OBVIOUS
      <3> HIDE DEF bad
      <3> QED BY <3>1, LeastNat, Zenon
    <2>2. m # 0
      BY <1>1, <1>2, <2>1, Zenon
    <2>3. m - 1 \in 0..MaxTimers /\ w[m - 1] = g[m - 1]
      BY <2>1, <2>2
    <2>4. w[m] = g[m]
      BY <1>1, <1>2, <2>2, <2>3
    <2> QED BY <2>1, <2>4, Zenon
  <1>4. \A i \in 0..MaxTimers : w[i] = g[i]
    BY <1>3, Zenon
  <1>5. w = [i \in 0..MaxTimers |-> w[i]]
    BY <1>2, Zenon
  <1> QED BY <1>4, <1>5, Zenon DEF g, w

\* The timers found on the list are the elements of the chain.
LEMMA ListedChain ==
    ASSUME NEW l, NEW n \in 0..MaxTimers, NEW o, Chain(l, n, o)
    PROVE  Listed(l) = Elements(n, o)
  <1> DEFINE w == Walk(l)
  <1>1. \A i \in 0..MaxTimers : w[i] = IF i < n THEN o[i + 1] ELSE NULL
    BY WalkChain, TimerAssumption
  <1> HIDE DEF w
  <1>2. ASSUME NEW x \in Listed(l) PROVE x \in Elements(n, o)
    BY <1>1, <1>2, TimerAssumption DEF Listed, Elements, w
  <1>3. ASSUME NEW i \in 1..n PROVE o[i] \in Listed(l)
    <2>1. i - 1 \in 0..MaxTimers /\ w[i - 1] = o[i] /\ o[i] # NULL
      BY <1>1, TimerAssumption DEF Chain, Timers, NULL
    <2> QED BY <2>1, Zenon DEF Listed, w
  <1> QED BY <1>2, <1>3, Zenon DEF Elements

\* The predecessor of an element.
LEMMA PrevChain ==
    ASSUME NEW l, NEW n \in 0..MaxTimers, NEW o, Chain(l, n, o), NEW k \in 1..n
    PROVE  Prev(l, o[k]) = IF k = 1 THEN NULL ELSE o[k - 1]
  <1> USE TimerAssumption
  <1>1. Listed(l) = Elements(n, o)
    BY ListedChain, Zenon
  <1>2. \A p \in Elements(n, o) : l.next[p] = o[k] => k # 1 /\ p = o[k - 1]
    <2> SUFFICES ASSUME NEW i \in 1..n, l.next[o[i]] = o[k]
                 PROVE  k # 1 /\ i = k - 1
      BY Zenon DEF Elements
    <2>1. o[k] # NULL
      BY DEF Chain, NULL, Timers
    <2>2. i # n /\ o[i + 1] = o[k]
      BY <2>1, Zenon DEF Chain
    <2> QED BY <2>2 DEF Chain
  <1>3. CASE k = 1
    BY <1>1, <1>2, <1>3, Zenon DEF Prev
  <1>4. CASE k # 1
    <2>1. o[k - 1] \in Elements(n, o) /\ l.next[o[k - 1]] = o[k]
      BY <1>4 DEF Elements, Chain
    <2> QED BY <1>1, <1>2, <1>4, <2>1, Zenon DEF Prev
  <1> QED BY <1>3, <1>4, Zenon

\* RemoveTimer takes an element out of the chain, and never reaches its EXCEPT().
LEMMA RemoveChain ==
    ASSUME NEW l \in Lists, NEW n \in 0..MaxTimers, NEW o, Chain(l, n, o), NEW k \in 1..n,
           NEW r, r = RemoveTimer(l, o[k], Prev(l, o[k]))
    PROVE  /\ r \in Lists
           /\ Chain(r, n - 1, Drop(n, o, k))
           /\ Elements(n - 1, Drop(n, o, k)) = Elements(n, o) \ {o[k]}
  <1> USE TimerAssumption
  <1> DEFINE prev == IF k = 1 THEN NULL ELSE o[k - 1]
             d == Drop(n, o, k)
  <1>1. o[k] \in Listed(l) /\ Prev(l, o[k]) = prev
    <2>1. o[k] \in Elements(n, o)
      BY Zenon DEF Elements
    <2> QED BY <2>1, ListedChain, PrevChain, Zenon
  <1>2. /\ prev = NULL <=> k = 1
        /\ k = 1 => o[k] = l.head
        /\ k # 1 => l.next[prev] = o[k]
    <2>1. CASE k = 1
      BY <2>1 DEF Chain
    <2>2. CASE k # 1
      BY <2>2 DEF Chain, NULL, Timers
    <2> QED BY <2>1, <2>2, Zenon
  <1>3. /\ r.head = IF o[k] = l.head THEN l.next[o[k]] ELSE l.head
        /\ r.tail = IF o[k] = l.tail THEN prev ELSE l.tail
        /\ r.next = [p \in Timers |-> IF p = prev THEN l.next[o[k]] ELSE l.next[p]]
        /\ r \in Lists
    <2> HIDE DEF prev
    <2>1. r = [head |-> IF o[k] = l.head THEN l.next[o[k]] ELSE l.head,
               tail |-> IF o[k] = l.tail THEN prev ELSE l.tail,
               next |-> [p \in Timers |-> IF p = prev THEN l.next[o[k]] ELSE l.next[p]]]
      BY <1>1, <1>2, Zenon DEF RemoveTimer
    <2>2. o[k] \in Timers /\ prev \in Timers \cup {NULL}
      BY DEF Chain, prev
    <2> QED BY <2>1, <2>2 DEF Lists
  <1>4. \A i \in 1..n :
            /\ o[i] \in Timers
            /\ o[i] # NULL
            /\ l.next[o[i]] = IF i = n THEN NULL ELSE o[i + 1]
            /\ \A j \in 1..n : o[i] = o[j] => i = j
    BY DEF Chain, NULL, Timers
  <1>5. \A i \in 1..(n - 1) : d[i] = IF i < k THEN o[i] ELSE o[i + 1]
    BY Zenon DEF Drop
  <1>6. d \in [1..(n - 1) -> Timers]
    BY <1>4 DEF Drop
  <1> HIDE DEF d
  <1>7. \A i, j \in 1..(n - 1) : d[i] = d[j] => i = j
    BY <1>4, <1>5
  <1>8. r.head = IF n - 1 = 0 THEN NULL ELSE d[1]
    <2>1. l.head = o[1]
      BY DEF Chain
    <2> QED BY <1>3, <1>4, <1>5, <2>1
  <1>9. r.tail = IF n - 1 = 0 THEN NULL ELSE d[n - 1]
    <2>1. l.tail = o[n]
      BY DEF Chain
    <2> QED BY <1>3, <1>4, <1>5, <2>1
  <1>10. ASSUME NEW i \in 1..(n - 1)
         PROVE  r.next[d[i]] = IF i = n - 1 THEN NULL ELSE d[i + 1]
    <2>1. CASE i < k - 1
      <3>1. d[i] = o[i] /\ d[i + 1] = o[i + 1] /\ d[i] # prev /\ i # n - 1
        BY <1>4, <1>5, <2>1
      <3> QED BY <1>3, <1>4, <3>1
    <2>2. CASE i = k - 1
      <3>1. d[i] = prev /\ prev \in Timers /\ (i # n - 1 => d[i + 1] = o[k + 1])
        BY <1>4, <1>5, <2>2
      <3> QED BY <1>3, <1>4, <2>2, <3>1
    <2>3. CASE i > k - 1
      <3>1. d[i] = o[i + 1] /\ d[i] # prev /\ (i # n - 1 => d[i + 1] = o[i + 2])
        BY <1>4, <1>5, <2>3
      <3> QED BY <1>3, <1>4, <2>3, <3>1
    <2> QED BY <2>1, <2>2, <2>3
  <1>11. Elements(n - 1, d) = Elements(n, o) \ {o[k]}
    <2>1. ASSUME NEW i \in 1..(n - 1) PROVE d[i] \in Elements(n, o) \ {o[k]}
      BY <1>4, <1>5 DEF Elements
    <2>2. ASSUME NEW i \in 1..n, i # k PROVE o[i] \in Elements(n - 1, d)
      <3>1. CASE i < k
        <4>1. i \in 1..(n - 1) /\ d[i] = o[i]
          BY <1>5, <3>1
        <4> QED BY <4>1, Zenon DEF Elements
      <3>2. CASE i > k
        <4>1. i - 1 \in 1..(n - 1) /\ d[i - 1] = o[i]
          BY <1>5, <3>2
        <4> QED BY <4>1, Zenon DEF Elements
      <3> QED BY <2>2, <3>1, <3>2
    <2> QED BY <2>1, <2>2, Zenon DEF Elements
  <1> QED BY <1>3, <1>6, <1>7, <1>8, <1>9, <1>10, <1>11, Zenon DEF Chain, d

\* A list in which t is linked between o[k - 1] and o[k] is the chain with t as its
\* k-th element.
LEMMA PutChain ==
    ASSUME NEW l \in Lists, NEW n \in 0..MaxTimers, NEW o, Chain(l, n, o),
           NEW t \in Timers \ Elements(n, o), NEW k \in 1..(n + 1), NEW r \in Lists,
           r.head = IF k = 1 THEN t ELSE l.head,
           r.tail = IF k = n + 1 THEN t ELSE l.tail,
           r.next[t] = IF k = n + 1 THEN NULL ELSE o[k],
           k # 1 => r.next[o[k - 1]] = t,
           \A i \in 1..n : i # k - 1 => r.next[o[i]] = l.next[o[i]]
    PROVE  /\ Chain(r, n + 1, Put(n, o, t, k))
           /\ Elements(n + 1, Put(n, o, t, k)) = Elements(n, o) \cup {t}
  <1> DEFINE q == Put(n, o, t, k)
  <1> USE TimerAssumption
  <1>1. \A i \in 1..n :
            /\ o[i] \in Timers
            /\ o[i] # t
            /\ l.next[o[i]] = IF i = n THEN NULL ELSE o[i + 1]
            /\ \A j \in 1..n : o[i] = o[j] => i = j
    BY Zenon DEF Chain, Elements
  <1>2. \A i \in 1..(n + 1) : q[i] = IF i < k THEN o[i] ELSE IF i = k THEN t ELSE o[i - 1]
    BY Zenon DEF Put
  <1>3. q \in [1..(n + 1) -> Timers]
    BY <1>1 DEF Put
  <1> HIDE DEF q
  <1>4. \A i, j \in 1..(n + 1) : q[i] = q[j] => i = j
    BY <1>1, <1>2
  <1>5. r.head = q[1] /\ r.tail = q[n + 1]
    <2>1. n # 0 => l.head = o[1] /\ l.tail = o[n]
      BY Zenon DEF Chain
    <2> QED BY <1>2, <2>1
  <1>6. ASSUME NEW i \in 1..(n + 1)
        PROVE  r.next[q[i]] = IF i = n + 1 THEN NULL ELSE q[i + 1]
    <2>1. CASE i < k - 1
      <3>1. q[i] = o[i] /\ q[i + 1] = o[i + 1] /\ i \in 1..n /\ i # n
        BY <1>2, <2>1
      <3> QED BY <1>1, <2>1, <3>1
    <2>2. CASE i = k - 1
      BY <1>2, <2>2
    <2>3. CASE i = k
      BY <1>2, <2>3
    <2>4. CASE i > k
      <3>1. q[i] = o[i - 1] /\ i - 1 \in 1..n /\ (i # n + 1 => q[i + 1] = o[i])
        BY <1>2, <2>4
      <3> QED BY <1>1, <2>4, <3>1
    <2> QED BY <2>1, <2>2, <2>3, <2>4
  <1>7. Elements(n + 1, q) = Elements(n, o) \cup {t}
    <2>1. ASSUME NEW i \in 1..(n + 1) PROVE q[i] \in Elements(n, o) \cup {t}
      BY <1>2 DEF Elements
    <2>2. ASSUME NEW i \in 1..n PROVE o[i] \in Elements(n + 1, q)
      <3>1. CASE i < k
        <4>1. i \in 1..(n + 1) /\ q[i] = o[i]
          BY <1>2, <3>1
        <4> QED BY <4>1, Zenon DEF Elements
      <3>2. CASE i >= k
        <4>1. i + 1 \in 1..(n + 1) /\ q[i + 1] = o[i]
          BY <1>2, <3>2
        <4> QED BY <4>1, Zenon DEF Elements
      <3> QED BY <3>1, <3>2
    <2>3. t \in Elements(n + 1, q)
      <3>1. k \in 1..(n + 1) /\ q[k] = t
        BY <1>2
      <3> QED BY <3>1, Zenon DEF Elements
    <2> QED BY <2>1, <2>2, <2>3 DEF Elements
  <1> QED BY <1>3, <1>4, <1>5, <1>6, <1>7 DEF Chain, q

\* The scan of InsertTimer for t stops behind the m-th element.
Trails(l, n, o, t, when, m) ==
    /\ Trail(l, t, when) = o[m]
    /\ \A i \in 1..n : i <= m <=> when[o[i]] <= when[t]

\* The loop of InsertTimer stops behind the last element that is not later than t.
LEMMA TrailChain ==
    ASSUME NEW l, NEW n \in 1..MaxTimers, NEW o, Chain(l, n, o),
           NEW when \in [Timers -> 0..Never], NEW t \in Timers, Sorted(n, o, when),
           ~(when[t] < when[o[1]])
    PROVE  \E m \in 1..n : Trails(l, n, o, t, when, m)
  <1> USE TimerAssumption
  <1> DEFINE w == Walk(l)
             stops == {i \in 0..MaxTimers : w[i] = NULL \/ when[t] < when[w[i]]}
             m == Min(stops)
  <1>1. \A i \in 0..MaxTimers : w[i] = IF i < n THEN o[i + 1] ELSE NULL
    BY WalkChain
  <1>2. \A i \in 1..n : o[i] \in Timers /\ o[i] # NULL /\ when[o[i]] \in Int
    BY DEF Chain, Timers, NULL, Never
  <1>3. when[t] \in Int
    BY DEF Never
  <1>4. Trail(l, t, when) = w[m - 1]
    BY Zenon DEF Trail
  <1> HIDE DEF w
  <1>5. n \in stops /\ 0 \notin stops
    BY <1>1, <1>2
  <1>6. m \in stops /\ \A i \in stops : m <= i
    <2>1. stops \in SUBSET Nat
      OBVIOUS
    <2> HIDE DEF stops
    <2> QED BY <1>5, <2>1, LeastIsMin, Zenon
  <1> HIDE DEF m
  <1>7. m \in 1..n /\ w[m - 1] = o[m]
    BY <1>1, <1>5, <1>6
  <1>8. ASSUME NEW i \in 1..n, i <= m PROVE when[o[i]] <= when[t]
    <2>1. i - 1 \in 0..MaxTimers /\ i - 1 \notin stops /\ w[i - 1] = o[i]
      BY <1>1, <1>6, <1>7, <1>8
    <2> QED BY <1>2, <1>3, <2>1
  <1>9. ASSUME NEW i \in 1..n, ~(i <= m) PROVE when[t] < when[o[i]]
    <2>1. m + 1 \in 1..n /\ w[m] = o[m + 1] /\ when[t] < when[o[m + 1]]
      BY <1>1, <1>2, <1>6, <1>7, <1>9
    <2>2. when[o[m + 1]] <= when[o[i]]
      BY <1>2, <1>7, <1>9, <2>1 DEF Sorted
    <2> QED BY <1>2, <1>3, <2>1, <2>2
  <1>10. \A i \in 1..n : i <= m <=> when[o[i]] <= when[t]
    BY <1>2, <1>3, <1>8, <1>9
  <1> QED BY <1>4, <1>7, <1>10, Zenon DEF Trails

\* InsertTimer puts t into the chain behind all elements that are not later, whichever
\* of its four cases applies.
LEMMA InsertChain ==
    ASSUME NEW l \in Lists, NEW n \in 0..MaxTimers, NEW o, Chain(l, n, o),
           NEW when \in [Timers -> 0..Never], Sorted(n, o, when),
           NEW t \in Timers \ Elements(n, o), NEW r, r = InsertTimer(l, t, when)
    PROVE  /\ r \in Lists
           /\ \E k \in 1..(n + 1) :
                /\ Chain(r, n + 1, Put(n, o, t, k))
                /\ Elements(n + 1, Put(n, o, t, k)) = Elements(n, o) \cup {t}
                /\ \A i \in 1..n : i < k <=> when[o[i]] <= when[t]
  <1> USE TimerAssumption
  <1>1. \A i \in 1..n : o[i] \in Timers /\ o[i] # NULL /\ o[i] # t /\ when[o[i]] \in 0..Never
    BY DEF Chain, Timers, NULL, Elements
  <1>2. t # NULL /\ when[t] \in 0..Never
    BY DEF Timers, NULL
  <1>3. Never \in Nat
    BY DEF Never
  <1>4. /\ l.head = (IF n = 0 THEN NULL ELSE o[1])
        /\ l.tail = (IF n = 0 THEN NULL ELSE o[n])
        /\ \A i \in 1..n : l.next[o[i]] = IF i = n THEN NULL ELSE o[i + 1]
        /\ \A i, j \in 1..n : o[i] = o[j] => i = j
    BY Zenon DEF Chain
  <1>5. /\ l.next \in [Timers -> Timers \cup {NULL}]
        /\ l.head \in Timers \cup {NULL} /\ l.tail \in Timers \cup {NULL}
    BY Zenon DEF Lists
  <1>6. CASE n = 0
    <2>1. r = [head |-> t, tail |-> t, next |-> [l.next EXCEPT ![t] = NULL]]
      BY <1>4, <1>6, Zenon DEF InsertTimer
    <2>2. r \in Lists
      BY <1>5, <2>1 DEF Lists
    <2>3. r.head = t /\ r.tail = t /\ r.next[t] = NULL
      BY <1>5, <2>1
    <2>4. Chain(r, n + 1, Put(n, o, t, 1)) /\ Elements(n + 1, Put(n, o, t, 1)) = Elements(n, o) \cup {t}
      BY <1>6, <2>2, <2>3, PutChain
    <2> QED BY <1>6, <2>2, <2>4
  <1>7. CASE n # 0 /\ when[t] < when[o[1]]
    <2>1. r = [head |-> t, tail |-> l.tail, next |-> [l.next EXCEPT ![t] = l.head]]
      BY <1>1, <1>4, <1>7 DEF InsertTimer
    <2>2. r \in Lists
      BY <1>5, <2>1 DEF Lists
    <2>3. /\ r.head = t /\ r.tail = l.tail /\ r.next[t] = o[1]
          /\ \A i \in 1..n : r.next[o[i]] = l.next[o[i]]
      BY <1>1, <1>4, <1>5, <1>7, <2>1
    <2>4. Chain(r, n + 1, Put(n, o, t, 1)) /\ Elements(n + 1, Put(n, o, t, 1)) = Elements(n, o) \cup {t}
      BY <1>7, <2>2, <2>3, PutChain
    <2>5. \A i \in 1..n : when[o[1]] <= when[o[i]]
      BY <1>1, <1>3, <1>7 DEF Sorted
    <2>6. \A i \in 1..n : i < 1 <=> when[o[i]] <= when[t]
      BY <1>1, <1>2, <1>3, <1>7, <2>5
    <2>7. 1 \in 1..(n + 1)
      OBVIOUS
    <2> QED BY <2>2, <2>4, <2>6, <2>7, Zenon
  <1>8. CASE n # 0 /\ ~(when[t] < when[o[1]]) /\ when[t] = Never
    <2>1. r = [head |-> l.head, tail |-> t,
               next |-> [l.next EXCEPT ![t] = NULL, ![l.tail] = t]]
      BY <1>1, <1>4, <1>8 DEF InsertTimer
    <2>2. r \in Lists
      <3>1. l.tail \in Timers
        BY <1>1, <1>4, <1>8
      <3> QED BY <1>5, <2>1, <3>1 DEF Lists
    <2>3. /\ r.head = l.head /\ r.tail = t /\ r.next[t] = NULL /\ r.next[o[n]] = t
          /\ \A i \in 1..n : i # n => r.next[o[i]] = l.next[o[i]]
      BY <1>1, <1>4, <1>5, <1>8, <2>1
    <2>4. /\ Chain(r, n + 1, Put(n, o, t, n + 1))
          /\ Elements(n + 1, Put(n, o, t, n + 1)) = Elements(n, o) \cup {t}
      <3>1. n + 1 \in 1..(n + 1) /\ n + 1 # 1 /\ (n + 1) - 1 = n
        BY <1>8
      <3> DEFINE k == n + 1
      <3>2. /\ r.head = IF k = 1 THEN t ELSE l.head
            /\ r.tail = IF k = n + 1 THEN t ELSE l.tail
            /\ r.next[t] = IF k = n + 1 THEN NULL ELSE o[k]
            /\ k # 1 => r.next[o[k - 1]] = t
            /\ \A i \in 1..n : i # k - 1 => r.next[o[i]] = l.next[o[i]]
        BY <2>3, <3>1, Zenon
      <3>3. k \in 1..(n + 1)
        BY <3>1, Zenon
      <3> HIDE DEF k
      <3>4. Chain(r, n + 1, Put(n, o, t, k)) /\ Elements(n + 1, Put(n, o, t, k)) = Elements(n, o) \cup {t}
        BY <2>2, <3>2, <3>3, PutChain
      <3> QED BY <3>4, Zenon DEF k
    <2>5. \A i \in 1..n : i < n + 1 <=> when[o[i]] <= when[t]
      BY <1>1, <1>2, <1>3, <1>8
    <2>6. n + 1 \in 1..(n + 1)
      OBVIOUS
    <2> QED BY <2>2, <2>4, <2>5, <2>6, Zenon
  <1>9. CASE n # 0 /\ ~(when[t] < when[o[1]]) /\ when[t] # Never
    <2>a. PICK m \in 1..n : Trails(l, n, o, t, when, m)
      <3>1. n \in 1..MaxTimers /\ t \in Timers
        BY <1>9
      <3>2. ~(when[t] < when[o[1]])
        BY <1>9, Zenon
      <3> HIDE TimerAssumption
      <3> QED BY ONLY <3>1, <3>2, Chain(l, n, o), Sorted(n, o, when), when \in [Timers -> 0..Never], TrailChain, Zenon
    <2>1. /\ Trail(l, t, when) = o[m]
          /\ \A i \in 1..n : i <= m <=> when[o[i]] <= when[t]
      BY <2>a, Zenon DEF Trails
    <2>2. r = [head |-> l.head, tail |-> IF o[m] = l.tail THEN t ELSE l.tail,
               next |-> [l.next EXCEPT ![o[m]] = t, ![t] = l.next[o[m]]]]
      BY <1>1, <1>4, <1>9, <2>1 DEF InsertTimer
    <2>3. r \in Lists
      BY <1>1, <1>5, <2>2 DEF Lists
    <2>4. /\ r.head = l.head
          /\ r.tail = (IF m = n THEN t ELSE l.tail)
          /\ r.next[t] = (IF m = n THEN NULL ELSE o[m + 1])
          /\ r.next[o[m]] = t
          /\ \A i \in 1..n : i # m => r.next[o[i]] = l.next[o[i]]
      BY <1>1, <1>4, <1>5, <1>9, <2>2
    <2>5. /\ Chain(r, n + 1, Put(n, o, t, m + 1))
          /\ Elements(n + 1, Put(n, o, t, m + 1)) = Elements(n, o) \cup {t}
      <3>1. m + 1 \in 1..(n + 1) /\ m + 1 # 1 /\ (m + 1) - 1 = m /\ (m = n <=> m + 1 = n + 1)
        OBVIOUS
      <3> DEFINE k == m + 1
      <3>2. /\ r.head = IF k = 1 THEN t ELSE l.head
            /\ r.tail = IF k = n + 1 THEN t ELSE l.tail
            /\ r.next[t] = IF k = n + 1 THEN NULL ELSE o[k]
            /\ k # 1 => r.next[o[k - 1]] = t
            /\ \A i \in 1..n : i # k - 1 => r.next[o[i]] = l.next[o[i]]
        BY <2>4, <3>1, Zenon
      <3>3. k \in 1..(n + 1)
        BY <3>1, Zenon
      <3> HIDE DEF k
      <3>4. Chain(r, n + 1, Put(n, o, t, k)) /\ Elements(n + 1, Put(n, o, t, k)) = Elements(n, o) \cup {t}
        BY <2>3, <3>2, <3>3, PutChain
      <3> QED BY <3>4, Zenon DEF k
    <2>6. m + 1 \in 1..(n + 1) /\ \A i \in 1..n : i < m + 1 <=> when[o[i]] <= when[t]
      BY <2>1
    <2> QED BY <2>3, <2>5, <2>6, Zenon
  <1> QED BY <1>6, <1>7, <1>8, <1>9, Zenon

\* Taking an element out keeps the order of the others.
LEMMA SortedDrop ==
    ASSUME NEW n \in Nat, NEW o, NEW when, Sorted(n, o, when), NEW k \in 1..n
    PROVE  Sorted(n - 1, Drop(n, o, k), when)
  <1> SUFFICES ASSUME NEW i \in 1..(n - 1), NEW j \in 1..(n - 1), i < j
               PROVE  when[Drop(n, o, k)[i]] <= when[Drop(n, o, k)[j]]
    BY Zenon DEF Sorted
  <1>1. /\ Drop(n, o, k)[i] = IF i < k THEN o[i] ELSE o[i + 1]
        /\ Drop(n, o, k)[j] = IF j < k THEN o[j] ELSE o[j + 1]
    BY Zenon DEF Drop
  <1>2. /\ i \in 1..n /\ j \in 1..n /\ i + 1 \in 1..n /\ j + 1 \in 1..n
        /\ i < j + 1 /\ i + 1 < j + 1 /\ ~(~(i < k) /\ j < k)
    OBVIOUS
  <1> QED BY <1>1, <1>2, Zenon DEF Sorted

\* Putting a timer behind all that are not later keeps the chain in order.
LEMMA SortedPut ==
    ASSUME NEW n \in Nat, NEW o, NEW when, Sorted(n, o, when), NEW k \in 1..(n + 1), NEW t,
           when[t] \in Int, \A i \in 1..n : when[o[i]] \in Int,
           \A i \in 1..n : i < k <=> when[o[i]] <= when[t]
    PROVE  Sorted(n + 1, Put(n, o, t, k), when)
  <1> DEFINE q == Put(n, o, t, k)
  <1> SUFFICES ASSUME NEW i \in 1..(n + 1), NEW j \in 1..(n + 1), i < j
               PROVE  when[q[i]] <= when[q[j]]
    BY Zenon DEF Sorted
  <1>1. /\ q[i] = IF i < k THEN o[i] ELSE IF i = k THEN t ELSE o[i - 1]
        /\ q[j] = IF j < k THEN o[j] ELSE IF j = k THEN t ELSE o[j - 1]
    BY Zenon DEF Put
  <1> HIDE DEF q
  <1>2. CASE j < k
    BY <1>1, <1>2 DEF Sorted
  <1>3. CASE j = k
    BY <1>1, <1>3
  <1>4. CASE j > k
    <2>1. q[j] = o[j - 1] /\ j - 1 \in 1..n /\ when[t] < when[o[j - 1]]
      BY <1>1, <1>4
    <2>2. CASE i < k
      <3>1. i \in 1..n /\ i < j - 1 /\ q[i] = o[i]
        BY <1>1, <1>4, <2>2
      <3> QED BY <2>1, <3>1, Zenon DEF Sorted
    <2>3. CASE i = k
      BY <1>1, <2>1, <2>3
    <2>4. CASE i > k
      <3>1. i - 1 \in 1..n /\ i - 1 < j - 1 /\ q[i] = o[i - 1]
        BY <1>1, <2>4
      <3> QED BY <2>1, <3>1, Zenon DEF Sorted
    <2> QED BY <2>2, <2>3, <2>4
  <1> QED BY <1>2, <1>3, <1>4

\* The list r has the elements q[1], ..., q[m]: those of the list o but t, or those
\* and t, in the same order.
Without(r, m, q, n, o, when, t) ==
    /\ Chain(r, m, q)
    /\ Sorted(m, q, when)
    /\ Elements(m, q) = Elements(n, o) \ {t}
    /\ \A x, y \in Timers \ {t} : Before(n, o, x, y) => Before(m, q, x, y)
With(r, m, q, n, o, when, t) ==
    /\ Chain(r, m, q)
    /\ Sorted(m, q, when)
    /\ Elements(m, q) = Elements(n, o) \cup {t}
    /\ \A x, y \in Timers : Before(n, o, x, y) => Before(m, q, x, y)
    /\ \A x \in Elements(n, o) : when[x] <= when[t] => Before(m, q, x, t)

\* RemoveTimer in terms of the elements of the list and of their order.
LEMMA Removed ==
    ASSUME NEW l \in Lists, NEW n \in 0..MaxTimers, NEW o, Chain(l, n, o), NEW when,
           Sorted(n, o, when), NEW t \in Elements(n, o),
           NEW r, r = RemoveTimer(l, t, Prev(l, t))
    PROVE  /\ r \in Lists
           /\ n - 1 \in 0..MaxTimers
           /\ \E q \in [1..(n - 1) -> Timers] : Without(r, n - 1, q, n, o, when, t)
  <1> USE TimerAssumption
  <1>1. PICK k \in 1..n : t = o[k]
    BY Zenon DEF Elements
  <1> DEFINE q == Drop(n, o, k)
  <1>2. /\ r \in Lists /\ Chain(r, n - 1, q)
        /\ Elements(n - 1, q) = Elements(n, o) \ {t}
    BY <1>1, RemoveChain
  <1>3. Sorted(n - 1, q, when)
    BY SortedDrop
  <1>4. ASSUME NEW x \in Timers \ {t}, NEW y \in Timers \ {t}, Before(n, o, x, y)
        PROVE  Before(n - 1, q, x, y)
    <2>1. PICK i \in 1..n, j \in 1..n : i < j /\ o[i] = x /\ o[j] = y
      BY <1>4, Zenon DEF Before
    <2>2. i # k /\ j # k
      BY <1>1, <2>1, Zenon
    <2> DEFINE a == IF i < k THEN i ELSE i - 1
               b == IF j < k THEN j ELSE j - 1
    <2>3. a \in 1..(n - 1) /\ b \in 1..(n - 1) /\ a < b
      BY <2>1, <2>2
    <2>4. q[a] = x /\ q[b] = y
      BY <2>1, <2>2, <2>3 DEF Drop
    <2> HIDE DEF a, b, q
    <2> QED BY <2>3, <2>4, Zenon DEF Before
  <1>5. n - 1 \in 0..MaxTimers /\ q \in [1..(n - 1) -> Timers]
    BY <1>2 DEF Chain
  <1> HIDE DEF q
  <1>6. Without(r, n - 1, q, n, o, when, t)
    BY <1>2, <1>3, <1>4, Zenon DEF Without
  <1> QED BY <1>2, <1>5, <1>6, Zenon

\* InsertTimer in terms of the elements of the list and of their order.
LEMMA Inserted ==
    ASSUME NEW l \in Lists, NEW n \in 0..MaxTimers, NEW o, Chain(l, n, o),
           NEW when \in [Timers -> 0..Never], Sorted(n, o, when),
           NEW t \in Timers \ Elements(n, o), NEW r, r = InsertTimer(l, t, when)
    PROVE  /\ r \in Lists
           /\ n + 1 \in 0..MaxTimers
           /\ \E q \in [1..(n + 1) -> Timers] : With(r, n + 1, q, n, o, when, t)
  <1> USE TimerAssumption
  <1>1. r \in Lists
    BY InsertChain, Zenon
  <1>2. PICK k \in 1..(n + 1) :
            /\ Chain(r, n + 1, Put(n, o, t, k))
            /\ Elements(n + 1, Put(n, o, t, k)) = Elements(n, o) \cup {t}
            /\ \A i \in 1..n : i < k <=> when[o[i]] <= when[t]
    BY InsertChain, Zenon
  <1> DEFINE q == Put(n, o, t, k)
  <1>3. n + 1 \in 0..MaxTimers
    BY <1>2, ChainShort
  <1>4. Sorted(n + 1, q, when)
    <2>1. when[t] \in Int /\ \A i \in 1..n : when[o[i]] \in Int
      BY DEF Chain, Never
    <2> QED BY <1>2, <2>1, SortedPut
  <1>5. \A i \in 1..n : q[IF i < k THEN i ELSE i + 1] = o[i]
    BY DEF Put
  <1>6. q[k] = t
    BY DEF Put
  <1> HIDE DEF q
  <1>7. ASSUME NEW x \in Timers, NEW y \in Timers, Before(n, o, x, y)
        PROVE  Before(n + 1, q, x, y)
    <2>1. PICK i \in 1..n, j \in 1..n : i < j /\ o[i] = x /\ o[j] = y
      BY <1>7, Zenon DEF Before
    <2> DEFINE a == IF i < k THEN i ELSE i + 1
               b == IF j < k THEN j ELSE j + 1
    <2>2. a \in 1..(n + 1) /\ b \in 1..(n + 1) /\ a < b /\ q[a] = x /\ q[b] = y
      BY <1>5, <2>1
    <2> HIDE DEF a, b
    <2> QED BY <2>2, Zenon DEF Before
  <1>8. ASSUME NEW x \in Elements(n, o), when[x] <= when[t]
        PROVE  Before(n + 1, q, x, t)
    <2>1. PICK i \in 1..n : o[i] = x
      BY Zenon DEF Elements
    <2>2. i < k /\ i \in 1..(n + 1) /\ q[i] = x
      BY <1>2, <1>5, <1>8, <2>1
    <2> QED BY <1>6, <2>2, Zenon DEF Before
  <1>9. Chain(r, n + 1, q) /\ Elements(n + 1, q) = Elements(n, o) \cup {t}
    BY <1>2, Zenon DEF q
  <1>10. q \in [1..(n + 1) -> Timers]
    BY <1>9, Zenon DEF Chain
  <1>11. With(r, n + 1, q, n, o, when, t)
    BY <1>4, <1>7, <1>8, <1>9, Zenon DEF With
  <1> QED BY <1>1, <1>3, <1>10, <1>11, Zenon

\* Sorted only looks at the times of the elements.
LEMMA SortedSame ==
    ASSUME NEW n \in Nat, NEW o, NEW f, NEW g, Sorted(n, o, f),
           \A x \in Elements(n, o) : g[x] = f[x]
    PROVE  Sorted(n, o, g)
  <1>1. \A i \in 1..n : g[o[i]] = f[o[i]]
    BY Zenon DEF Elements
  <1> QED BY <1>1, Zenon DEF Sorted

SameBut(f, g, t) == \A x \in Timers \ {t} : f[x] = g[x]

\* The list r is sorted again after t alone has changed its place in o.
Moved(r, n, o, q, when, t) ==
    /\ Chain(r, n, q)
    /\ Sorted(n, q, when)
    /\ Elements(n, q) = Elements(n, o)
    /\ \A x, y \in Timers \ {t} : Before(n, o, x, y) => Before(n, q, x, y)
    /\ \A x \in Elements(n, o) \ {t} : when[x] <= when[t] => Before(n, q, x, t)

\* A timer that is taken out and inserted again with another time.
LEMMA Relinked ==
    ASSUME NEW l \in Lists, NEW n \in 0..MaxTimers, NEW o, Chain(l, n, o),
           NEW f, Sorted(n, o, f), NEW t \in Timers, t \in Elements(n, o),
           NEW when \in [Timers -> 0..Never], SameBut(when, f, t),
           NEW r, r = InsertTimer(RemoveTimer(l, t, Prev(l, t)), t, when)
    PROVE  /\ r \in Lists
           /\ \E q \in [1..n -> Timers] : Moved(r, n, o, q, when, t)
  <1> DEFINE w == RemoveTimer(l, t, Prev(l, t))
             m == n - 1
  <1>1. w \in Lists /\ m \in 0..MaxTimers
    BY Removed, Zenon
  <1>r. PICK p \in [1..m -> Timers] : Without(w, m, p, n, o, f, t)
    BY Removed, Zenon
  <1>2. /\ Chain(w, m, p)
        /\ Sorted(m, p, f)
        /\ Elements(m, p) = Elements(n, o) \ {t}
        /\ \A x, y \in Timers \ {t} : Before(n, o, x, y) => Before(m, p, x, y)
    BY <1>r, Zenon DEF Without
  <1>3. m + 1 = n
    BY TimerAssumption
  <1>4. r = InsertTimer(w, t, when)
    BY Zenon
  <1> HIDE DEF w, m
  <1>5. Sorted(m, p, when)
    <2>1. Elements(m, p) \subseteq Timers
      BY Zenon DEF Elements
    <2>2. \A x \in Elements(m, p) : when[x] = f[x]
      BY <1>2, <2>1, Zenon DEF SameBut
    <2>3. m \in Nat
      BY <1>1, TimerAssumption
    <2> QED BY <1>2, <2>2, <2>3, SortedSame, Zenon
  <1>6. t \in Timers \ Elements(m, p)
    BY <1>2, Zenon
  <1>7. r \in Lists
    BY <1>1, <1>2, <1>4, <1>5, <1>6, Inserted, Zenon
  <1>s. PICK q \in [1..(m + 1) -> Timers] : With(r, m + 1, q, m, p, when, t)
    BY <1>1, <1>2, <1>4, <1>5, <1>6, Inserted, Zenon
  <1>8. /\ Chain(r, m + 1, q)
        /\ Sorted(m + 1, q, when)
        /\ Elements(m + 1, q) = Elements(m, p) \cup {t}
        /\ \A x, y \in Timers : Before(m, p, x, y) => Before(m + 1, q, x, y)
        /\ \A x \in Elements(m, p) : when[x] <= when[t] => Before(m + 1, q, x, t)
    BY <1>s, Zenon DEF With
  <1>9. q \in [1..n -> Timers] /\ Moved(r, n, o, q, when, t)
    BY <1>2, <1>3, <1>8, Zenon DEF Moved
  <1> QED BY <1>7, <1>9, Zenon

\* The head of the list is its earliest element, and no element is before it.
LEMMA HeadFirst ==
    ASSUME NEW l, NEW n \in 0..MaxTimers, NEW o, Chain(l, n, o),
           NEW when \in [Timers -> 0..Never], Sorted(n, o, when)
    PROVE  /\ l.head = NULL <=> n = 0
           /\ l.head # NULL => l.head \in Elements(n, o)
           /\ \A x \in Elements(n, o) :
                /\ l.head # NULL
                /\ when[l.head] <= when[x]
                /\ ~Before(n, o, x, l.head)
  <1> USE TimerAssumption
  <1>1. \A i \in 1..n : o[i] \in Timers /\ o[i] # NULL /\ when[o[i]] \in Int
    BY DEF Chain, Timers, NULL, Never
  <1>2. l.head = (IF n = 0 THEN NULL ELSE o[1]) /\ (n # 0 => 1 \in 1..n)
    BY DEF Chain
  <1>3. l.head = NULL <=> n = 0
    BY <1>1, <1>2, Zenon
  <1>4. l.head # NULL => l.head \in Elements(n, o)
    BY <1>2, Zenon DEF Elements
  <1>5. ASSUME NEW i \in 1..n
        PROVE  l.head # NULL /\ when[l.head] <= when[o[i]]
    <2>1. l.head = o[1] /\ n # 0
      BY <1>2
    <2>2. CASE i = 1
      BY <1>1, <2>1, <2>2
    <2>3. CASE i # 1
      BY <1>1, <1>2, <2>1, <2>3 DEF Sorted
    <2> QED BY <1>3, <2>1, <2>2, <2>3, Zenon
  <1>6. ASSUME NEW x, Before(n, o, x, l.head) PROVE FALSE
    <2>1. PICK i \in 1..n, j \in 1..n : i < j /\ o[j] = l.head
      BY <1>6, Zenon DEF Before
    <2>2. o[j] = o[1] /\ 1 \in 1..n /\ j # 1
      BY <1>2, <2>1
    <2> QED BY <2>2, Zenon DEF Chain
  <1> QED BY <1>3, <1>4, <1>5, <1>6, Zenon DEF Elements

\* The larger of two numbers.
LEMMA MaxPair ==
    ASSUME NEW a \in Int, NEW b \in Int
    PROVE  Max({a, b}) = IF a <= b THEN b ELSE a
  <1>1. \E x \in {a, b} : \A y \in {a, b} : y <= x
    OBVIOUS
  <1> QED BY <1>1 DEF Max

\* A number is at most the larger of two if it is at most one of them.
LEMMA AtMostMax ==
    ASSUME NEW a \in Int, NEW b \in Int, NEW c \in Int
    PROVE  c <= Max({a, b}) <=> c <= a \/ c <= b
  BY MaxPair

\* The smaller of two numbers.
LEMMA MinPair ==
    ASSUME NEW a \in Int, NEW b \in Int
    PROVE  Min({a, b}) = IF a <= b THEN a ELSE b
  <1>1. \E x \in {a, b} : \A y \in {a, b} : x <= y
    OBVIOUS
  <1> QED BY <1>1 DEF Min

-----------------------------------------------------------------------------
\* The actions keep the invariant

\* The constructor's empty list satisfies the invariant.
LEMMA Initial == Init => IInv
  <1> SUFFICES ASSUME Init PROVE IInv
    BY Zenon
  <1> USE TimerAssumption
  <1>1. TypeOK
    <2>1. Never \in Nat
      BY DEF Never
    <2>2. timer \in [Timers -> Times]
      BY <2>1 DEF Init, Times, Unset
    <2>3. list \in Lists
      BY Zenon DEF Init, Lists
    <2>4. wake \in [at : 0..Never, woken : BOOLEAN]
      BY <2>1 DEF Init
    <2>5. /\ timer_ids \in 0..MaxTimers /\ now \in 0..MaxTime /\ clock \in 0..MaxTime
          /\ fires \in 0..MaxFires
      BY DEF Init
    <2>6. passed \in [Timers -> SUBSET Timers]
      BY Zenon DEF Init
    <2> QED BY <2>2, <2>3, <2>4, <2>5, <2>6, Zenon DEF Init, TypeOK
  <1>2. InTimeoutInv
    BY Zenon DEF Init, InTimeoutInv
  <1>3. NoOversleep
    BY Zenon DEF Init, NoOversleep
  <1> DEFINE e == [i \in 1..0 |-> 1]
  <1>4. e \in [1..0 -> Timers] /\ 0 \in 0..MaxTimers
    OBVIOUS
  <1>5. ChainInv(0, e)
    <2>1. Chain(list, 0, e)
      BY DEF Init, Chain
    <2>2. Sorted(0, e, When(timer))
      BY DEF Sorted
    <2>3. Elements(0, e) = {}
      BY DEF Elements
    <2>4. RoundRobin(0, e)
      BY Zenon DEF Init, RoundRobin
    <2> QED BY <2>1, <2>2, <2>3, <2>4, Zenon DEF Init, ChainInv
  <1> HIDE DEF e
  <1> QED BY <1>1, <1>2, <1>3, <1>4, <1>5, Zenon DEF IInv

\* What the types give every action.
LEMMA TypeFacts ==
    ASSUME TypeOK
    PROVE  /\ Never \in Nat /\ MaxTime \in Nat /\ MaxTimers \in Nat
           /\ When(timer) \in [Timers -> 0..Never]
           /\ \A t \in Timers :
                /\ When(timer)[t] = timer[t].when
                /\ timer[t] \in Times /\ timer[t].when \in Int
                /\ timer[t].period \in Int /\ timer[t].started \in Int
           /\ clock \in Int /\ clock \in 0..MaxTime
           /\ timer_ids \in Int
  <1>1. Never \in Nat /\ MaxTime \in Nat /\ MaxTimers \in Nat
    BY TimerAssumption DEF Never
  <1> QED BY <1>1 DEF TypeOK, When, Times

\* A clock tick changes no order; what was due stays due.
LEMMA TickStep == ASSUME IInv, Tick PROVE IInv'
  <1>0. TypeOK /\ InTimeoutInv /\ NoOversleep
    BY Zenon DEF IInv
  <1> USE <1>0
  <1>1. TypeOK'
    BY TypeFacts DEF TypeOK, Tick
  <1>2. InTimeoutInv'
    BY Zenon DEF InTimeoutInv, Tick
  <1>3. NoOversleep'
    <2> SUFFICES ASSUME pc = "select", ~wake.woken, list.head # NULL
                 PROVE  wake.at <= Max({timer[list.head].when, clock + 1})
      BY Zenon DEF NoOversleep, Tick
    <2>1. wake.at <= Max({timer[list.head].when, clock})
      BY Zenon DEF NoOversleep
    <2>2. timer[list.head].when \in Int /\ wake.at \in Int
      BY TypeFacts DEF TypeOK, Lists
    <2>3. wake.at <= timer[list.head].when \/ wake.at <= clock
      BY <2>1, <2>2, AtMostMax, TypeFacts, Zenon
    <2>4. clock + 1 \in Int /\ (wake.at <= timer[list.head].when \/ wake.at <= clock + 1)
      BY <2>2, <2>3, TypeFacts
    <2> QED BY <2>2, <2>4, AtMostMax, Zenon
  <1>n. PICK n \in 0..MaxTimers : \E o \in [1..n -> Timers] : ChainInv(n, o)
    BY Zenon DEF IInv
  <1>4. PICK o \in [1..n -> Timers] : ChainInv(n, o)
    BY <1>n, Zenon
  <1>5. ChainInv(n, o)'
    <2>1. RoundRobin(n, o)'
      BY <1>4, TypeFacts DEF ChainInv, RoundRobin, Tick, Serving
    <2> QED BY <1>4, <2>1, Zenon DEF ChainInv, Tick, When
  <1> QED BY <1>1, <1>2, <1>3, <1>5, Zenon DEF IInv

\* Timeout() starts: nothing of the list changes.
LEMMA StartStep == ASSUME IInv, StartTimeout PROVE IInv'
  <1>0. TypeOK /\ InTimeoutInv /\ NoOversleep
    BY Zenon DEF IInv
  <1> USE <1>0
  <1>1. TypeOK'
    BY TimerAssumption, TypeFacts DEF TypeOK, StartTimeout
  <1>2. InTimeoutInv'
    BY Zenon DEF InTimeoutInv, StartTimeout
  <1>3. NoOversleep'
    BY Zenon DEF NoOversleep, StartTimeout
  <1>n. PICK n \in 0..MaxTimers : \E o \in [1..n -> Timers] : ChainInv(n, o)
    BY Zenon DEF IInv
  <1>4. PICK o \in [1..n -> Timers] : ChainInv(n, o)
    BY <1>n, Zenon
  <1>5. ChainInv(n, o)'
    <2>1. RoundRobin(n, o)'
      BY <1>4, Zenon DEF ChainInv, RoundRobin, StartTimeout, Serving
    <2> QED BY <1>4, <2>1, Zenon DEF ChainInv, StartTimeout, When
  <1> QED BY <1>1, <1>2, <1>3, <1>5, Zenon DEF IInv

\* The handler of the head is called: the timers that are due see it pass.
LEMMA CallStep == ASSUME IInv, CallHandler PROVE IInv'
  <1>0. TypeOK /\ InTimeoutInv /\ NoOversleep
    BY Zenon DEF IInv
  <1> USE <1>0
  <1>n. PICK n \in 0..MaxTimers : \E o \in [1..n -> Timers] : ChainInv(n, o)
    BY Zenon DEF IInv
  <1>4. PICK o \in [1..n -> Timers] : ChainInv(n, o)
    BY <1>n, Zenon
  <1>5. list.head \in Timers /\ list.head # NULL /\ pc = "loop" /\ ~did_reset /\ ~did_cancel
    BY DEF CallHandler, MoreToFire, InTimeoutInv, Timers, NULL
  <1>6. Listed(list) = Elements(n, o)
    BY <1>4, ListedChain, Zenon DEF ChainInv
  <1>7. list.head \in Elements(n, o) /\ list.head \in alive
    BY <1>4, <1>5, HeadFirst, TypeFacts, Zenon DEF ChainInv
  <1>1. TypeOK'
    <2>1. fires' \in 0..MaxFires
      <3>1. fires \in Int /\ fires + 1 \in Int /\ MaxFires \in Int
        BY TimerAssumption DEF TypeOK
      <3>2. Min({fires + 1, MaxFires}) = IF fires + 1 <= MaxFires THEN fires + 1 ELSE MaxFires
        BY <3>1, MinPair, Zenon
      <3> QED BY <3>1, <3>2, TimerAssumption DEF CallHandler, TypeOK
    <2>2. passed' \in [Timers -> SUBSET Timers]
      BY <1>5, Zenon DEF CallHandler, TypeOK
    <2> QED BY <1>5, <2>1, <2>2, Zenon DEF TypeOK, CallHandler
  <1>2. InTimeoutInv'
    BY <1>7, Zenon DEF InTimeoutInv, CallHandler
  <1>3. NoOversleep'
    BY Zenon DEF NoOversleep, CallHandler
  <1>8. ChainInv(n, o)'
    <2>1. RoundRobin(n, o)'
      <3> SUFFICES ASSUME NEW t \in Timers, NEW h \in passed'[t]
                   PROVE  /\ h \in 1..timer_ids /\ h # t
                          /\ timer[t].when <= clock
                          /\ t # list.head
                          /\ t \in Elements(n, o)
                          /\ (h \in Elements(n, o) /\ h # list.head)
                                 => (Before(n, o, t, h) /\ timer[t].when <= timer[h].started)
        BY <1>5, Zenon DEF RoundRobin, CallHandler, Serving
      <3>1. t # list.head /\ (h \in passed[t] \/ (h = list.head /\ Due(t)))
        BY Zenon DEF CallHandler
      <3>2. CASE h \in passed[t]
        BY <1>4, <1>5, <3>1, <3>2, Zenon DEF ChainInv, RoundRobin, Serving
      <3>3. CASE h = list.head /\ Due(t)
        BY <1>6, <1>7, <3>1, <3>3, Zenon DEF Due, TypeOK
      <3> QED BY <3>1, <3>2, <3>3, Zenon
    <2> QED BY <1>4, <1>5, <2>1, Zenon DEF ChainInv, CallHandler, When
  <1> QED BY <1>1, <1>2, <1>3, <1>8, Zenon DEF IInv

\* Timeout() ends: its result is the time of the head.
LEMMA EndStep == ASSUME IInv, EndTimeout PROVE IInv'
  <1>0. TypeOK /\ InTimeoutInv /\ NoOversleep
    BY Zenon DEF IInv
  <1> USE <1>0
  <1>n. PICK n \in 0..MaxTimers : \E o \in [1..n -> Timers] : ChainInv(n, o)
    BY Zenon DEF IInv
  <1>4. PICK o \in [1..n -> Timers] : ChainInv(n, o)
    BY <1>n, Zenon
  <1>5. pc = "loop" /\ ~did_reset /\ ~did_cancel
    BY Zenon DEF EndTimeout, InTimeoutInv
  <1>6. list.head # NULL => timer[list.head].when \in 0..Never
    BY Zenon DEF TypeOK, Lists, Times
  <1>7. wake'.at = IF list.head = NULL \/ timer[list.head].when = Never THEN Never
                   ELSE Max({timer[list.head].when, clock})
    BY Zenon DEF EndTimeout, TypeOK
  <1>1. TypeOK'
    <2>1. wake'.at \in 0..Never
      <3>1. clock <= Never /\ Never \in 0..Never
        BY TimerAssumption, TypeFacts DEF Never
      <3>2. CASE list.head = NULL \/ timer[list.head].when = Never
        BY <1>7, <3>1, <3>2, Zenon
      <3>3. CASE ~(list.head = NULL \/ timer[list.head].when = Never)
        <4>1. timer[list.head].when \in Int
          BY <1>6, <3>3
        <4>2. Max({timer[list.head].when, clock}) =
                IF timer[list.head].when <= clock THEN clock ELSE timer[list.head].when
          BY <4>1, MaxPair, TypeFacts, Zenon
        <4> QED BY <1>6, <1>7, <3>1, <3>3, <4>2, TypeFacts
      <3> QED BY <3>2, <3>3, Zenon
    <2>2. wake' \in [at : 0..Never, woken : BOOLEAN]
      BY <2>1, Zenon DEF EndTimeout, TypeOK
    <2> QED BY <2>2, TimerAssumption DEF TypeOK, EndTimeout, NULL
  <1>2. InTimeoutInv'
    BY <1>5, Zenon DEF InTimeoutInv, EndTimeout
  <1>3. NoOversleep'
    <2> SUFFICES ASSUME list.head # NULL
                 PROVE  wake'.at <= Max({timer[list.head].when, clock})
      BY Zenon DEF NoOversleep, EndTimeout
    <2>1. timer[list.head].when \in Int
      BY <1>6
    <2>2. Max({timer[list.head].when, clock}) \in Int
      BY <2>1, MaxPair, TypeFacts, Zenon
    <2>3. CASE timer[list.head].when = Never
      <3>1. Never <= Max({timer[list.head].when, clock})
        BY <2>1, <2>3, AtMostMax, TypeFacts
      <3> QED BY <1>7, <2>3, <3>1, Zenon
    <2>4. CASE timer[list.head].when # Never
      BY <1>7, <2>2, <2>4
    <2> QED BY <2>3, <2>4, Zenon
  <1>8. ChainInv(n, o)'
    <2>1. RoundRobin(n, o)'
      BY <1>4, <1>5, Zenon DEF ChainInv, RoundRobin, EndTimeout, Serving
    <2> QED BY <1>4, <1>5, <2>1, Zenon DEF ChainInv, EndTimeout, When
  <1> QED BY <1>1, <1>2, <1>3, <1>8, Zenon DEF IInv

\* The times that a request asks for.
LEMMA AfterType ==
    ASSUME TypeOK, NEW d \in (0..MaxTime) \cup {Never}
    PROVE  After(d) \in 0..Never /\ clock <= After(d)
  BY TypeFacts, TimerAssumption DEF After, Never

\* What Wake_up_select leaves of the time select() waits.
LEMMA WakesType ==
    ASSUME TypeOK, NEW l, NEW t
    PROVE  Wakes(l, t) \in [at : 0..Never, woken : BOOLEAN]
  BY Zenon DEF Wakes, TypeOK

\* select() does not oversleep a head that was on the list before.
LEMMA SleepsEnough ==
    ASSUME IInv, NEW n \in 0..MaxTimers, NEW o, Chain(list, n, o), Sorted(n, o, When(timer)),
           pc = "select", ~wake.woken, NEW h \in Timers, h \in Elements(n, o)
    PROVE  wake.at <= Max({timer[h].when, clock})
  <1>0. TypeOK /\ InTimeoutInv /\ NoOversleep
    BY Zenon DEF IInv
  <1> USE <1>0
  <1>1. list.head # NULL /\ When(timer)[list.head] <= When(timer)[h]
    BY HeadFirst, TypeFacts, Zenon
  <1>2. list.head \in Timers
    BY <1>1, Zenon DEF TypeOK, Lists
  <1>3. timer[list.head].when <= timer[h].when
    BY <1>1, <1>2, TypeFacts, Zenon
  <1>4. timer[list.head].when \in Int /\ wake.at \in Int /\ timer[h].when \in Int
    BY <1>2, TypeFacts DEF TypeOK
  <1>5. wake.at <= Max({timer[list.head].when, clock})
    BY <1>1, Zenon DEF NoOversleep
  <1>6. wake.at <= timer[list.head].when \/ wake.at <= clock
    BY <1>4, <1>5, AtMostMax, TypeFacts, Zenon
  <1>7. wake.at <= timer[h].when \/ wake.at <= clock
    BY <1>3, <1>4, <1>6
  <1> QED BY <1>4, <1>7, AtMostMax, TypeFacts, Zenon DEF IInv

\* Nor one that was inserted during the select(), which is woken up for it.
LEMMA WakesEnough ==
    ASSUME IInv, NEW n \in 0..MaxTimers, NEW o, Chain(list, n, o), Sorted(n, o, When(timer)),
           NEW t \in Timers, NEW l, NEW m \in 0..MaxTimers, NEW q, Chain(l, m, q),
           NEW f \in [Timers -> Times], Sorted(m, q, When(f)),
           Elements(m, q) \subseteq Elements(n, o) \cup {t},
           \A x \in Timers \ {t} : f[x] = timer[x],
           pc = "select", ~Wakes(l, t).woken, l.head # NULL
    PROVE  Wakes(l, t).at <= Max({f[l.head].when, clock})
  <1>1. l.head # t /\ Wakes(l, t) = wake /\ ~wake.woken
    BY Zenon DEF Wakes, TypeOK, IInv
  <1>2. When(f) \in [Timers -> 0..Never]
    BY Zenon DEF When, Times
  <1>3. l.head \in Elements(m, q)
    BY <1>2, HeadFirst, Zenon
  <1>4. l.head \in Elements(n, o) /\ l.head \in Timers
    BY <1>1, <1>3, Zenon DEF Elements, Chain
  <1> QED BY <1>1, <1>4, SleepsEnough, Zenon

\* A new timer is in nobody's way: it has a fresh ID.
LEMMA NewStep ==
    ASSUME IInv, NEW d \in (0..MaxTime) \cup {Never}, NEW p \in 0..MaxTime, NewTimer(d, p)
    PROVE  IInv'
  <1>0. TypeOK /\ InTimeoutInv /\ NoOversleep
    BY Zenon DEF IInv
  <1> USE <1>0
  <1>n. PICK n \in 0..MaxTimers : \E o \in [1..n -> Timers] : ChainInv(n, o)
    BY Zenon DEF IInv
  <1>4. PICK o \in [1..n -> Timers] : ChainInv(n, o)
    BY <1>n, Zenon
  <1> DEFINE t == timer_ids + 1
             new == [when |-> After(d), period |-> p, started |-> clock]
  <1>5. /\ t \in Timers /\ timer_ids' = t /\ alive' = alive \cup {t}
        /\ timer' = [timer EXCEPT ![t] = new]
        /\ list' = InsertTimer(list, t, When(timer'))
        /\ wake' = Wakes(list', t)
        /\ UNCHANGED <<timeout, did_reset, did_cancel, passed>>
    BY TimerAssumption DEF NewTimer, Timers, TypeOK
  <1>6. new \in Times
    BY AfterType, TypeFacts, Zenon DEF Times
  <1>7. t \notin alive /\ t \notin 1..timer_ids
    BY DEF TypeOK
  <1>16. t \in 0..MaxTimers /\ t \in 1..t /\ \A h \in 1..timer_ids : h \in 1..t /\ h # t
    BY <1>5 DEF TypeOK, Timers
  <1> HIDE DEF t, new
  <1>8. t \notin Elements(n, o)
    BY <1>4, <1>7, Zenon DEF ChainInv
  <1>9. timer' \in [Timers -> Times] /\ timer'[t] = new /\ \A x \in Timers \ {t} : timer'[x] = timer[x]
    BY <1>5, <1>6, Zenon DEF TypeOK
  <1>10. /\ When(timer') \in [Timers -> 0..Never]
         /\ \A x \in Timers : When(timer')[x] = timer'[x].when
    BY <1>9, Zenon DEF When, Times
  <1>11. Sorted(n, o, When(timer'))
    <2>1. \A x \in Elements(n, o) : When(timer')[x] = When(timer)[x]
      <3>1. Elements(n, o) \subseteq Timers \ {t}
        BY <1>8, Zenon DEF Elements
      <3> QED BY <1>9, <1>10, <3>1, TypeFacts, Zenon
    <2>2. n \in Nat
      OBVIOUS
    <2> QED BY <1>4, <2>1, <2>2, SortedSame, Zenon DEF ChainInv
  <1>12. list \in Lists /\ Chain(list, n, o) /\ t \in Timers \ Elements(n, o)
    BY <1>4, <1>5, <1>8, Zenon DEF ChainInv, TypeOK
  <1>13. list' \in Lists /\ n + 1 \in 0..MaxTimers
    BY <1>5, <1>10, <1>11, <1>12, Inserted, Zenon
  <1>s. PICK q \in [1..(n + 1) -> Timers] : With(list', n + 1, q, n, o, When(timer'), t)
    BY <1>5, <1>10, <1>11, <1>12, Inserted, Zenon
  <1>14. /\ Chain(list', n + 1, q)
         /\ Sorted(n + 1, q, When(timer'))
         /\ Elements(n + 1, q) = Elements(n, o) \cup {t}
         /\ \A x, y \in Timers : Before(n, o, x, y) => Before(n + 1, q, x, y)
    BY <1>s, Zenon DEF With
  <1>1. TypeOK'
    <2>1. wake' \in [at : 0..Never, woken : BOOLEAN]
      BY <1>5, WakesType, Zenon
    <2>2. timer_ids' \in 0..MaxTimers /\ alive' \subseteq 1..timer_ids'
      BY <1>5, <1>16, Zenon DEF TypeOK
    <2> QED BY <1>5, <1>9, <1>13, <2>1, <2>2, Zenon DEF TypeOK, timeout
  <1>2. InTimeoutInv'
    BY <1>5, Zenon DEF InTimeoutInv, timeout
  <1>3. NoOversleep'
    <2> SUFFICES ASSUME pc = "select", ~Wakes(list', t).woken, list'.head # NULL
                 PROVE  Wakes(list', t).at <= Max({timer'[list'.head].when, clock})
      BY <1>5, Zenon DEF NoOversleep, timeout
    <2>1. Chain(list, n, o) /\ Sorted(n, o, When(timer))
      BY <1>4, Zenon DEF ChainInv
    <2>2. Elements(n + 1, q) \subseteq Elements(n, o) \cup {t}
      BY <1>14, Zenon
    <2> QED BY <1>5, <1>9, <1>13, <1>14, <2>1, <2>2, WakesEnough, Zenon
  <1>15. ChainInv(n + 1, q)'
    <2>1. RoundRobin(n + 1, q)'
      <3> SUFFICES ASSUME NEW x \in Timers, NEW h \in passed[x]
                   PROVE  /\ h \in 1..timer_ids' /\ h # x
                          /\ timer'[x].when <= clock
                          /\ pc = "handler" => x # in_timeout
                          /\ x \in Elements(n + 1, q)
                          /\ (h \in Elements(n + 1, q) /\ ~Serving(h))
                               => (Before(n + 1, q, x, h) /\ timer'[x].when <= timer'[h].started)
        BY <1>5, Zenon DEF RoundRobin, Serving, timeout
      <3>1. /\ h \in 1..timer_ids /\ h # x
            /\ timer[x].when <= clock
            /\ pc = "handler" => x # in_timeout
            /\ x \in Elements(n, o)
            /\ (h \in Elements(n, o) /\ ~Serving(h))
                 => (Before(n, o, x, h) /\ timer[x].when <= timer[h].started)
        BY <1>4, Zenon DEF ChainInv, RoundRobin
      <3>2. h \in Timers /\ h # t /\ x # t /\ h \in 1..timer_ids'
        BY <1>5, <1>8, <1>16, <3>1, Zenon DEF TypeOK
      <3>3. timer'[x] = timer[x] /\ timer'[h] = timer[h]
        BY <1>9, <3>2, Zenon
      <3> QED BY <1>14, <3>1, <3>2, <3>3, Zenon
    <2>2. alive' = Elements(n + 1, q) \cup {x \in {in_timeout'} : did_cancel'}
      BY <1>4, <1>5, <1>14, Zenon DEF ChainInv, timeout
    <2>3. did_cancel' => in_timeout' \notin Elements(n + 1, q)
      BY <1>4, <1>5, <1>7, <1>14, Zenon DEF ChainInv, timeout
    <2> QED BY <1>14, <2>1, <2>2, <2>3, Zenon DEF ChainInv
  <1> QED BY <1>1, <1>2, <1>3, <1>13, <1>15, Zenon DEF IInv

\* A timer that is reset goes behind all that saw it pass.
LEMMA ResetStep ==
    ASSUME IInv, Calls, NEW t \in Timers, t \in Listed(list), NEW new \in Times, Reset(t, new),
           \A x \in Timers : t \in passed[x]
               => timer[x].when <= new.when /\ timer[x].when <= new.started
    PROVE  IInv'
  <1>0. TypeOK /\ InTimeoutInv /\ NoOversleep
    BY Zenon DEF IInv
  <1> USE <1>0
  <1>n. PICK n \in 0..MaxTimers : \E o \in [1..n -> Timers] : ChainInv(n, o)
    BY Zenon DEF IInv
  <1>4. PICK o \in [1..n -> Timers] : ChainInv(n, o)
    BY <1>n, Zenon
  <1>5. /\ timer' = [timer EXCEPT ![t] = new]
        /\ list' = InsertTimer(RemoveTimer(list, t, Prev(list, t)), t, When(timer'))
        /\ wake' = Wakes(list', t)
        /\ did_reset' = (did_reset \/ in_timeout = t)
        /\ passed' = [passed EXCEPT ![t] = {}]
        /\ UNCHANGED <<timeout, alive, timer_ids, did_cancel>>
    BY Zenon DEF Reset
  <1>6. /\ list \in Lists /\ Chain(list, n, o) /\ Sorted(n, o, When(timer))
        /\ t \in Elements(n, o)
    BY <1>4, ListedChain, Zenon DEF ChainInv, TypeOK
  <1>7. timer' \in [Timers -> Times] /\ timer'[t] = new /\ \A x \in Timers \ {t} : timer'[x] = timer[x]
    BY <1>5, Zenon DEF TypeOK
  <1>8. /\ When(timer') \in [Timers -> 0..Never]
        /\ \A x \in Timers : When(timer')[x] = timer'[x].when
    BY <1>7, Zenon DEF When, Times
  <1>9. \A x \in Timers \ {t} : When(timer')[x] = When(timer)[x]
    BY <1>7, <1>8, TypeFacts, Zenon
  <1> DEFINE when == When(timer')
  <1>10. /\ list' \in Lists
         /\ \E q \in [1..n -> Timers] : Moved(list', n, o, q, when, t)
    <2> HIDE DEF when
    <2>1. list' = InsertTimer(RemoveTimer(list, t, Prev(list, t)), t, when)
      BY <1>5, Zenon DEF when
    <2>2. when \in [Timers -> 0..Never] /\ SameBut(when, When(timer), t)
      BY <1>8, <1>9, Zenon DEF when, SameBut
    <2> QED BY <1>6, <2>1, <2>2, Relinked, Zenon
  <1>11. PICK q \in [1..n -> Timers] :
            /\ Chain(list', n, q)
            /\ Sorted(n, q, When(timer'))
            /\ Elements(n, q) = Elements(n, o)
            /\ \A x, y \in Timers \ {t} : Before(n, o, x, y) => Before(n, q, x, y)
            /\ \A x \in Elements(n, o) \ {t} :
                 When(timer')[x] <= When(timer')[t] => Before(n, q, x, t)
    BY <1>10, Zenon DEF Moved
  <1>1. TypeOK'
    <2>1. wake' \in [at : 0..Never, woken : BOOLEAN]
      BY <1>5, WakesType, Zenon
    <2>2. passed' \in [Timers -> SUBSET Timers]
      BY <1>5, Zenon DEF TypeOK
    <2>3. did_reset' \in BOOLEAN
      BY <1>5, Zenon
    <2> QED BY <1>5, <1>7, <1>10, <2>1, <2>2, <2>3, Zenon DEF TypeOK, timeout
  <1>2. InTimeoutInv'
    <2>1. t # NULL
      BY DEF Timers, NULL
    <2>2. pc \in {"select", "handler"} /\ pc' = pc /\ in_timeout' = in_timeout
      BY <1>5, Zenon DEF timeout, Calls
    <2>3. CASE pc = "handler"
      BY <1>5, <2>2, <2>3, Zenon DEF InTimeoutInv
    <2>4. CASE pc = "select"
      BY <1>5, <2>1, <2>2, <2>4, Zenon DEF InTimeoutInv
    <2> QED BY <2>2, <2>3, <2>4, Zenon
  <1>3. NoOversleep'
    <2> SUFFICES ASSUME pc = "select", ~Wakes(list', t).woken, list'.head # NULL
                 PROVE  Wakes(list', t).at <= Max({timer'[list'.head].when, clock})
      BY <1>5, Zenon DEF NoOversleep, timeout
    <2>1. Elements(n, q) \subseteq Elements(n, o) \cup {t}
      BY <1>11, Zenon
    <2> QED BY <1>6, <1>7, <1>11, <2>1, WakesEnough, Zenon
  <1>12. ChainInv(n, q)'
    <2>1. RoundRobin(n, q)'
      <3> SUFFICES ASSUME NEW x \in Timers \ {t}, NEW h \in passed[x]
                   PROVE  /\ h \in 1..timer_ids /\ h # x
                          /\ timer'[x].when <= clock
                          /\ pc = "handler" => x # in_timeout
                          /\ x \in Elements(n, q)
                          /\ (h \in Elements(n, q) /\ (h = t \/ ~Serving(h)))
                               => (Before(n, q, x, h) /\ timer'[x].when <= timer'[h].started)
        BY <1>5 DEF RoundRobin, Serving, timeout, TypeOK
      <3>1. /\ h \in 1..timer_ids /\ h # x
            /\ timer[x].when <= clock
            /\ pc = "handler" => x # in_timeout
            /\ x \in Elements(n, o)
            /\ (h \in Elements(n, o) /\ ~Serving(h))
                 => (Before(n, o, x, h) /\ timer[x].when <= timer[h].started)
        BY <1>4, Zenon DEF ChainInv, RoundRobin
      <3>2. h \in Timers
        BY Zenon DEF TypeOK
      <3>3. CASE h = t
        BY <1>7, <1>8, <1>11, <3>1, <3>3, Zenon
      <3>4. CASE h # t
        BY <1>7, <1>11, <3>1, <3>2, <3>4
      <3> QED BY <3>3, <3>4, Zenon
    <2>2. alive' = Elements(n, q) \cup {x \in {in_timeout'} : did_cancel'}
      BY <1>4, <1>5, <1>11, Zenon DEF ChainInv, timeout
    <2>3. did_cancel' => in_timeout' \notin Elements(n, q)
      BY <1>4, <1>5, <1>11, Zenon DEF ChainInv, timeout
    <2> QED BY <1>11, <2>1, <2>2, <2>3, Zenon DEF ChainInv
  <1> QED BY <1>1, <1>2, <1>3, <1>12, Zenon DEF IInv

\* ResetTimer gives the timer a time from now, later than all it may have passed.
LEMMA ResetTimerStep ==
    ASSUME IInv, NEW t \in Timers, NEW d \in (0..MaxTime) \cup {Never}, NEW p \in 0..MaxTime,
           ResetTimer(t, d, p)
    PROVE  IInv'
  <1>0. TypeOK /\ InTimeoutInv /\ NoOversleep
    BY Zenon DEF IInv
  <1> USE <1>0
  <1> DEFINE new == [when |-> After(d), period |-> p, started |-> clock]
  <1>1. new \in Times
    BY AfterType, TypeFacts, Zenon DEF Times
  <1>2. ASSUME NEW x \in Timers, t \in passed[x]
        PROVE  timer[x].when <= new.when /\ timer[x].when <= new.started
    <2>1. timer[x].when <= clock
      <3>1. PICK n \in 0..MaxTimers : \E o \in [1..n -> Timers] : ChainInv(n, o)
        BY Zenon DEF IInv
      <3>2. PICK o \in [1..n -> Timers] : ChainInv(n, o)
        BY <3>1, Zenon
      <3> QED BY <1>2, <3>2, Zenon DEF ChainInv, RoundRobin
    <2>2. After(d) \in Int /\ clock <= After(d)
      BY AfterType
    <2> QED BY <2>1, <2>2, TypeFacts
  <1>3. Calls /\ t \in Listed(list) /\ Reset(t, new)
    BY Zenon DEF ResetTimer
  <1> HIDE DEF new
  <1> QED BY <1>1, <1>2, <1>3, ResetStep, Zenon

\* The time a timer has waited counts from after those who saw it pass were due.
LEMMA ResetPeriodStep ==
    ASSUME IInv, NEW t \in Timers, NEW p \in 0..MaxTime, ResetTimerPeriod(t, p)
    PROVE  IInv'
  <1>0. TypeOK /\ InTimeoutInv /\ NoOversleep
    BY Zenon DEF IInv
  <1> USE <1>0
  <1> DEFINE new == [timer[t] EXCEPT !.when = timer[t].started + p, !.period = p]
  <1>1. new.when = timer[t].started + p /\ new.started = timer[t].started
    BY Zenon DEF TypeOK, Times
  <1>2. new \in Times
    <2>1. timer[t].started \in 0..MaxTime /\ timer[t].started + p \in 0..Never
      BY TimerAssumption DEF TypeOK, Times, Never
    <2> QED BY <2>1, TypeFacts, Zenon DEF TypeOK, Times
  <1>3. Calls /\ t \in Listed(list) /\ Reset(t, new) /\ t # in_timeout
    BY Zenon DEF ResetTimerPeriod
  <1>4. ASSUME NEW x \in Timers, t \in passed[x]
        PROVE  timer[x].when <= new.when /\ timer[x].when <= new.started
    <2>n. PICK n \in 0..MaxTimers : \E o \in [1..n -> Timers] : ChainInv(n, o)
      BY Zenon DEF IInv
    <2>1. PICK o \in [1..n -> Timers] : ChainInv(n, o)
      BY <2>n, Zenon
    <2>2. t \in Elements(n, o) /\ ~Serving(t)
      BY <1>3, <2>1, ListedChain, Zenon DEF ChainInv, Serving
    <2>3. timer[x].when <= timer[t].started
      BY <1>4, <2>1, <2>2, Zenon DEF ChainInv, RoundRobin
    <2> HIDE DEF new
    <2> QED BY <1>1, <2>3, TypeFacts
  <1> HIDE DEF new
  <1> QED BY <1>2, <1>3, <1>4, ResetStep, Zenon

\* What the deletion of the timers ts, none of which is on the list l, leaves.
Apart(n, o, ts) == \A x \in Elements(n, o) : x \notin ts
Deleted(l, n, o, ts) ==
    /\ list' \in Lists /\ Chain(list', n, o) /\ list'.head = l.head
    /\ timer' \in [Timers -> Times]
    /\ \A x \in Timers \ ts : timer'[x] = timer[x]

\* Deleting timers that are not on the list.
LEMMA DeletesChain ==
    ASSUME NEW l \in Lists, NEW n \in 0..MaxTimers, NEW o, Chain(l, n, o), NEW ts,
           Apart(n, o, ts), Deletes(ts, l), TypeOK
    PROVE  Deleted(l, n, o, ts)
  <1> DEFINE next == [t \in Timers |-> IF t \in ts THEN NULL ELSE l.next[t]]
  <1>1. list' = [l EXCEPT !.next = next]
    BY Zenon DEF Deletes
  <1>2. next \in [Timers -> Timers \cup {NULL}] /\ \A x \in Elements(n, o) : next[x] = l.next[x]
    BY DEF Lists, Chain, Elements, Apart
  <1> HIDE DEF next
  <1>3. /\ list' \in Lists /\ list'.head = l.head /\ list'.tail = l.tail /\ list'.next = next
    BY <1>1, <1>2, Zenon DEF Lists
  <1>4. Chain(list', n, o)
    <2>1. \A i \in 1..n : o[i] \in Elements(n, o)
      BY Zenon DEF Elements
    <2> QED BY <1>2, <1>3, <2>1, Zenon DEF Chain
  <1>5. Unset \in Times
    BY TypeFacts DEF Unset, Times
  <1> QED BY <1>3, <1>4, <1>5, Zenon DEF Deletes, Deleted, TypeOK

\* A cancelled timer leaves the list; Timeout() is told if its handler is running.
LEMMA CancelStep == ASSUME IInv, NEW t \in Timers, CancelTimer(t) PROVE IInv'
  <1>0. TypeOK /\ InTimeoutInv /\ NoOversleep
    BY Zenon DEF IInv
  <1> USE <1>0
  <1>n. PICK n \in 0..MaxTimers : \E o \in [1..n -> Timers] : ChainInv(n, o)
    BY Zenon DEF IInv
  <1>4. PICK o \in [1..n -> Timers] : ChainInv(n, o)
    BY <1>n, Zenon
  <1> DEFINE without == RemoveTimer(list, t, Prev(list, t))
             m == n - 1
             ts == {t} \ {in_timeout}
  <1>5. /\ pc \in {"select", "handler"} /\ t \in Listed(list)
        /\ did_cancel' = (did_cancel \/ in_timeout = t)
        /\ Deletes(ts, without)
        /\ passed' = [passed EXCEPT ![t] = {}]
        /\ UNCHANGED <<timeout, timer_ids, did_reset, wake>>
    BY Zenon DEF CancelTimer, Calls
  <1>6. /\ list \in Lists /\ Chain(list, n, o) /\ Sorted(n, o, When(timer))
        /\ t \in Elements(n, o) /\ t # NULL
    BY <1>4, <1>5, ListedChain DEF ChainInv, TypeOK, Timers, NULL
  <1>7. without \in Lists /\ m \in 0..MaxTimers
    BY <1>6, Removed, Zenon
  <1>r. PICK q \in [1..m -> Timers] : Without(without, m, q, n, o, When(timer), t)
    BY <1>6, Removed, Zenon
  <1>8. /\ Chain(without, m, q)
        /\ Sorted(m, q, When(timer))
        /\ Elements(m, q) = Elements(n, o) \ {t}
        /\ \A x, y \in Timers \ {t} : Before(n, o, x, y) => Before(m, q, x, y)
    BY <1>r, Zenon DEF Without
  <1> HIDE DEF without, m
  <1>9. /\ list' \in Lists /\ Chain(list', m, q) /\ timer' \in [Timers -> Times]
        /\ \A x \in Timers \ {t} : timer'[x] = timer[x]
    <2>1. Apart(m, q, ts)
      BY <1>8, Zenon DEF Apart
    <2> HIDE DEF ts
    <2>2. Deleted(without, m, q, ts)
      BY <1>5, <1>7, <1>8, <2>1, DeletesChain, Zenon
    <2> QED BY <2>2, Zenon DEF Deleted, ts
  <1>10. alive' = alive \ ts
    BY <1>5, Zenon DEF Deletes
  <1>11. in_timeout = t => ~did_cancel
    BY <1>4, <1>6, Zenon DEF ChainInv
  <1>12. Elements(m, q) \subseteq Timers \ {t}
    <2>1. Elements(m, q) \subseteq Timers
      BY Zenon DEF Elements
    <2> QED BY <1>8, <2>1, Zenon
  <1>1. TypeOK'
    <2>1. passed' \in [Timers -> SUBSET Timers]
      BY <1>5, Zenon DEF TypeOK
    <2>2. alive' \subseteq 1..timer_ids'
      BY <1>5, <1>10, Zenon DEF TypeOK
    <2>3. did_cancel' \in BOOLEAN
      BY <1>5, Zenon
    <2> QED BY <1>5, <1>9, <2>1, <2>2, <2>3, Zenon DEF TypeOK, timeout
  <1>2. InTimeoutInv'
    <2>1. pc' = pc /\ in_timeout' = in_timeout /\ did_reset' = did_reset
      BY <1>5, Zenon DEF timeout
    <2>2. CASE pc = "handler"
      <3>1. in_timeout \in alive
        BY <2>2, Zenon DEF InTimeoutInv
      <3>2. in_timeout' \in alive'
        BY <1>10, <2>1, <3>1, Zenon
      <3> QED BY <2>1, <2>2, <3>2, Zenon DEF InTimeoutInv
    <2>3. CASE pc = "select"
      <3>1. in_timeout = NULL /\ ~did_cancel /\ ~did_reset
        BY <2>3, Zenon DEF InTimeoutInv
      <3>2. did_cancel' = (did_cancel \/ in_timeout = t)
        BY <1>5, Zenon
      <3>3. ~did_cancel'
        BY <1>6, <3>1, <3>2, Zenon
      <3> QED BY <2>1, <2>3, <3>1, <3>3, Zenon DEF InTimeoutInv
    <2> QED BY <1>5, <2>2, <2>3, Zenon
  <1>13. Sorted(m, q, When(timer'))
    <2>1. \A x \in Elements(m, q) : When(timer')[x] = When(timer)[x]
      BY <1>9, <1>12, Zenon DEF When
    <2>2. m \in Nat
      BY <1>7
    <2> QED BY <1>8, <2>1, <2>2, SortedSame, Zenon
  <1>3. NoOversleep'
    <2> SUFFICES ASSUME pc = "select", ~wake.woken, list'.head # NULL
                 PROVE  wake.at <= Max({timer'[list'.head].when, clock})
      BY <1>5, Zenon DEF NoOversleep, timeout
    <2>1. When(timer') \in [Timers -> 0..Never]
      BY <1>9, Zenon DEF When, Times
    <2>2. list'.head \in Elements(m, q)
      BY <1>7, <1>9, <1>13, <2>1, HeadFirst, Zenon
    <2>3. /\ list'.head \in Elements(n, o) /\ list'.head \in Timers
          /\ timer'[list'.head] = timer[list'.head]
      BY <1>8, <1>9, <1>12, <2>2, Zenon
    <2> QED BY <1>6, <2>3, SleepsEnough, Zenon
  <1>14. ChainInv(m, q)'
    <2>1. RoundRobin(m, q)'
      <3> SUFFICES ASSUME NEW x \in Timers \ {t}, NEW h \in passed[x]
                   PROVE  /\ h \in 1..timer_ids /\ h # x
                          /\ timer'[x].when <= clock
                          /\ pc = "handler" => x # in_timeout
                          /\ x \in Elements(m, q)
                          /\ (h \in Elements(m, q) /\ ~Serving(h))
                               => (Before(m, q, x, h) /\ timer'[x].when <= timer'[h].started)
        BY <1>5, Zenon DEF RoundRobin, Serving, timeout, TypeOK
      <3>1. /\ h \in 1..timer_ids /\ h # x
            /\ timer[x].when <= clock
            /\ pc = "handler" => x # in_timeout
            /\ x \in Elements(n, o)
            /\ (h \in Elements(n, o) /\ ~Serving(h))
                 => (Before(n, o, x, h) /\ timer[x].when <= timer[h].started)
        BY <1>4, Zenon DEF ChainInv, RoundRobin
      <3>2. h \in Timers
        BY Zenon DEF TypeOK
      <3> QED BY <1>8, <1>9, <3>1, <3>2, Zenon
    <2>2. alive' = Elements(m, q) \cup {x \in {in_timeout'} : did_cancel'}
      <3>1. alive = Elements(n, o) \cup {x \in {in_timeout} : did_cancel}
        BY <1>4, Zenon DEF ChainInv
      <3>2. in_timeout' = in_timeout
        BY <1>5, Zenon DEF timeout
      <3>3. CASE in_timeout = t
        BY <1>5, <1>6, <1>8, <1>10, <1>11, <3>1, <3>2, <3>3, Zenon
      <3>4. CASE in_timeout # t
        BY <1>5, <1>8, <1>10, <3>1, <3>2, <3>4, Zenon
      <3> QED BY <3>3, <3>4, Zenon
    <2>3. did_cancel' => in_timeout' \notin Elements(m, q)
      BY <1>4, <1>5, <1>8, Zenon DEF ChainInv, timeout
    <2> QED BY <1>9, <1>13, <2>1, <2>2, <2>3, Zenon DEF ChainInv
  <1> QED BY <1>1, <1>2, <1>3, <1>7, <1>14, Zenon DEF IInv

\* All timers are cancelled at once.
LEMMA CancelAllStep == ASSUME IInv, CancelAllTimers PROVE IInv'
  <1>0. TypeOK /\ InTimeoutInv /\ NoOversleep
    BY Zenon DEF IInv
  <1> USE <1>0
  <1>n. PICK n \in 0..MaxTimers : \E o \in [1..n -> Timers] : ChainInv(n, o)
    BY Zenon DEF IInv
  <1>4. PICK o \in [1..n -> Timers] : ChainInv(n, o)
    BY <1>n, Zenon
  <1> DEFINE l == [list EXCEPT !.head = NULL, !.tail = NULL]
             e == [i \in 1..0 |-> 1]
             ts == Elements(n, o) \ {in_timeout}
  <1>5. /\ pc \in {"select", "handler"}
        /\ did_cancel' = (did_cancel \/ in_timeout \in Elements(n, o))
        /\ Deletes(ts, l)
        /\ passed' = [t \in Timers |-> {}]
        /\ UNCHANGED <<timeout, timer_ids, did_reset, wake>>
    <2>1. Listed(list) = Elements(n, o)
      BY <1>4, ListedChain, Zenon DEF ChainInv
    <2> QED BY <2>1, Zenon DEF CancelAllTimers, Calls
  <1>6. l \in Lists /\ l.head = NULL /\ l.tail = NULL
    BY Zenon DEF TypeOK, Lists
  <1>7. 0 \in 0..MaxTimers /\ e \in [1..0 -> Timers] /\ Chain(l, 0, e) /\ Elements(0, e) = {}
    BY <1>6, TypeFacts DEF Chain, Elements
  <1> HIDE DEF l, e
  <1>8. /\ list' \in Lists /\ Chain(list', 0, e) /\ timer' \in [Timers -> Times]
        /\ list'.head = NULL
    <2>1. Apart(0, e, ts)
      BY <1>7, Zenon DEF Apart
    <2> HIDE DEF ts
    <2>2. Deleted(l, 0, e, ts)
      BY <1>5, <1>6, <1>7, <2>1, DeletesChain, Zenon
    <2> QED BY <1>6, <2>2, Zenon DEF Deleted
  <1>9. alive' = alive \ ts
    BY <1>5, Zenon DEF Deletes
  <1>10. NULL \notin Elements(n, o)
    BY DEF Elements, Timers, NULL
  <1>1. TypeOK'
    <2>1. passed' \in [Timers -> SUBSET Timers]
      BY <1>5, Zenon
    <2>2. alive' \subseteq 1..timer_ids'
      BY <1>5, <1>9, Zenon DEF TypeOK
    <2>3. did_cancel' \in BOOLEAN
      BY <1>5, Zenon
    <2> QED BY <1>5, <1>8, <2>1, <2>2, <2>3, Zenon DEF TypeOK, timeout
  <1>2. InTimeoutInv'
    <2>1. pc' = pc /\ in_timeout' = in_timeout /\ did_reset' = did_reset
      BY <1>5, Zenon DEF timeout
    <2>2. CASE pc = "handler"
      <3>1. in_timeout \in alive
        BY <2>2, Zenon DEF InTimeoutInv
      <3>2. in_timeout' \in alive'
        BY <1>9, <2>1, <3>1, Zenon
      <3> QED BY <2>1, <2>2, <3>2, Zenon DEF InTimeoutInv
    <2>3. CASE pc = "select"
      <3>1. in_timeout = NULL /\ ~did_cancel /\ ~did_reset
        BY <2>3, Zenon DEF InTimeoutInv
      <3>2. did_cancel' = (did_cancel \/ in_timeout \in Elements(n, o))
        BY <1>5, Zenon
      <3>3. ~did_cancel'
        BY <1>10, <3>1, <3>2, Zenon
      <3> QED BY <2>1, <2>3, <3>1, <3>3, Zenon DEF InTimeoutInv
    <2> QED BY <1>5, <2>2, <2>3, Zenon
  <1>3. NoOversleep'
    BY <1>8, Zenon DEF NoOversleep
  <1>11. ChainInv(0, e)'
    <2>1. RoundRobin(0, e)'
      BY <1>5, Zenon DEF RoundRobin
    <2>2. Sorted(0, e, When(timer'))
      BY DEF Sorted
    <2>3. alive' = {x \in {in_timeout'} : did_cancel'}
      <3>1. alive = Elements(n, o) \cup {x \in {in_timeout} : did_cancel}
        BY <1>4, Zenon DEF ChainInv
      <3>2. in_timeout' = in_timeout
        BY <1>5, Zenon DEF timeout
      <3>3. CASE in_timeout \in Elements(n, o)
        BY <1>5, <1>9, <3>1, <3>2, <3>3, Zenon
      <3>4. CASE in_timeout \notin Elements(n, o)
        BY <1>5, <1>9, <3>1, <3>2, <3>4, Zenon
      <3> QED BY <3>3, <3>4, Zenon
    <2> QED BY <1>7, <1>8, <2>1, <2>2, <2>3, Zenon DEF ChainInv
  <1> QED BY <1>1, <1>2, <1>3, <1>7, <1>11, Zenon DEF IInv

\* What HandlerReturns does not touch.
LEMMA ReturnsInTimeout == ASSUME HandlerReturns PROVE InTimeoutInv' /\ NoOversleep'
  BY Zenon DEF HandlerReturns, InTimeoutInv, NoOversleep

\* The handler cancelled its timer, which is now deleted.
LEMMA ReturnsCancelled == ASSUME IInv, HandlerReturns, did_cancel PROVE IInv'
  <1>0. TypeOK /\ InTimeoutInv /\ NoOversleep
    BY Zenon DEF IInv
  <1> USE <1>0
  <1>n. PICK n \in 0..MaxTimers : \E o \in [1..n -> Timers] : ChainInv(n, o)
    BY Zenon DEF IInv
  <1>4. PICK o \in [1..n -> Timers] : ChainInv(n, o)
    BY <1>n, Zenon
  <1> DEFINE ts == {in_timeout}
  <1>5. /\ pc = "handler" /\ pc' = "loop" /\ Deletes(ts, list)
        /\ did_reset' = FALSE /\ did_cancel' = FALSE
        /\ UNCHANGED <<timer_ids, in_timeout, now, fires, clock, passed, wake>>
    BY Zenon DEF HandlerReturns
  <1>6. in_timeout \notin Elements(n, o) /\ Chain(list, n, o) /\ list \in Lists
    BY <1>4, Zenon DEF ChainInv, TypeOK
  <1>7. /\ list' \in Lists /\ Chain(list', n, o) /\ timer' \in [Timers -> Times]
        /\ \A x \in Timers \ ts : timer'[x] = timer[x]
    <2>1. Apart(n, o, ts)
      BY <1>6, Zenon DEF Apart
    <2> HIDE DEF ts
    <2>2. Deleted(list, n, o, ts)
      BY <1>5, <1>6, <2>1, DeletesChain, Zenon
    <2> QED BY <2>2, Zenon DEF Deleted
  <1>8. alive' = alive \ ts
    BY <1>5, Zenon DEF Deletes
  <1>1. TypeOK'
    BY <1>5, <1>7, <1>8, Zenon DEF TypeOK
  <1>9. \A x \in Elements(n, o) : x \in Timers /\ timer'[x] = timer[x]
    BY <1>6, <1>7, Zenon DEF Elements
  <1>10. ChainInv(n, o)'
    <2>1. RoundRobin(n, o)'
      <3> SUFFICES ASSUME NEW x \in Timers, NEW h \in passed[x]
                   PROVE  /\ h \in 1..timer_ids /\ h # x
                          /\ timer'[x].when <= clock
                          /\ x \in Elements(n, o)
                          /\ h \in Elements(n, o)
                               => (Before(n, o, x, h) /\ timer'[x].when <= timer'[h].started)
        BY <1>5, Zenon DEF RoundRobin
      <3>1. /\ h \in 1..timer_ids /\ h # x
            /\ timer[x].when <= clock
            /\ x \in Elements(n, o)
            /\ (h \in Elements(n, o) /\ ~Serving(h))
                 => (Before(n, o, x, h) /\ timer[x].when <= timer[h].started)
        BY <1>4, Zenon DEF ChainInv, RoundRobin
      <3>2. h \in Elements(n, o) => ~Serving(h)
        BY <1>6, Zenon DEF Serving
      <3> QED BY <1>9, <3>1, <3>2, Zenon
    <2>2. Sorted(n, o, When(timer'))
      <3>1. \A x \in Elements(n, o) : When(timer')[x] = When(timer)[x]
        BY <1>9, Zenon DEF When
      <3>2. n \in Nat
        OBVIOUS
      <3> QED BY <1>4, <3>1, <3>2, SortedSame, Zenon DEF ChainInv
    <2>3. alive' = Elements(n, o) /\ {x \in {in_timeout'} : did_cancel'} = {}
      BY <1>4, <1>5, <1>6, <1>8, Zenon DEF ChainInv
    <2> QED BY <1>5, <1>7, <2>1, <2>2, <2>3, Zenon DEF ChainInv
  <1> QED BY <1>1, <1>10, ReturnsInTimeout, Zenon DEF IInv

\* The timer of the handler is on the list unless the handler cancelled it.
LEMMA ServedListed ==
    ASSUME IInv, pc = "handler", ~did_cancel, NEW n \in 0..MaxTimers, NEW o, ChainInv(n, o)
    PROVE  in_timeout \in Elements(n, o) /\ in_timeout \in Timers /\ passed[in_timeout] = {}
  <1> USE DEF IInv
  <1>1. in_timeout \in alive
    BY Zenon DEF InTimeoutInv
  <1>2. in_timeout \in Elements(n, o)
    BY <1>1, Zenon DEF ChainInv
  <1>3. in_timeout \in Timers
    BY <1>2 DEF ChainInv, Chain, Elements
  <1> QED BY <1>2, <1>3, Zenon DEF ChainInv, RoundRobin, TypeOK

\* The handler reset its timer, which is where it belongs.
LEMMA ReturnsReset == ASSUME IInv, HandlerReturns, ~did_cancel, did_reset PROVE IInv'
  <1>0. TypeOK /\ InTimeoutInv /\ NoOversleep
    BY Zenon DEF IInv
  <1> USE <1>0
  <1>n. PICK n \in 0..MaxTimers : \E o \in [1..n -> Timers] : ChainInv(n, o)
    BY Zenon DEF IInv
  <1>4. PICK o \in [1..n -> Timers] : ChainInv(n, o)
    BY <1>n, Zenon
  <1>5. /\ pc = "handler" /\ pc' = "loop" /\ did_reset' = FALSE /\ did_cancel' = FALSE
        /\ UNCHANGED <<list, timer, alive, timer_ids, in_timeout, now, fires, clock, passed, wake>>
    BY Zenon DEF HandlerReturns
  <1>1. TypeOK'
    BY <1>5, Zenon DEF TypeOK
  <1>2. ChainInv(n, o)'
    <2>1. RoundRobin(n, o)'
      BY <1>4, <1>5, Zenon DEF ChainInv, RoundRobin, Serving
    <2> QED BY <1>4, <1>5, <2>1, Zenon DEF ChainInv, When
  <1> QED BY <1>1, <1>2, ReturnsInTimeout, Zenon DEF IInv

\* A periodic timer goes behind all that saw it pass.
LEMMA ReturnsPeriodic ==
    ASSUME IInv, HandlerReturns, ~did_cancel, ~did_reset, timer[in_timeout].period > 0
    PROVE  IInv'
  <1>0. TypeOK /\ InTimeoutInv /\ NoOversleep
    BY Zenon DEF IInv
  <1> USE <1>0
  <1>n. PICK n \in 0..MaxTimers : \E o \in [1..n -> Timers] : ChainInv(n, o)
    BY Zenon DEF IInv
  <1>4. PICK o \in [1..n -> Timers] : ChainInv(n, o)
    BY <1>n, Zenon
  <1> DEFINE t == in_timeout
             new == [timer[t] EXCEPT !.when = clock + timer[t].period, !.started = clock]
  <1>5. /\ pc = "handler" /\ pc' = "loop" /\ did_reset' = FALSE /\ did_cancel' = FALSE
        /\ timer' = [timer EXCEPT ![t].when = clock + timer[t].period, ![t].started = clock]
        /\ list' = InsertTimer(RemoveTimer(list, t, Prev(list, t)), t, When(timer'))
        /\ wake' = Wakes(list', t)
        /\ UNCHANGED <<timer_ids, in_timeout, now, fires, clock, passed, alive>>
    BY DEF HandlerReturns
  <1>6. t \in Elements(n, o) /\ t \in Timers /\ passed[t] = {}
    BY <1>4, <1>5, ServedListed, Zenon
  <1>7. list \in Lists /\ Chain(list, n, o) /\ Sorted(n, o, When(timer))
    BY <1>4, Zenon DEF ChainInv, TypeOK
  <1>8. /\ new \in Times /\ new.when = clock + timer[t].period /\ new.started = clock
        /\ clock <= new.when
    <2>1. timer[t].period \in 0..MaxTime /\ clock + timer[t].period \in 0..Never
      BY <1>6, TimerAssumption DEF TypeOK, Times, Never
    <2>3. new \in Times /\ new.when = clock + timer[t].period /\ new.started = clock
      <3> DEFINE r == timer[t]
                 w == clock + timer[t].period
      <3>1. r \in Times /\ w \in 0..Never
        BY <1>6, <2>1, Zenon DEF TypeOK
      <3> HIDE DEF r, w
      <3>2. [r EXCEPT !.when = w, !.started = clock] \in Times
        BY <3>1, TypeFacts, Zenon DEF Times
      <3>3. /\ [r EXCEPT !.when = w, !.started = clock].when = w
            /\ [r EXCEPT !.when = w, !.started = clock].started = clock
        BY <3>1, Zenon DEF Times
      <3> QED BY <3>2, <3>3, Zenon DEF r, w
    <2> QED BY <2>1, <2>3, TypeFacts
  <1>9. timer' = [timer EXCEPT ![t] = new]
    BY <1>5, <1>6, Zenon DEF TypeOK, Times
  <1> HIDE DEF t, new
  <1>10. timer' \in [Timers -> Times] /\ timer'[t] = new /\ \A x \in Timers \ {t} : timer'[x] = timer[x]
    BY <1>6, <1>8, <1>9, Zenon DEF TypeOK
  <1>11. /\ When(timer') \in [Timers -> 0..Never]
         /\ \A x \in Timers : When(timer')[x] = timer'[x].when
    BY <1>10, Zenon DEF When, Times
  <1>12. \A x \in Timers \ {t} : When(timer')[x] = When(timer)[x]
    BY <1>10, <1>11, TypeFacts, Zenon
  <1> DEFINE when == When(timer')
  <1>13. /\ list' \in Lists
         /\ \E q \in [1..n -> Timers] : Moved(list', n, o, q, when, t)
    <2> HIDE DEF when
    <2>1. list' = InsertTimer(RemoveTimer(list, t, Prev(list, t)), t, when)
      BY <1>5, Zenon DEF when
    <2>2. when \in [Timers -> 0..Never] /\ SameBut(when, When(timer), t)
      BY <1>11, <1>12, Zenon DEF when, SameBut
    <2> QED BY <1>6, <1>7, <2>1, <2>2, Relinked, Zenon
  <1>14. PICK q \in [1..n -> Timers] :
            /\ Chain(list', n, q)
            /\ Sorted(n, q, When(timer'))
            /\ Elements(n, q) = Elements(n, o)
            /\ \A x, y \in Timers \ {t} : Before(n, o, x, y) => Before(n, q, x, y)
            /\ \A x \in Elements(n, o) \ {t} :
                 When(timer')[x] <= When(timer')[t] => Before(n, q, x, t)
    BY <1>13, Zenon DEF Moved
  <1>1. TypeOK'
    <2>1. wake' \in [at : 0..Never, woken : BOOLEAN]
      BY <1>5, WakesType, Zenon
    <2> QED BY <1>5, <1>10, <1>13, <2>1, Zenon DEF TypeOK
  <1>15. ChainInv(n, q)'
    <2>1. RoundRobin(n, q)'
      <3> SUFFICES ASSUME NEW x \in Timers, NEW h \in passed[x]
                   PROVE  /\ h \in 1..timer_ids /\ h # x
                          /\ timer'[x].when <= clock
                          /\ x \in Elements(n, q)
                          /\ h \in Elements(n, q)
                               => (Before(n, q, x, h) /\ timer'[x].when <= timer'[h].started)
        BY <1>5, Zenon DEF RoundRobin
      <3>1. /\ h \in 1..timer_ids /\ h # x
            /\ timer[x].when <= clock
            /\ x \in Elements(n, o)
            /\ (h \in Elements(n, o) /\ ~Serving(h))
                 => (Before(n, o, x, h) /\ timer[x].when <= timer[h].started)
        BY <1>4, Zenon DEF ChainInv, RoundRobin
      <3>2. h \in Timers /\ x # t
        BY <1>6, Zenon DEF TypeOK
      <3>3. CASE h = t
        <4>1. timer'[x].when = timer[x].when /\ timer'[h] = new
          BY <1>10, <3>2, <3>3, Zenon
        <4>3. timer[x].when <= new.when
          <5>1. timer[x].when \in Int /\ new.when \in Int
            BY <1>8, TypeFacts DEF Times
          <5> QED BY <1>8, <3>1, <5>1, TypeFacts
        <4>2. When(timer')[x] <= When(timer')[t]
          BY <1>10, <1>11, <1>6, <4>1, <4>3, Zenon
        <4>4. x \in Elements(n, o) \ {t}
          BY <3>1, <3>2, Zenon
        <4>5. Before(n, q, x, t)
          BY <1>14, <4>2, <4>4, Zenon
        <4>6. timer'[x].when <= clock /\ timer'[x].when <= timer'[h].started
          BY <1>8, <3>1, <4>1, Zenon
        <4>7. x \in Elements(n, q)
          BY <1>14, <4>4, Zenon
        <4> QED BY <3>1, <3>3, <4>5, <4>6, <4>7, Zenon
      <3>4. CASE h # t
        <4>1. ~Serving(h)
          BY <3>4, Zenon DEF Serving, t
        <4> QED BY <1>10, <1>14, <3>1, <3>2, <3>4, <4>1
      <3> QED BY <3>3, <3>4, Zenon
    <2>2. alive' = Elements(n, q) /\ {x \in {in_timeout'} : did_cancel'} = {}
      BY <1>4, <1>5, <1>14, Zenon DEF ChainInv
    <2> QED BY <1>5, <1>14, <2>1, <2>2, Zenon DEF ChainInv
  <1> QED BY <1>1, <1>15, ReturnsInTimeout, Zenon DEF IInv

\* A timer that fires only once is deleted.
LEMMA ReturnsOnce ==
    ASSUME IInv, HandlerReturns, ~did_cancel, ~did_reset, timer[in_timeout].period = 0
    PROVE  IInv'
  <1>0. TypeOK /\ InTimeoutInv /\ NoOversleep
    BY Zenon DEF IInv
  <1> USE <1>0
  <1>n. PICK n \in 0..MaxTimers : \E o \in [1..n -> Timers] : ChainInv(n, o)
    BY Zenon DEF IInv
  <1>4. PICK o \in [1..n -> Timers] : ChainInv(n, o)
    BY <1>n, Zenon
  <1> DEFINE t == in_timeout
             ts == {t}
             without == RemoveTimer(list, t, Prev(list, t))
             m == n - 1
  <1>5. /\ pc = "handler" /\ pc' = "loop" /\ did_reset' = FALSE /\ did_cancel' = FALSE
        /\ Deletes(ts, without)
        /\ UNCHANGED <<timer_ids, in_timeout, now, fires, clock, passed, wake>>
    BY DEF HandlerReturns
  <1>6. t \in Elements(n, o) /\ t \in Timers /\ passed[t] = {}
    BY <1>4, <1>5, ServedListed, Zenon
  <1>7. list \in Lists /\ Chain(list, n, o) /\ Sorted(n, o, When(timer))
    BY <1>4, Zenon DEF ChainInv, TypeOK
  <1>8. without \in Lists /\ m \in 0..MaxTimers
    BY <1>6, <1>7, Removed, Zenon
  <1>r. PICK q \in [1..m -> Timers] : Without(without, m, q, n, o, When(timer), t)
    BY <1>6, <1>7, Removed, Zenon
  <1>9. /\ Chain(without, m, q)
        /\ Sorted(m, q, When(timer))
        /\ Elements(m, q) = Elements(n, o) \ {t}
        /\ \A x, y \in Timers \ {t} : Before(n, o, x, y) => Before(m, q, x, y)
    BY <1>r, Zenon DEF Without
  <1> HIDE DEF without, m
  <1>10. /\ list' \in Lists /\ Chain(list', m, q) /\ timer' \in [Timers -> Times]
         /\ \A x \in Timers \ {t} : timer'[x] = timer[x]
    <2>1. Apart(m, q, ts)
      BY <1>9, Zenon DEF Apart
    <2> HIDE DEF ts
    <2>2. Deleted(without, m, q, ts)
      BY <1>5, <1>8, <1>9, <2>1, DeletesChain, Zenon
    <2> QED BY <2>2, Zenon DEF Deleted, ts
  <1>11. alive' = alive \ {t}
    BY <1>5, Zenon DEF Deletes
  <1>12. Elements(m, q) \subseteq Timers \ {t}
    <2>1. Elements(m, q) \subseteq Timers
      BY Zenon DEF Elements
    <2> QED BY <1>9, <2>1, Zenon
  <1>1. TypeOK'
    BY <1>5, <1>10, <1>11, Zenon DEF TypeOK
  <1>13. Sorted(m, q, When(timer'))
    <2>1. \A x \in Elements(m, q) : When(timer')[x] = When(timer)[x]
      BY <1>10, <1>12, Zenon DEF When
    <2>2. m \in Nat
      BY <1>8
    <2> QED BY <1>9, <2>1, <2>2, SortedSame, Zenon
  <1>14. ChainInv(m, q)'
    <2>1. RoundRobin(m, q)'
      <3> SUFFICES ASSUME NEW x \in Timers, NEW h \in passed[x]
                   PROVE  /\ h \in 1..timer_ids /\ h # x
                          /\ timer'[x].when <= clock
                          /\ x \in Elements(m, q)
                          /\ h \in Elements(m, q)
                               => (Before(m, q, x, h) /\ timer'[x].when <= timer'[h].started)
        BY <1>5, Zenon DEF RoundRobin
      <3>1. /\ h \in 1..timer_ids /\ h # x
            /\ timer[x].when <= clock
            /\ x \in Elements(n, o)
            /\ (h \in Elements(n, o) /\ ~Serving(h))
                 => (Before(n, o, x, h) /\ timer[x].when <= timer[h].started)
        BY <1>4, Zenon DEF ChainInv, RoundRobin
      <3>2. h \in Timers /\ x # t
        BY <1>6, Zenon DEF TypeOK
      <3>3. h \in Elements(m, q) => h # t /\ h \in Elements(n, o) /\ ~Serving(h)
        BY <1>9, Zenon DEF Serving
      <3>4. x \in Elements(m, q) /\ timer'[x] = timer[x]
        BY <1>9, <1>10, <3>1, <3>2, Zenon
      <3>5. ASSUME h \in Elements(m, q)
            PROVE  Before(m, q, x, h) /\ timer'[x].when <= timer'[h].started
        <4>1. Before(n, o, x, h) /\ timer[x].when <= timer[h].started /\ h # t
          BY <3>1, <3>3, <3>5, Zenon
        <4>2. timer'[h] = timer[h] /\ Before(m, q, x, h)
          BY <1>9, <1>10, <3>2, <4>1, Zenon
        <4> QED BY <3>4, <4>1, <4>2, Zenon
      <3> QED BY <3>1, <3>4, <3>5, Zenon
    <2>2. alive' = Elements(m, q) /\ {x \in {in_timeout'} : did_cancel'} = {}
      BY <1>4, <1>5, <1>9, <1>11, Zenon DEF ChainInv
    <2> QED BY <1>5, <1>10, <1>13, <2>1, <2>2, Zenon DEF ChainInv
  <1> QED BY <1>1, <1>8, <1>14, ReturnsInTimeout, Zenon DEF IInv

\* What Timeout() does once a handler has returned, in its four cases.
LEMMA ReturnsStep == ASSUME IInv, HandlerReturns PROVE IInv'
  <1>1. did_cancel \/ (~did_cancel /\ did_reset)
          \/ (~did_cancel /\ ~did_reset /\ timer[in_timeout].period > 0)
          \/ (~did_cancel /\ ~did_reset /\ timer[in_timeout].period = 0)
    BY Zenon DEF HandlerReturns
  <1> QED BY <1>1, ReturnsCancelled, ReturnsReset, ReturnsPeriodic, ReturnsOnce, Zenon

-----------------------------------------------------------------------------
\* The theorems

\* The invariant is inductive: every action of the code keeps it.
LEMMA Inductive == IInv /\ [Next]_vars => IInv'
  <1> SUFFICES ASSUME IInv, [Next]_vars PROVE IInv'
    BY Zenon
  <1>1. \A r \in Requests : r[1] \in (0..MaxTime) \cup {Never} /\ r[2] \in 0..MaxTime
    BY TimerAssumption, Zenon
  <1>2. ASSUME NEW r \in Requests, NewTimer(r[1], r[2]) PROVE IInv'
    BY <1>1, <1>2, NewStep, Zenon
  <1>3. ASSUME NEW t \in Timers, NEW r \in Requests, ResetTimer(t, r[1], r[2]) PROVE IInv'
    BY <1>1, <1>3, ResetTimerStep, Zenon
  <1>4. ASSUME NEW t \in Timers, NEW r \in Requests, ResetTimerPeriod(t, r[2]) PROVE IInv'
    BY <1>1, <1>4, ResetPeriodStep, Zenon
  <1>5. ASSUME NEW t \in Timers, CancelTimer(t) PROVE IInv'
    BY <1>5, CancelStep, Zenon
  <1>6. CASE UNCHANGED vars
    <2>1. TypeOK' /\ InTimeoutInv' /\ NoOversleep'
      BY <1>6, Zenon DEF vars, IInv, TypeOK, InTimeoutInv, NoOversleep
    <2>2. PICK n \in 0..MaxTimers : \E o \in [1..n -> Timers] : ChainInv(n, o)
      BY Zenon DEF IInv
    <2>3. PICK o \in [1..n -> Timers] : ChainInv(n, o)
      BY <2>2, Zenon
    <2>4. ChainInv(n, o)'
      BY <1>6, <2>3, Zenon DEF vars, ChainInv, RoundRobin, Serving
    <2> QED BY <2>1, <2>4, Zenon DEF IInv
  <1> QED BY <1>2, <1>3, <1>4, <1>5, <1>6, CancelAllStep, StartStep, CallStep, ReturnsStep,
             EndStep, TickStep, Zenon DEF Next

\* The linked list is a chain of the registered timers in the order of their times,
\* and a timer that fired while another was due is behind that one, at every step of
\* NewTimer, ResetTimer, CancelTimer, Timeout() and its handlers.
THEOREM Invariance == Spec => []IInv
  BY Initial, Inductive, PTL DEF Spec

\* For any number of timers, whatever the handlers do to their own timers and to
\* others, Timeout() finds the timer it has served where RemoveTimer looks for it.
THEOREM NeverExceptsHolds == Spec => []NeverExcepts
  <1>1. IInv => NeverExcepts
    BY DEF IInv, TypeOK, Lists, NeverExcepts, Broken, Timers, NULL
  <1> QED BY <1>1, Invariance, PTL

\* For any number of timers the linked list stays what InsertTimer and RemoveTimer
\* take it for: every registered timer, once, in the order of the times, with
\* list_tail at its end.
THEOREM ListSoundHolds == Spec => []ListSound
  <1>1. IInv => ListSound
    <2> SUFFICES ASSUME IInv PROVE ListSound
      BY Zenon
    <2>0. TypeOK
      BY Zenon DEF IInv
    <2> USE <2>0
    <2>1. PICK n \in 0..MaxTimers : \E o \in [1..n -> Timers] : ChainInv(n, o)
      BY Zenon DEF IInv
    <2>2. PICK o \in [1..n -> Timers] : ChainInv(n, o)
      BY <2>1, Zenon
    <2>3. Listed(list) = Elements(n, o)
      BY <2>2, ListedChain, Zenon DEF ChainInv
    <2>4. ASSUME NEW i \in 1..n
          PROVE  IF list.next[o[i]] = NULL THEN list.tail = o[i]
                 ELSE timer[o[i]].when <= timer[list.next[o[i]]].when
      <3>1. CASE i = n
        BY <2>2, <3>1 DEF ChainInv, Chain
      <3>2. CASE i # n
        <4>1. i + 1 \in 1..n /\ i < i + 1 /\ list.next[o[i]] = o[i + 1] /\ o[i + 1] # NULL
          BY <2>2, <3>2 DEF ChainInv, Chain, Timers, NULL
        <4>2. When(timer)[o[i]] <= When(timer)[o[i + 1]]
          BY <2>2, <4>1, Zenon DEF ChainInv, Sorted
        <4> QED BY <4>1, <4>2, TypeFacts, Zenon
      <3> QED BY <3>1, <3>2, Zenon
    <2>5. \A t \in Elements(n, o) : IF list.next[t] = NULL THEN list.tail = t
                                    ELSE timer[t].when <= timer[list.next[t]].when
      BY <2>4, Zenon DEF Elements
    <2>6. alive = Elements(n, o) \cup {t \in {in_timeout} : did_cancel}
      BY <2>2, Zenon DEF ChainInv
    <2> QED BY <2>3, <2>5, <2>6, Zenon DEF ListSound
  <1> QED BY <1>1, Invariance, PTL

\* For any number of timers and any times asked for, select() returns in time for
\* the first timer.
THEOREM NoOversleepHolds == Spec => []NoOversleep
  <1>1. IInv => NoOversleep
    BY Zenon DEF IInv
  <1> QED BY <1>1, Invariance, PTL

\* For any number of timers, any times and any MAX_FIRES_PER_TIMEOUT, no timer fires
\* twice while another one is due and waits.
THEOREM NoOvertakingHolds == Spec => NoOvertaking
  <1> DEFINE A == CallHandler => \A t \in Timers \ {list.head} : Due(t) => list.head \notin passed[t]
  <1>1. IInv => A
    <2> SUFFICES ASSUME IInv, CallHandler, NEW t \in Timers, list.head \in passed[t]
                 PROVE  FALSE
      BY Zenon
    <2>0. TypeOK
      BY Zenon DEF IInv
    <2> USE <2>0
    <2>1. PICK n \in 0..MaxTimers : \E o \in [1..n -> Timers] : ChainInv(n, o)
      BY Zenon DEF IInv
    <2>2. PICK o \in [1..n -> Timers] : ChainInv(n, o)
      BY <2>1, Zenon
    <2>3. pc = "loop" /\ list.head # NULL
      BY DEF CallHandler, MoreToFire, Timers, NULL
    <2>4. list.head \in Elements(n, o)
      BY <2>2, <2>3, HeadFirst, TypeFacts, Zenon DEF ChainInv
    <2>5. t \in Elements(n, o) /\ Before(n, o, t, list.head)
      BY <2>2, <2>3, <2>4, Zenon DEF ChainInv, RoundRobin, Serving
    <2> QED BY <2>2, <2>5, HeadFirst, TypeFacts, Zenon DEF ChainInv
  <1>2. IInv => [A]_pc
    BY <1>1, Zenon
  <1> HIDE DEF A
  <1>3. Spec => [][A]_pc
    BY <1>2, Invariance, PTL
  <1> QED BY <1>3, Zenon DEF A, NoOvertaking
=============================================================================
