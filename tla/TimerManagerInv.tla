-------------------------- MODULE TimerManagerInv --------------------------
(***************************************************************************)
(* The inductive invariant of TimerManager: the linked list is a sequence  *)
(* of distinct timers in the order of their times, and a timer that fired  *)
(* while another was due is behind that one.                               *)
(***************************************************************************)
EXTENDS TimerManager

Times == [when : 0..Never, period : 0..MaxTime, started : 0..MaxTime]
Lists == [head : Timers \cup {NULL}, tail : Timers \cup {NULL},
          next : [Timers -> Timers \cup {NULL}]]

TypeOK ==
    /\ list \in Lists
    /\ timer \in [Timers -> Times]
    /\ timer_ids \in 0..MaxTimers
    /\ alive \subseteq 1..timer_ids
    /\ in_timeout \in Timers \cup {NULL}
    /\ did_reset \in BOOLEAN /\ did_cancel \in BOOLEAN
    /\ now \in 0..MaxTime
    /\ fires \in 0..MaxFires
    /\ pc \in {"select", "loop", "handler"}
    /\ clock \in 0..MaxTime
    /\ wake \in [at : 0..Never, woken : BOOLEAN]
    /\ passed \in [Timers -> SUBSET Timers]

\* The list l consists of the n distinct timers o[1], ..., o[n].
Chain(l, n, o) ==
    /\ o \in [1..n -> Timers]
    /\ \A i, j \in 1..n : o[i] = o[j] => i = j
    /\ l.head = IF n = 0 THEN NULL ELSE o[1]
    /\ l.tail = IF n = 0 THEN NULL ELSE o[n]
    /\ \A i \in 1..n : l.next[o[i]] = IF i = n THEN NULL ELSE o[i + 1]

Elements(n, o) == {o[i] : i \in 1..n}

Before(n, o, x, y) == \E i, j \in 1..n : i < j /\ o[i] = x /\ o[j] = y

\* The chain without its k-th element, and with t as its k-th.
Drop(n, o, k) == [i \in 1..(n - 1) |-> IF i < k THEN o[i] ELSE o[i + 1]]
Put(n, o, t, k) ==
    [i \in 1..(n + 1) |-> IF i < k THEN o[i] ELSE IF i = k THEN t ELSE o[i - 1]]

Sorted(n, o, when) == \A i, j \in 1..n : i < j => when[o[i]] <= when[o[j]]

\* The handler of a timer that is still in its old place is running.
Serving(t) == pc = "handler" /\ t = in_timeout /\ ~did_reset

\* What Timeout() relies on between two handlers and inside one.
InTimeoutInv ==
    /\ pc # "handler" => ~did_cancel /\ ~did_reset
    /\ pc = "select" => in_timeout = NULL
    /\ pc = "handler" => in_timeout \in alive

\* A timer h that fired while t was due is behind t as soon as its handler is done,
\* and the time it waits is counted from then.
RoundRobin(n, o) ==
    \A t \in Timers : \A h \in passed[t] :
        /\ h \in 1..timer_ids /\ h # t
        /\ timer[t].when <= clock
        /\ pc = "handler" => t # in_timeout
        /\ t \in Elements(n, o)
        /\ (h \in Elements(n, o) /\ ~Serving(h))
               => (Before(n, o, t, h) /\ timer[t].when <= timer[h].started)

ChainInv(n, o) ==
    /\ Chain(list, n, o)
    /\ Sorted(n, o, When(timer))
    /\ alive = Elements(n, o) \cup {t \in {in_timeout} : did_cancel}
    /\ did_cancel => in_timeout \notin Elements(n, o)
    /\ RoundRobin(n, o)

IInv ==
    /\ TypeOK
    /\ InTimeoutInv
    /\ \E n \in 0..MaxTimers : \E o \in [1..n -> Timers] : ChainInv(n, o)
    /\ NoOversleep
=============================================================================
