---------------------------- MODULE TimerManager ----------------------------
(***************************************************************************)
(* The timers of a DaemonCore daemon (timer_manager.cpp): a linked list    *)
(* sorted by time, with a pointer to its last element, changed by handlers *)
(* that Timeout() is in the middle of calling, and by other code while the *)
(* daemon is in select().                                                  *)
(***************************************************************************)
EXTENDS Integers, FiniteSets, FiniteSetsExt

CONSTANTS MaxTimers,   \* bound: timers ever registered
          MaxTime,     \* bound: the clock
          Requests,    \* times (from now, or Never) and periods (0 for none) asked for
          MaxFires     \* MAX_FIRES_PER_TIMEOUT

VARIABLES
    list,       \* timer_list, list_tail and the next pointers
    timer,      \* when, period and period_started of every timer
    alive,      \* timers that are not deleted
    timer_ids,  \* the last ID given out
    in_timeout, did_reset, did_cancel,
    now,        \* the time Timeout() goes by
    fires,      \* handlers called by this Timeout()
    pc,         \* "select" outside Timeout(), "loop" in it, "handler" in a handler
    clock,      \* time(NULL)
    wake,       \* when select() returns; woken by Wake_up_select()
    passed      \* timers that fired while the given one was due

vars == <<list, timer, alive, timer_ids, in_timeout, did_reset, did_cancel, now,
          fires, pc, clock, wake, passed>>

Timers == 1..MaxTimers
NULL == 0
Never == 2 * MaxTime + 1     \* TIME_T_NEVER, later than any time
Broken == -1                 \* EXCEPT() or a failed ASSERT()

ASSUME TimerAssumption ==
    /\ MaxTimers \in Nat /\ MaxTime \in Nat /\ MaxFires \in Nat
    /\ Requests \subseteq ((0..MaxTime) \cup {Never}) \X (0..MaxTime)

-----------------------------------------------------------------------------
\* The linked list

\* What n steps along the list from its head lead to.
Walk(l) ==
    LET w[n \in 0..MaxTimers] ==
            IF n = 0 THEN l.head ELSE IF w[n - 1] = NULL THEN NULL ELSE l.next[w[n - 1]]
    IN  w

Listed(l) == LET w == Walk(l) IN {w[n] : n \in 0..MaxTimers} \ {NULL}

\* GetTimer's prev, and trail_ptr of the two methods that look for an ID.
Prev(l, t) ==
    IF \E p \in Listed(l) : l.next[p] = t
    THEN CHOOSE p \in Listed(l) : l.next[p] = t ELSE NULL

RemoveTimer(l, t, prev) ==
    IF t \notin Listed(l) \/ (IF prev = NULL THEN t # l.head ELSE l.next[prev] # t)
    THEN [l EXCEPT !.head = Broken]
    ELSE [head |-> IF t = l.head THEN l.next[t] ELSE l.head,
          tail |-> IF t = l.tail THEN prev ELSE l.tail,
          next |-> [p \in Timers |-> IF p = prev THEN l.next[t] ELSE l.next[p]]]

\* The place for a timer: after all that are not later.
Trail(l, t, when) ==
    LET w == Walk(l)
    IN  w[Min({n \in 0..MaxTimers : w[n] = NULL \/ when[t] < when[w[n]]}) - 1]

\* Slip: among equal times the new timer is the first.
InsertBeforeEquals(l, t, when) ==
    LET w == Walk(l)
        n == Min({i \in 0..MaxTimers : w[i] = NULL \/ when[t] <= when[w[i]]})
    IN  IF n = 0
        THEN [head |-> t, tail |-> IF l.head = NULL THEN t ELSE l.tail,
              next |-> [l.next EXCEPT ![t] = l.head]]
        ELSE [head |-> l.head, tail |-> IF w[n - 1] = l.tail THEN t ELSE l.tail,
              next |-> [l.next EXCEPT ![w[n - 1]] = t, ![t] = w[n]]]

InsertTimer(l, t, when) ==
    CASE l.head = NULL ->
            [head |-> t, tail |-> t, next |-> [l.next EXCEPT ![t] = NULL]]
      [] l.head # NULL /\ when[t] < when[l.head] ->
            [head |-> t, tail |-> l.tail, next |-> [l.next EXCEPT ![t] = l.head]]
      [] l.head # NULL /\ ~(when[t] < when[l.head]) /\ when[t] = Never ->
            [head |-> l.head, tail |-> t, next |-> [l.next EXCEPT ![t] = NULL, ![l.tail] = t]]
      [] OTHER ->
            LET p == Trail(l, t, when)
            IN  [head |-> l.head, tail |-> IF p = l.tail THEN t ELSE l.tail,
                 next |-> [l.next EXCEPT ![p] = t, ![t] = l.next[p]]]

\* Slip: select() is woken up only for the first timer of an empty list.
WakesWhenEmpty(l, t) ==
    IF pc = "select" /\ l.head = t /\ l.next[t] = NULL THEN [wake EXCEPT !.woken = TRUE] ELSE wake

\* InsertTimer() wakes up select() for a new first timer.
Wakes(l, t) == IF pc = "select" /\ l.head = t THEN [wake EXCEPT !.woken = TRUE] ELSE wake

\* DeleteTimer: nothing of the timer is left.
Unset == [when |-> Never, period |-> 0, started |-> 0]
Deletes(ts, l) ==
    /\ alive' = alive \ ts
    /\ timer' = [t \in Timers |-> IF t \in ts THEN Unset ELSE timer[t]]
    /\ list' = [l EXCEPT !.next = [t \in Timers |-> IF t \in ts THEN NULL ELSE l.next[t]]]

When(f) == [t \in Timers |-> f[t].when]

\* The time of a timer that is to fire delta seconds from now.
After(delta) == IF delta = Never THEN Never ELSE clock + delta

-----------------------------------------------------------------------------
Init ==
    /\ list = [head |-> NULL, tail |-> NULL, next |-> [t \in Timers |-> NULL]]
    /\ timer = [t \in Timers |-> Unset]
    /\ alive = {}
    /\ timer_ids = 0
    /\ in_timeout = NULL /\ did_reset = FALSE /\ did_cancel = FALSE
    /\ now = 0 /\ fires = 0
    /\ pc = "select"
    /\ clock = 0
    /\ wake = [at |-> 0, woken |-> FALSE]
    /\ passed = [t \in Timers |-> {}]

\* The methods are called by handlers of timers, and between two Timeout()s: by
\* threads during select(), and by the handlers of commands and signals after it
\* (then there is nothing to wake up, and Timeout() is next).
Calls == pc \in {"select", "handler"}
timeout == <<in_timeout, now, fires, pc, clock>>

NewTimer(delta, period) ==
    /\ Calls /\ timer_ids < MaxTimers
    /\ LET t == timer_ids + 1
       IN  /\ timer_ids' = t
           /\ timer' = [timer EXCEPT ![t] =
                  [when |-> After(delta), period |-> period, started |-> clock]]
           /\ alive' = alive \cup {t}
           /\ list' = InsertTimer(list, t, When(timer'))
           /\ wake' = Wakes(list', t)
    /\ UNCHANGED <<timeout, did_reset, did_cancel, passed>>

\* The common end of the variants of ResetTimer.
Reset(t, new) ==
    /\ timer' = [timer EXCEPT ![t] = new]
    /\ list' = InsertTimer(RemoveTimer(list, t, Prev(list, t)), t, When(timer'))
    /\ wake' = Wakes(list', t)
    /\ did_reset' = (did_reset \/ in_timeout = t)
    /\ passed' = [passed EXCEPT ![t] = {}]
    /\ UNCHANGED <<timeout, alive, timer_ids, did_cancel>>

ResetTimer(t, delta, period) ==
    /\ Calls /\ t \in Listed(list)
    /\ Reset(t, [when |-> After(delta), period |-> period, started |-> clock])

\* recompute_when: the time waited so far counts. The callers are reconfiguration
\* code, which no timer's own handler reaches. With a clock that is not set back
\* the sanity check always passes.
ResetTimerPeriod(t, period) ==
    /\ Calls /\ t \in Listed(list) /\ t # in_timeout
    /\ Reset(t, [timer[t] EXCEPT !.when = timer[t].started + period, !.period = period])

\* Slip: Timeout() is not told that the timer of its handler is gone.
CancelUntold(t) ==
    /\ Calls /\ t \in Listed(list)
    /\ Deletes({t} \ {in_timeout}, RemoveTimer(list, t, Prev(list, t)))
    /\ passed' = [passed EXCEPT ![t] = {}]
    /\ UNCHANGED <<timeout, timer_ids, did_reset, did_cancel, wake>>

\* Slip: the timer is deleted though its handler is running.
CancelDeletes(t) ==
    /\ Calls /\ t \in Listed(list)
    /\ did_cancel' = (did_cancel \/ in_timeout = t)
    /\ Deletes({t}, RemoveTimer(list, t, Prev(list, t)))
    /\ passed' = [passed EXCEPT ![t] = {}]
    /\ UNCHANGED <<timeout, timer_ids, did_reset, wake>>

\* The timer of the running handler is left for Timeout() to delete.
CancelTimer(t) ==
    /\ Calls /\ t \in Listed(list)
    /\ did_cancel' = (did_cancel \/ in_timeout = t)
    /\ Deletes({t} \ {in_timeout}, RemoveTimer(list, t, Prev(list, t)))
    /\ passed' = [passed EXCEPT ![t] = {}]
    /\ UNCHANGED <<timeout, timer_ids, did_reset, wake>>

CancelAllTimers ==
    /\ Calls /\ list.head # NULL
    /\ did_cancel' = (did_cancel \/ in_timeout \in Listed(list))
    /\ Deletes(Listed(list) \ {in_timeout}, [list EXCEPT !.head = NULL, !.tail = NULL])
    /\ passed' = [t \in Timers |-> {}]
    /\ UNCHANGED <<timeout, timer_ids, did_reset, wake>>

-----------------------------------------------------------------------------
\* Timeout, called by the driver whenever select() returns.

Due(t) == t \in Listed(list) /\ timer[t].when <= clock

StartTimeout ==
    /\ pc = "select"
    /\ pc' = "loop"
    /\ now' = clock
    /\ fires' = 0
    /\ wake' = [at |-> 0, woken |-> FALSE]
    /\ UNCHANGED <<list, timer, alive, timer_ids, in_timeout, did_reset, did_cancel, clock, passed>>

\* Slip: one Timeout() calls any number of handlers.
AnyNumberToFire == list.head \in Timers /\ timer[list.head].when <= now

\* The condition of the loop.
MoreToFire == list.head \in Timers /\ timer[list.head].when <= now /\ fires < MaxFires

CallHandler ==
    /\ pc = "loop" /\ MoreToFire
    /\ pc' = "handler"
    /\ in_timeout' = list.head
    /\ fires' = Min({fires + 1, MaxFires})
    /\ passed' = [t \in Timers |->
          IF t = list.head THEN {} ELSE IF Due(t) THEN passed[t] \cup {list.head} ELSE passed[t]]
    /\ UNCHANGED <<list, timer, alive, timer_ids, did_reset, did_cancel, now, clock, wake>>

\* did_reset and did_cancel are only read here; the code clears them before the
\* next handler, which comes to the same.
HandlerReturns ==
    /\ pc = "handler"
    /\ pc' = "loop"
    /\ LET t == in_timeout
           without == RemoveTimer(list, t, Prev(list, t))
       IN  \/ /\ did_cancel
              /\ Deletes({t}, list)
              /\ UNCHANGED wake
           \/ /\ ~did_cancel /\ did_reset
              /\ UNCHANGED <<list, timer, wake, alive>>
           \/ /\ ~did_cancel /\ ~did_reset /\ timer[t].period > 0
              /\ timer' = [timer EXCEPT ![t].when = clock + timer[t].period, ![t].started = clock]
              /\ list' = InsertTimer(without, t, When(timer'))
              /\ wake' = Wakes(list', t)
              /\ UNCHANGED alive
           \/ /\ ~did_cancel /\ ~did_reset /\ timer[t].period = 0
              /\ Deletes({t}, without)
              /\ UNCHANGED wake
    /\ did_reset' = FALSE /\ did_cancel' = FALSE
    /\ UNCHANGED <<timer_ids, in_timeout, now, fires, clock, passed>>

\* The result is the time select() may take.
EndTimeout ==
    /\ pc = "loop" /\ ~MoreToFire
    /\ pc' = "select"
    /\ in_timeout' = NULL /\ now' = 0 /\ fires' = 0
    /\ wake' = [wake EXCEPT !.at =
          IF list.head = NULL \/ timer[list.head].when = Never THEN Never
          ELSE Max({timer[list.head].when, clock})]
    /\ UNCHANGED <<list, timer, alive, timer_ids, did_reset, did_cancel, clock, passed>>

Tick ==
    /\ clock < MaxTime
    /\ clock' = clock + 1
    /\ UNCHANGED <<list, timer, alive, timer_ids, in_timeout, did_reset, did_cancel, now,
                   fires, pc, wake, passed>>

Next ==
    \/ \E r \in Requests : NewTimer(r[1], r[2])
    \/ \E t \in Timers :
         \/ \E r \in Requests : ResetTimer(t, r[1], r[2])
         \/ \E r \in Requests : r[2] > 0 /\ ResetTimerPeriod(t, r[2])
         \/ CancelTimer(t)
    \/ CancelAllTimers
    \/ StartTimeout \/ CallHandler \/ HandlerReturns \/ EndTimeout
    \/ Tick

Spec == Init /\ [][Next]_vars
FairSpec == Spec /\ WF_vars(CallHandler \/ HandlerReturns \/ EndTimeout)

-----------------------------------------------------------------------------
\* Properties

\* Timeout() finds the timer it has just served where it was, whatever its
\* handler did to it and to the others: the EXCEPT() of RemoveTimer and the
\* ASSERT() before its call are never reached.
NeverExcepts == list.head # Broken

\* The list holds every registered timer, and no deleted one, in the order of
\* their times; a timer that its own handler cancels, or CancelAllTimers calls
\* from it, is not deleted under Timeout(), which still uses it; and list_tail
\* is the last element, which InsertTimer relies on for a timer that never fires.
ListSound ==
    /\ alive = Listed(list) \cup {t \in {in_timeout} : did_cancel}
    /\ \A t \in Listed(list) :
         IF list.next[t] = NULL THEN list.tail = t
         ELSE timer[t].when <= timer[list.next[t]].when

\* Timers that constantly reset themselves to zero do not starve others: while
\* a timer is due and nobody resets it, every other one fires at most once
\* before it (the "round-robin" of InsertTimer's comment).
NoOvertaking ==
    [][CallHandler => \A t \in Timers \ {list.head} : Due(t) => list.head \notin passed[t]]_pc

\* select() never outlasts the first timer of the list, also when that timer is
\* new or was reset during the select() (Timeout's result, Wake_up_select).
NoOversleep ==
    (pc = "select" /\ ~wake.woken /\ list.head # NULL)
        => wake.at <= Max({timer[list.head].when, clock})

\* Timers do not starve the rest of DaemonCore: every Timeout() returns, also
\* when a handler resets its timer to zero (MAX_FIRES_PER_TIMEOUT).
TimeoutReturns == (pc = "loop") ~> (pc = "select")
=============================================================================
