------------------------------ MODULE StartdSlot ------------------------------
(***************************************************************************)
(* One static slot of the condor_startd: the state machine of ResState.cpp,*)
(* the Resource that owns it, its three Claim objects (current, preempting *)
(* and preempting-preempting), and the commands, timers and reapers that   *)
(* drive it (command.cpp, claim.cpp, Resource.cpp, ResMgr.cpp,             *)
(* startd_main.cpp).                                                       *)
(*                                                                         *)
(* The startd is single threaded: a handler runs to completion before the  *)
(* next event is served, and inside a handler change(), enter_action() and *)
(* eval() call each other.  Nearly all those calls are tail calls, so the  *)
(* stack is two registers: fn is the function about to run and then the    *)
(* one its caller still has to finish.  fn = "ready" is DaemonCore's       *)
(* select loop; every event is enabled only there.                         *)
(*                                                                         *)
(* Policy expressions (START, PREEMPT, SUSPEND, ...) depend on the job, the*)
(* clock and the machine's load; each evaluation may give any result the   *)
(* code can get.  EXCEPT and a failed ASSERT lead to fn = "except".        *)
(***************************************************************************)
EXTENDS StartdClaim

CONSTANT HasBackfill    \* resmgr->m_backfill_mgr is configured

ASSUME BackfillAssumption == HasBackfill \in BOOLEAN

VARIABLES
    r_state, r_act,         \* ResState: state and activity
    r_destination,          \* ResState: "none" or where we are heading
    r_act_was_benchmark,    \* ResState
    r_cur, r_pre, r_pre_pre,\* Resource: the three claims
    m_bUserSuspended,       \* Resource
    rstate,                 \* Reqexp: which Requirements are advertised
    boinc,                  \* BOINC_BackfillMgr: a client exists for the slot
    draining, draining_is_graceful, resume_on_completion, \* ResMgr
    is_shutting_down,       \* ResMgr
    fn, to_state, to_act,   \* the function about to run and its arguments
    statechange,            \* enter_action's argument
    then                    \* what its caller does when it returns

resstate == <<r_state, r_act, r_destination, r_act_was_benchmark>>
claims   == <<r_cur, r_pre, r_pre_pre>>
machine  == <<draining, draining_is_graceful, resume_on_completion,
              is_shutting_down>>
control  == <<fn, to_state, to_act, statechange, then>>
vars     == <<resstate, claims, m_bUserSuspended, rstate, boinc, machine,
              control>>

States == {"owner", "unclaimed", "matched", "claimed", "preempting",
           "backfill", "drained"}
Activities == {"idle", "busy", "suspended", "retiring", "vacating",
               "killing", "benchmarking"}
Continuations == {"ready", "unavail", "userSuspended", "userContinued",
                  "destOwner", "starterExited"}
Functions == Continuations \cup
             {"change", "enter", "eval", "leave_preempting", "accept",
              "except", "exited"}

StateType ==
    /\ r_state \in States /\ r_act \in Activities
    /\ r_destination \in {"none", "owner", "matched", "claimed"}

ClaimsType ==
    /\ r_cur \in Claim \cup {NoClaim}
    /\ r_pre \in Claim \cup {NoClaim}
    /\ r_pre_pre \in Claim \cup {NoClaim}

FlagsType ==
    /\ rstate \in {"orig", "unavail"}
    /\ r_act_was_benchmark \in BOOLEAN /\ m_bUserSuspended \in BOOLEAN
    /\ boinc \in BOOLEAN
    /\ draining \in BOOLEAN /\ draining_is_graceful \in BOOLEAN
    /\ resume_on_completion \in BOOLEAN /\ is_shutting_down \in BOOLEAN

ControlType ==
    /\ fn \in Functions /\ then \in Continuations
    /\ to_state \in States /\ to_act \in Activities
    /\ statechange \in BOOLEAN

TypeOK == StateType /\ ClaimsType /\ FlagsType /\ ControlType

Init ==
    /\ r_state = "owner" /\ r_act = "idle" /\ r_destination = "none"
    /\ r_act_was_benchmark = FALSE
    /\ r_cur = NewClaim /\ r_pre = NoClaim /\ r_pre_pre = NoClaim
    /\ m_bUserSuspended = FALSE /\ rstate = "orig" /\ boinc = FALSE
    /\ draining = FALSE /\ draining_is_graceful = FALSE
    /\ resume_on_completion = FALSE /\ is_shutting_down = FALSE
    /\ fn = "ready" /\ then = "ready"
    /\ to_state = "owner" /\ to_act = "idle" /\ statechange = FALSE

------------------------------------------------------------------------------
(* Calling and returning                                                   *)

(* Run f next; k is what remains to be done after it. *)
Jump(f, s, a, sc, k) ==
    /\ fn' = f /\ to_state' = s /\ to_act' = a
    /\ statechange' = sc /\ then' = k

CallThen(f, k) == Jump(f, "owner", "idle", FALSE, k)
ChangeThen(s, a, k) == Jump("change", s, a, FALSE, k)
ReturnTo(k) == CallThen(k, "ready")

Call(f) == CallThen(f, then)
Change(s, a) == ChangeThen(s, a, then)
Return == ReturnTo(then)

(* EXCEPT(), ASSERT(): the daemon dies here. *)
Except == Call("except")

(* change(preempting_state): wants_vacate() is TRUE without a job. *)
ChangePreempting(c) ==
    \E a \in IF ~c.preemptTrue \/ ~IsActive(c)
             THEN {"vacating"} ELSE {"vacating", "killing"} :
        Change("preempting", a)

------------------------------------------------------------------------------
(* Queries on the slot                                                     *)

HasPreemptingClaim == r_pre # NoClaim /\ r_pre.stream

(* Slip: a claim is unretired although a schedd waits to preempt it. *)
MayUnretireAnyway == ~draining /\ r_cur.mayUnretire

MayUnretire == ~draining /\ r_cur.mayUnretire /\ ~HasPreemptingClaim

InRetirement == HasPreemptingClaim \/ ~MayUnretire

(* The answers retirementExpired() can give: retirement time is for jobs,  *)
(* graceful draining waits for the slowest slot, other draining does not.  *)
RetirementExpired ==
    IF draining /\ draining_is_graceful THEN BOOLEAN
    ELSE IF draining \/ ~IsActive(r_cur) THEN {TRUE} ELSE BOOLEAN

HasAnyClaim ==
    \/ r_state \in {"claimed", "preempting"}
    \/ r_state = "backfill" /\ r_act # "idle"

(* What Reqexp::restore() makes of the advertised Requirements. *)
Restored == IF is_shutting_down \/ draining THEN "unavail" ELSE "orig"

------------------------------------------------------------------------------
(* Slip: a backfill client counts as gone before it has exited. *)
SetDestinationAtOnce(d, k) ==
    IF d = "claimed" /\ ~r_cur'.stream
    THEN Except /\ UNCHANGED r_destination
    ELSE /\ r_destination' = d
         /\ IF d = "claimed" THEN CallThen("accept", k) ELSE ChangeThen(d, "idle", k)

(* set_destination(d).  It answers for r_cur as the caller leaves it.      *)
SetDestination(d, k) ==
    IF d = "claimed" /\ ~r_cur'.stream
    THEN Except /\ UNCHANGED r_destination
    ELSE IF d = "matched" /\ r_destination # "none"
    THEN ReturnTo(k) /\ UNCHANGED r_destination
    ELSE /\ r_destination' = d
         /\ CASE \/ r_state \in {"owner", "matched", "unclaimed"}
                 \/ r_state = "backfill" /\ r_act = "idle" ->
                   IF d = "claimed" THEN CallThen("accept", k)
                                    ELSE ChangeThen(d, "idle", k)
              [] r_state = "backfill" /\ r_act # "idle" ->
                   ChangeThen("backfill", "killing", k)
              [] r_state = "preempting" -> ReturnTo(k)
              [] r_state = "claimed" -> ChangePreempting(r_cur')
              [] r_state = "drained" -> Except

(* Resource::retire_claim, release_claim and kill_claim.  The last case is *)
(* a direct signal to a starter "that shouldn't be there".                 *)
EndClaim(claimedStates, r_cur1, s, a, k, killed) ==
    CASE r_state \in claimedStates ->
           r_cur' = r_cur1 /\ ChangeThen(s, a, k) /\ UNCHANGED r_destination
      [] r_state = "matched" ->
           /\ ChangeThen("owner", "idle", k)
           /\ UNCHANGED <<r_cur, r_destination>>
      [] r_state = "backfill" -> UNCHANGED r_cur /\ SetDestination("owner", k)
      [] OTHER -> r_cur' = killed /\ ReturnTo(k) /\ UNCHANGED r_destination

RetireClaim(reversible, ok, k) ==
    EndClaim({"claimed"},
             [r_cur EXCEPT !.mayUnretire = @ /\ reversible],
             "claimed", "retiring", k, StarterKillSoft(r_cur, ok))

KillClaim(c, ok, k) ==
    EndClaim({"claimed", "preempting"}, c, "preempting", "killing", k,
             StarterKillHard(c, ok))

(* release_claim, whose callers are in the claimed or the matched state. *)
ReleaseClaim(c) ==
    /\ r_cur' = c
    /\ IF r_state = "claimed" THEN Change("preempting", "vacating")
                              ELSE Change("owner", "idle")

(* ResState::starterExited(), called after r_cur' is set. *)
StarterExitedResState(k) ==
    IF r_destination = "claimed"
    THEN IF r_cur'.stream
         THEN CallThen("accept", k) /\ UNCHANGED r_destination
         ELSE r_destination' = "none" /\ ChangeThen("owner", "idle", k)
    ELSE /\ UNCHANGED r_destination
         /\ CASE r_destination # "none" -> ChangeThen(r_destination, "idle", k)
              [] r_destination = "none" /\ r_state = "backfill" ->
                   ChangeThen("backfill", "idle", k)
              [] r_destination = "none" /\ r_state \in {"claimed", "preempting"} ->
                   ReturnTo(k)
              [] OTHER -> Except

------------------------------------------------------------------------------
(* ResState::change(new_state, new_act)                                    *)

LeavingSuspended == r_state = "claimed" /\ r_act = "suspended"

ChangeNothing ==
    /\ fn = "change"
    /\ to_state = r_state /\ to_act = r_act
    /\ Return
    /\ UNCHANGED <<resstate, claims, m_bUserSuspended, rstate, boinc, machine>>

(* leave_action could not resume the job: SIGKILL, and go preempting. *)
ChangeAborted ==
    /\ fn = "change"
    /\ to_state # r_state \/ to_act # r_act
    /\ LeavingSuspended /\ r_cur.starter /\ to_state # "preempting"
    /\ r_cur' = StarterKillPg(ResumeClaim(r_cur, FALSE))
    /\ ChangePreempting(r_cur')
    /\ UNCHANGED <<resstate, r_pre, r_pre_pre, m_bUserSuspended, rstate, boinc,
                   machine>>

(* Slip: the lease is cancelled by every change of activity. *)
LeaveActionAlwaysCancels(ok) ==
    LET resumed == IF LeavingSuspended THEN ResumeClaim(r_cur, ok) ELSE r_cur
    IN  IF ~ok THEN StarterKillPg(resumed)
        ELSE IF r_state = "claimed" /\ to_act # "vacating"
        THEN CancelLeaseTimer(resumed)
        ELSE resumed

(* leave_action() on r_cur.  When resuming fails on the way to preempting  *)
(* it returns early, past the cancellation of the lease timer.             *)
LeaveAction(ok) ==
    LET resumed == IF LeavingSuspended THEN ResumeClaim(r_cur, ok) ELSE r_cur
    IN  IF ~ok THEN StarterKillPg(resumed)
        ELSE IF /\ r_state = "claimed" /\ to_state # "claimed"
                /\ to_act # "vacating"
        THEN CancelLeaseTimer(resumed)
        ELSE resumed

ChangeMade ==
    /\ fn = "change"
    /\ to_state # r_state \/ to_act # r_act
    /\ \E ok \in IF LeavingSuspended THEN Signal(r_cur) ELSE {TRUE} :
          /\ ok \/ to_state = "preempting"
          /\ r_cur' = LeaveAction(ok)
    /\ r_state' = to_state /\ r_act' = to_act
    /\ r_destination' = IF to_state # r_state /\ to_state = r_destination
                        THEN "none" ELSE r_destination
    /\ r_act_was_benchmark' = IF to_act # r_act THEN r_act = "benchmarking"
                              ELSE r_act_was_benchmark
    /\ Jump("enter", "owner", "idle", to_state # r_state, then)
    /\ UNCHANGED <<r_pre, r_pre_pre, m_bUserSuspended, rstate, boinc, machine>>

(* The end of change(): entering idleness or retirement evaluates at once. *)
Entered ==
    IF r_state # "backfill" /\ r_act \in {"idle", "retiring"}
    THEN Call("eval") ELSE Return

------------------------------------------------------------------------------
(* ResState::enter_action()                                                *)

(* Slip: the preempting claims survive the return to Owner. *)
EnterOwnerKeepsPre ==
    /\ fn = "enter" /\ r_state = "owner"
    /\ r_cur' = NewClaim
    /\ \E isOwner \in BOOLEAN :
          /\ IF isOwner THEN Entered ELSE Change("unclaimed", "idle")
          /\ rstate' = IF isOwner THEN Restored ELSE rstate
    /\ UNCHANGED <<resstate, r_pre, r_pre_pre, m_bUserSuspended, boinc, machine>>

EnterOwner ==
    /\ fn = "enter" /\ r_state = "owner"
    /\ r_cur' = NewClaim /\ r_pre' = NoClaim
    /\ r_pre_pre' = IF r_pre = NoClaim THEN r_pre_pre ELSE NoClaim
    /\ \E isOwner \in BOOLEAN :
          /\ IF isOwner THEN Entered ELSE Change("unclaimed", "idle")
          /\ rstate' = IF isOwner THEN Restored ELSE rstate
    /\ UNCHANGED <<resstate, m_bUserSuspended, boinc, machine>>

EnterUnclaimed ==
    /\ fn = "enter" /\ r_state = "unclaimed"
    /\ rstate' = Restored /\ Entered
    /\ UNCHANGED <<resstate, claims, m_bUserSuspended, boinc, machine>>

EnterMatchedOrDrained ==
    /\ fn = "enter" /\ r_state \in {"matched", "drained"}
    /\ rstate' = "unavail" /\ Entered
    /\ UNCHANGED <<resstate, claims, m_bUserSuspended, boinc, machine>>

(* Entering Backfill/Killing asks the BOINC client to die; its exit comes  *)
(* later through BackfillExited.                                           *)
EnterBackfill ==
    /\ fn = "enter" /\ r_state = "backfill"
    /\ rstate' = Restored
    /\ IF r_act \in {"idle", "busy", "killing"} THEN Entered ELSE Except
    /\ UNCHANGED <<resstate, claims, m_bUserSuspended, boinc, machine>>

(* Claimed is entered from another state as Claimed/Idle only: that begins *)
(* the claim and makes the Claim object advertised for preempting it.      *)
BeginClaimed ==
    /\ fn = "enter" /\ r_state = "claimed" /\ statechange
    /\ rstate' = Restored
    /\ r_pre' = NewClaim
    /\ IF r_cur.cstate # "UNCLAIMED" \/ r_cur.leaseT
       THEN Except /\ UNCHANGED r_cur
       ELSE r_cur' = BeginClaim(r_cur) /\ Entered
    /\ UNCHANGED <<resstate, r_pre_pre, m_bUserSuspended, boinc, machine>>

(* Slip: Busy is entered without asking whether the claim must retire. *)
EnterClaimedStaysBusy ==
    /\ fn = "enter" /\ r_state = "claimed" /\ ~statechange
    /\ rstate' = Restored
    /\ \/ /\ r_act = "suspended"
          /\ r_cur' = SuspendClaim(r_cur, TRUE) /\ Entered
       \/ /\ r_act = "retiring"
          /\ IF IsActive(r_cur) THEN Entered ELSE ChangePreempting(r_cur)
          /\ UNCHANGED r_cur
       \/ r_act \in {"idle", "busy"} /\ Entered /\ UNCHANGED r_cur
    /\ UNCHANGED <<resstate, r_pre, r_pre_pre, m_bUserSuspended, boinc, machine>>

EnterClaimed ==
    /\ fn = "enter" /\ r_state = "claimed" /\ ~statechange
    /\ rstate' = Restored
    /\ \/ /\ r_act = "suspended"
          /\ \E ok \in Signal(r_cur) :
                IF ok THEN r_cur' = SuspendClaim(r_cur, TRUE) /\ Entered
                ELSE /\ r_cur' = StarterKillPg(SuspendClaim(r_cur, FALSE))
                     /\ ChangePreempting(r_cur')
       \/ /\ r_act = "busy"
          /\ IF InRetirement THEN Change("claimed", "retiring") ELSE Entered
          /\ UNCHANGED r_cur
       \/ /\ r_act = "retiring"
          /\ IF IsActive(r_cur) THEN Entered ELSE ChangePreempting(r_cur)
          /\ UNCHANGED r_cur
       \/ r_act = "idle" /\ Entered /\ UNCHANGED r_cur
    /\ UNCHANGED <<resstate, r_pre, r_pre_pre, m_bUserSuspended, boinc, machine>>

(* WANT_HOLD is consulted only once PREEMPT has been TRUE. *)
HoldJob(soft) ==
    /\ r_cur.preemptTrue
    /\ \E canHold \in BOOLEAN : \E ok \in Signal(r_cur) :
          r_cur' = StarterHoldJob(r_cur, soft, canHold, ok)
    /\ Entered
    /\ UNCHANGED <<r_pre, r_pre_pre>>

EnterPreempting ==
    /\ fn = "enter" /\ r_state = "preempting"
    /\ rstate' = "unavail"
    /\ \/ ~IsActive(r_cur) /\ Call("leave_preempting") /\ UNCHANGED claims
       \/ IsActive(r_cur) /\ HoldJob(r_act = "vacating")
       \/ /\ IsActive(r_cur) /\ r_act = "killing"
          /\ \E ok \in Signal(r_cur) :
                /\ r_cur' = StarterKillHard(r_cur, ok)
                /\ IF ok THEN Entered ELSE Call("leave_preempting")
          /\ UNCHANGED <<r_pre, r_pre_pre>>
       \/ /\ IsActive(r_cur) /\ r_act = "vacating"
          /\ \E ok \in Signal(r_cur) :
                IF ok THEN r_cur' = StarterKillSoft(r_cur, TRUE) /\ Entered
                ELSE /\ r_cur' = StarterKillPg(StarterKillSoft(r_cur, FALSE))
                     /\ Change("owner", "idle")
          /\ UNCHANGED <<r_pre, r_pre_pre>>
    /\ UNCHANGED <<resstate, m_bUserSuspended, boinc, machine>>

------------------------------------------------------------------------------
(* Resource::leave_preempting_state() and accept_request_claim()           *)

(* Slip: r_pre_pre is forgotten in the clean-up. *)
LeavePreemptingKeepsPrePre ==
    /\ fn = "leave_preempting"
    /\ \E allow \in BOOLEAN :
          IF allow /\ HasPreemptingClaim
          THEN r_cur' = r_pre /\ Call("accept")
          ELSE r_cur' = NoClaim /\ Change("owner", "idle")
    /\ r_pre' = NoClaim
    /\ UNCHANGED <<resstate, r_pre_pre, m_bUserSuspended, rstate, boinc, machine>>

(* The preempting claim becomes the current one if its schedd still waits  *)
(* and the machine is still available (allow); otherwise back to owner.    *)
LeavePreempting ==
    /\ fn = "leave_preempting"
    /\ \E allow \in BOOLEAN :
          IF allow /\ HasPreemptingClaim /\ r_destination \in {"none", "claimed"}
          THEN r_cur' = r_pre /\ Call("accept") /\ UNCHANGED r_destination
          ELSE /\ r_cur' = NoClaim
               /\ IF r_destination = "matched" THEN Except ELSE Change("owner", "idle")
               /\ r_destination' = IF r_destination = "claimed" THEN "owner"
                                   ELSE r_destination
    /\ r_pre' = NoClaim /\ r_pre_pre' = NoClaim
    /\ UNCHANGED <<r_state, r_act, r_act_was_benchmark, m_bUserSuspended, rstate,
                   boinc, machine>>

(* Reply OK to the waiting schedd.  If that fails abort_accept_claim()     *)
(* heads for owner; a backfill slot gets there through its destination.    *)
AcceptClaim ==
    /\ fn = "accept"
    /\ IF r_pre # NoClaim \/ ~r_cur.stream
       THEN Except /\ UNCHANGED <<r_cur, r_destination>>
       ELSE /\ r_cur' = [r_cur EXCEPT !.stream = FALSE]
            /\ \/ Change("claimed", "idle") /\ UNCHANGED r_destination
               \/ /\ Change("owner", "idle")
                  /\ r_destination' =
                        IF r_state = "backfill" /\ r_act = "idle" THEN "owner"
                        ELSE IF r_state = "backfill" THEN "none"
                        ELSE r_destination
    /\ UNCHANGED <<r_state, r_act, r_act_was_benchmark, r_pre, r_pre_pre,
                   m_bUserSuspended, rstate, boinc, machine>>

------------------------------------------------------------------------------
(* ResState::eval()                                                        *)

EvalUnchanged == UNCHANGED <<r_state, r_act, r_destination, r_pre, r_pre_pre,
                             m_bUserSuspended, machine>>

RetirementOver ==
    InRetirement /\ TRUE \in RetirementExpired /\ ChangePreempting(r_cur)

(* None of the earlier tests of eval() has fired. *)
StillClaimed == ~InRetirement \/ FALSE \in RetirementExpired

PreemptIsTrue ==
    /\ r_act = "busy" \/ (r_act \in {"retiring", "suspended"} /\ ~r_cur.preemptTrue)
    /\ r_cur' = [r_cur EXCEPT !.preemptTrue = TRUE, !.mayUnretire = FALSE]
    /\ Change("claimed", "retiring")

Unretire == r_act = "retiring" /\ MayUnretire

EvalClaimed ==
    /\ fn = "eval" /\ r_state = "claimed"
    /\ \/ RetirementOver /\ UNCHANGED <<r_cur, rstate>>
       \/ StillClaimed /\ PreemptIsTrue /\ UNCHANGED rstate
       \/ Unretire /\ Change("claimed", "busy") /\ UNCHANGED <<r_cur, rstate>>
       \/ /\ StillClaimed /\ ~Unretire
          /\ \/ /\ r_act \in {"busy", "retiring"}
                /\ Change("claimed", "suspended") /\ UNCHANGED rstate
             \/ /\ r_act = "suspended" /\ ~m_bUserSuspended
                /\ Change("claimed", IF InRetirement THEN "retiring" ELSE "busy")
                /\ UNCHANGED rstate
             \/ /\ r_act = "busy" /\ HasPreemptingClaim
                /\ Change("claimed", "retiring") /\ UNCHANGED rstate
             \/ /\ r_act = "idle"
                /\ ChangePreempting(r_cur) /\ UNCHANGED rstate
             \/ /\ ~(r_act = "busy" /\ HasPreemptingClaim)
                /\ ~(r_act = "idle" /\ (HasPreemptingClaim \/ draining))
                /\ rstate' = Restored /\ Return
          /\ UNCHANGED r_cur
    /\ EvalUnchanged /\ UNCHANGED <<r_act_was_benchmark, boinc>>

EvalPreempting ==
    /\ fn = "eval" /\ r_state = "preempting"
    /\ \/ r_act = "vacating" /\ Change("preempting", "killing")
       \/ Return
    /\ EvalUnchanged /\ UNCHANGED <<r_cur, rstate, r_act_was_benchmark, boinc>>

EvalOwner ==
    /\ fn = "eval" /\ r_state = "owner"
    /\ IF draining THEN Change("drained", "retiring")
       ELSE Change("unclaimed", "idle") \/ Return
    /\ EvalUnchanged /\ UNCHANGED <<r_cur, rstate, r_act_was_benchmark, boinc>>

EvalMatched ==
    /\ fn = "eval" /\ r_state = "matched"
    /\ Return
    /\ EvalUnchanged /\ UNCHANGED <<r_cur, rstate, r_act_was_benchmark, boinc>>

(* start_benchmarks() either starts some (Unclaimed/Benchmarking) or finds *)
(* none to run, which bounces through benchmarking back to idle and so     *)
(* evaluates again.  START_BACKFILL is looked at even when benchmarks have *)
(* just been started.                                                      *)
EvalUnclaimed ==
    /\ fn = "eval" /\ r_state = "unclaimed"
    /\ \/ /\ draining /\ Change("drained", "retiring")
          /\ UNCHANGED <<r_act, r_act_was_benchmark, rstate>>
       \/ /\ ~draining /\ Change("owner", "idle")
          /\ UNCHANGED <<r_act, r_act_was_benchmark, rstate>>
       \/ /\ ~draining /\ ~r_act_was_benchmark /\ r_act = "idle"
          /\ r_act_was_benchmark' = TRUE /\ rstate' = Restored
          /\ Call("eval") /\ UNCHANGED r_act
       \/ /\ ~draining
          /\ \E bench \in BOOLEAN :
                r_act' = IF bench /\ ~r_act_was_benchmark /\ r_act = "idle"
                         THEN "benchmarking" ELSE r_act
          /\ rstate' = Restored /\ UNCHANGED r_act_was_benchmark
          /\ Return \/ (HasBackfill /\ Change("backfill", "idle"))
    /\ UNCHANGED <<r_state, r_destination, claims, m_bUserSuspended, boinc,
                   machine>>

(* Backfill/Killing only waits for the client to exit.  start() of the     *)
(* backfill manager refuses while the startd shuts down.                   *)
EvalBackfill ==
    /\ fn = "eval" /\ r_state = "backfill"
    /\ \/ Return /\ UNCHANGED boinc
       \/ r_act = "idle" /\ Change("owner", "idle") /\ UNCHANGED boinc
       \/ /\ r_act = "busy" /\ ChangeThen("backfill", "killing", "destOwner")
          /\ UNCHANGED boinc
       \/ /\ r_act = "idle" /\ ~is_shutting_down /\ ~boinc
          /\ boinc' = TRUE /\ Change("backfill", "busy")
    /\ EvalUnchanged /\ UNCHANGED <<r_cur, rstate, r_act_was_benchmark>>

(* ResMgr::cancelDraining().  The two qualifiers keep their old values in  *)
(* the code but are not read until the next startDraining() sets them.     *)
drainVars == <<draining, draining_is_graceful, resume_on_completion, rstate>>

ResumeNormalOperation ==
    /\ draining' = FALSE /\ draining_is_graceful' = FALSE
    /\ resume_on_completion' = FALSE
    /\ rstate' = IF is_shutting_down THEN "unavail" ELSE "orig"

(* Other slots of the startd drain at their own pace, so the tests over    *)
(* all slots may fail although this one is drained.                        *)
EvalDrained ==
    /\ fn = "eval" /\ r_state = "drained"
    /\ \/ ~draining /\ Change("owner", "idle") /\ UNCHANGED drainVars
       \/ /\ draining /\ r_act = "retiring" /\ Change("drained", "idle")
          /\ UNCHANGED drainVars
       \/ /\ draining /\ r_act = "idle" /\ resume_on_completion
          /\ ResumeNormalOperation /\ Return
       \/ draining /\ Return /\ UNCHANGED drainVars
    /\ UNCHANGED <<resstate, claims, m_bUserSuspended, boinc, is_shutting_down>>

------------------------------------------------------------------------------
(* What callers do once the function they called has returned              *)

SetUnavail ==
    /\ fn = "unavail" /\ rstate' = "unavail" /\ Return
    /\ UNCHANGED <<resstate, claims, m_bUserSuspended, boinc, machine>>

SetUserSuspended ==
    /\ fn \in {"userSuspended", "userContinued"}
    /\ m_bUserSuspended' = (fn = "userSuspended") /\ Return
    /\ UNCHANGED <<resstate, claims, rstate, boinc, machine>>

SetDestOwner ==
    /\ fn = "destOwner" /\ UNCHANGED claims
    /\ SetDestination("owner", then)
    /\ UNCHANGED <<r_state, r_act, r_act_was_benchmark, m_bUserSuspended, rstate,
                   boinc, machine>>

(* The rest of Resource::starterExited(). *)
StarterGone ==
    /\ fn = "starterExited"
    /\ CASE r_state = "claimed" ->
             IF ~r_cur.client THEN Except
             ELSE IF r_act = "retiring" THEN ChangePreempting(r_cur)
             ELSE Change("claimed", "idle")
         [] r_state = "preempting" -> Call("leave_preempting")
         [] OTHER -> Change("owner", "idle")
    /\ UNCHANGED <<resstate, claims, m_bUserSuspended, rstate, boinc, machine>>

------------------------------------------------------------------------------
(* Events served by the select loop                                        *)

Ready == fn = "ready"

SlotOnly == UNCHANGED <<r_state, r_act, r_act_was_benchmark, boinc, machine>>

(* The polling timer, and the evaluation before each update. *)
Poll ==
    /\ Ready /\ Call("eval")
    /\ UNCHANGED <<resstate, claims, m_bUserSuspended, rstate, boinc, machine>>

BenchmarksFinished ==
    /\ Ready /\ r_act = "benchmarking"
    /\ Change(r_state, "idle")
    /\ UNCHANGED <<resstate, claims, m_bUserSuspended, rstate, boinc, machine>>

(* MATCH_INFO from the negotiator.  Duplicates and late ones arrive too.   *)
MatchCurrent ==
    /\ Ready /\ ~is_shutting_down
    /\ r_state \in {"owner", "unclaimed", "backfill"} /\ r_destination = "none"
    /\ r_cur' = [r_cur EXCEPT !.matchT = TRUE]
    /\ IF r_state = "backfill" THEN SetDestination("matched", then)
       ELSE Change("matched", "idle") /\ UNCHANGED r_destination
    /\ SlotOnly /\ UNCHANGED <<r_pre, r_pre_pre, m_bUserSuspended, rstate>>

MatchPreempting ==
    /\ Ready /\ ~is_shutting_down /\ r_state = "claimed"
    /\ rstate' = "unavail"
    /\ \/ r_pre' = [r_pre EXCEPT !.matchT = TRUE] /\ UNCHANGED r_pre_pre
       \/ /\ r_pre_pre # NoClaim /\ r_pre_pre' = [r_pre_pre EXCEPT !.matchT = TRUE]
          /\ UNCHANGED r_pre
    /\ SlotOnly /\ UNCHANGED <<r_destination, r_cur, m_bUserSuspended, control>>

(* REQUEST_CLAIM from a schedd while the slot is not claimed.  The request *)
(* may break off early, be refused by willingToRun() (which restores the   *)
(* Requirements first), or be accepted.                                    *)
AbortClaim ==
    CASE r_state = "owner" ->
           /\ r_cur' = [r_cur EXCEPT !.matchT = FALSE]
           /\ Return /\ UNCHANGED r_destination
      [] r_state = "backfill" /\ r_destination = "matched" ->
           /\ r_cur' = [r_cur EXCEPT !.matchT = FALSE]
           /\ SetDestination("owner", then)
      [] r_state = "backfill" /\ r_destination # "matched" ->
           r_cur' = NewClaim /\ Return /\ UNCHANGED r_destination
      [] OTHER ->
           /\ r_cur' = [r_cur EXCEPT !.matchT = FALSE]
           /\ Change("owner", "idle") /\ UNCHANGED r_destination

RequestRefused ==
    /\ Ready /\ ~is_shutting_down /\ r_state \notin {"claimed", "preempting"}
    /\ rstate' \in {rstate, Restored}
    /\ AbortClaim
    /\ SlotOnly /\ UNCHANGED <<r_pre, r_pre_pre, m_bUserSuspended>>

(* Slip: a request to a busy backfill slot is parked and forgotten. *)
RequestAcceptedForgotten ==
    /\ Ready /\ ~is_shutting_down /\ r_state \notin {"claimed", "preempting"}
    /\ rstate' = Restored /\ rstate' = "orig"
    /\ \E rank \in Ranks :
          r_cur' = [r_cur EXCEPT !.matchT = FALSE, !.stream = TRUE, !.rank = rank]
    /\ IF r_state = "backfill" THEN Return ELSE Call("accept")
    /\ SlotOnly /\ UNCHANGED <<r_destination, r_pre, r_pre_pre, m_bUserSuspended>>

RequestAccepted ==
    /\ Ready /\ ~is_shutting_down /\ r_state \notin {"claimed", "preempting"}
    /\ rstate' = Restored /\ rstate' = "orig"
    /\ \E rank \in Ranks :
          r_cur' = [r_cur EXCEPT !.matchT = FALSE, !.stream = TRUE, !.rank = rank]
    /\ IF r_state = "backfill" THEN SetDestination("claimed", then)
       ELSE Call("accept") /\ UNCHANGED r_destination
    /\ SlotOnly /\ UNCHANGED <<r_pre, r_pre_pre, m_bUserSuspended>>

(* REQUEST_CLAIM while claimed is for the claim advertised last: r_pre_pre *)
(* if a preempting request is already waiting, else r_pre.                 *)
PreemptRefused ==
    /\ Ready /\ ~is_shutting_down /\ r_state = "claimed"
    /\ rstate' \in {rstate, Restored}
    /\ IF r_pre_pre # NoClaim
       THEN r_pre_pre' = NewClaim /\ UNCHANGED r_pre
       ELSE r_pre' = NewClaim /\ UNCHANGED r_pre_pre
    /\ SlotOnly /\ UNCHANGED <<r_destination, r_cur, m_bUserSuspended, control>>

(* Slip: the rank is compared with the waiting request's only. *)
PreemptAcceptedAnyRank ==
    /\ Ready /\ ~is_shutting_down /\ r_state = "claimed"
    /\ rstate' = Restored /\ rstate' = "orig"
    /\ \E rank \in Ranks :
          /\ r_pre_pre # NoClaim => rank >= r_pre.rank
          /\ r_pre' = [NewClaim EXCEPT !.stream = TRUE, !.rank = rank]
    /\ r_pre_pre' = NewClaim /\ Call("eval")
    /\ SlotOnly /\ UNCHANGED <<r_destination, r_cur, m_bUserSuspended>>

(* A sufficient rank replaces the waiting request, which is refused. *)
PreemptAccepted ==
    /\ Ready /\ ~is_shutting_down /\ r_state = "claimed"
    /\ rstate' = Restored /\ rstate' = "orig"
    /\ \E rank \in Ranks :
          LET claim == IF r_pre_pre # NoClaim THEN r_pre_pre ELSE r_pre
          IN  /\ r_pre_pre # NoClaim => rank >= r_pre.rank
              /\ IF rank < r_cur.rank
                 THEN r_pre' = NewClaim /\ r_pre_pre' = NoClaim /\ UNCHANGED control
                 ELSE /\ r_pre' = [claim EXCEPT !.matchT = FALSE, !.stream = TRUE,
                                                !.rank = rank]
                      /\ r_pre_pre' = NewClaim /\ Call("eval")
    /\ SlotOnly /\ UNCHANGED <<r_destination, r_cur, m_bUserSuspended>>

(* requestClaimSockClosed(): the schedd gave up waiting. *)
RequestSockClosed ==
    /\ Ready
    /\ \/ r_cur.stream /\ r_cur' = NewClaim /\ UNCHANGED <<r_pre, r_pre_pre>>
       \/ /\ HasPreemptingClaim
          /\ r_pre' = NewClaim /\ r_pre_pre' = NoClaim /\ UNCHANGED r_cur
    /\ SlotOnly
    /\ UNCHANGED <<r_destination, m_bUserSuspended, rstate, control>>

(* match_timed_out() *)
MatchTimedOut ==
    /\ Ready /\ r_cur.matchT
    /\ CASE r_state = "backfill" ->
             /\ r_cur' = [r_cur EXCEPT !.matchT = FALSE]
             /\ SetDestination("owner", then)
         [] r_state = "matched" ->
             r_cur' = NewClaim /\ Change("owner", "idle") /\ UNCHANGED r_destination
         [] OTHER ->
             /\ r_cur' = [r_cur EXCEPT !.matchT = FALSE]
             /\ Return /\ UNCHANGED r_destination
    /\ SlotOnly /\ UNCHANGED <<r_pre, r_pre_pre, m_bUserSuspended, rstate>>

PreemptingMatchTimedOut ==
    /\ Ready
    /\ \/ /\ r_pre # NoClaim /\ r_pre.matchT
          /\ r_pre' = NewClaim /\ r_pre_pre' = NoClaim
       \/ /\ r_pre_pre # NoClaim /\ r_pre_pre.matchT
          /\ r_pre_pre' = NewClaim /\ UNCHANGED r_pre
    /\ rstate' = Restored
    /\ SlotOnly /\ UNCHANGED <<r_destination, r_cur, m_bUserSuspended, control>>

(* ACTIVATE_CLAIM from a shadow *)
ActivateClaim ==
    /\ Ready /\ ~is_shutting_down
    /\ r_state = "claimed" /\ r_act = "idle" /\ ~IsDeactivating(r_cur)
    /\ rstate' = Restored /\ rstate' = "orig"
    /\ IF r_cur.starter THEN Except /\ UNCHANGED r_cur
       ELSE \E rank \in Ranks :
              LET c == Alive([r_cur EXCEPT !.rank = rank])
              IN  \/ r_cur' = SpawnStarter(c) /\ Change("claimed", "busy")
                  \/ r_cur' = ResetClaim(c) /\ Return
    /\ SlotOnly /\ UNCHANGED <<r_destination, r_pre, r_pre_pre, m_bUserSuspended>>

(* The machine's or the job's requirements are not met. *)
ActivateRefused ==
    /\ Ready /\ ~is_shutting_down
    /\ r_state = "claimed" /\ r_act = "idle" /\ ~IsDeactivating(r_cur)
    /\ rstate' = Restored
    /\ SlotOnly
    /\ UNCHANGED <<r_destination, claims, m_bUserSuspended, control>>

(* DEACTIVATE_CLAIM(_FORCIBLY).  When the shadow was told that the claim   *)
(* is closing (and the reply got through) the claim is released as well.   *)
DeactivateClaim ==
    /\ Ready /\ r_state = "claimed"
    /\ \E hard \in BOOLEAN : \E ok \in Signal(r_cur) :
          LET killed == IF ~IsActive(r_cur) THEN r_cur
                        ELSE IF hard THEN StarterKillHard(r_cur, ok)
                        ELSE StarterKillSoft(r_cur, ok)
          IN  \/ r_cur' = killed /\ Return
              \/ ReleaseClaim([killed EXCEPT !.closed = TRUE])
    /\ SlotOnly
    /\ UNCHANGED <<r_destination, r_pre, r_pre_pre, m_bUserSuspended, rstate>>

(* RELEASE_CLAIM, for the current claim or for a preempting one *)
ReleaseCurrent ==
    /\ Ready /\ r_state \in {"claimed", "matched"}
    /\ ReleaseClaim([r_cur EXCEPT !.closed = TRUE])
    /\ SlotOnly
    /\ UNCHANGED <<r_destination, r_pre, r_pre_pre, m_bUserSuspended, rstate>>

ReleasePreempting ==
    /\ Ready /\ r_pre # NoClaim
    /\ \/ r_pre' = NewClaim /\ r_pre_pre' = NoClaim
       \/ r_pre_pre # NoClaim /\ r_pre_pre' = NewClaim /\ UNCHANGED r_pre
    /\ SlotOnly
    /\ UNCHANGED <<r_destination, r_cur, m_bUserSuspended, rstate, control>>

(* SUSPEND_CLAIM and CONTINUE_CLAIM (condor_suspend, condor_continue) *)
SuspendCommand ==
    /\ Ready /\ r_state = "claimed"
    /\ ChangeThen("claimed", "suspended", "userSuspended")
    /\ UNCHANGED <<resstate, claims, m_bUserSuspended, rstate, boinc, machine>>

ContinueCommand ==
    /\ Ready /\ r_act = "suspended" /\ m_bUserSuspended
    /\ \E ok \in Signal(r_cur) :
          /\ r_cur' = ResumeClaim(r_cur, ok)
          /\ IF ok THEN ChangeThen(r_state, "busy", "userContinued") ELSE Return
    /\ SlotOnly
    /\ UNCHANGED <<r_destination, r_pre, r_pre_pre, m_bUserSuspended, rstate>>

(* VACATE_CLAIM, VACATE_ALL_CLAIMS and their fast variants *)
Vacate ==
    /\ Ready
    /\ \E ok \in Signal(r_cur) :
          RetireClaim(FALSE, ok, then) \/ KillClaim(r_cur, ok, then)
    /\ SlotOnly /\ UNCHANGED <<r_pre, r_pre_pre, m_bUserSuspended, rstate>>

(* The lease: ALIVE from the schedd, the startd's own alives, expiry.      *)
GotAlive ==
    /\ Ready /\ r_state = "claimed" /\ r_cur.client
    /\ r_cur' = Alive(r_cur)
    /\ SlotOnly
    /\ UNCHANGED <<r_destination, r_pre, r_pre_pre, m_bUserSuspended, rstate, control>>

SendAlive ==
    /\ Ready /\ r_cur.sendT /\ r_cur.client /\ ~r_cur.aliveSock
    /\ r_cur' = [r_cur EXCEPT !.aliveSock = TRUE]
    /\ SlotOnly
    /\ UNCHANGED <<r_destination, r_pre, r_pre_pre, m_bUserSuspended, rstate, control>>

(* finishKillClaim(): the schedd is gone or disowns the claim. *)
FinishKillClaim(c) ==
    \E ok \in Signal(r_cur) : KillClaim([c EXCEPT !.client = FALSE], ok, then)

AliveResponse ==
    /\ Ready /\ r_cur.aliveSock
    /\ LET done == [r_cur EXCEPT !.aliveSock = FALSE]
       IN  \/ r_cur' = done /\ Return /\ UNCHANGED r_destination
           \/ r_cur' = Alive(done) /\ Return /\ UNCHANGED r_destination
           \/ FinishKillClaim(done)
    /\ SlotOnly /\ UNCHANGED <<r_pre, r_pre_pre, m_bUserSuspended, rstate>>

LeaseExpired ==
    /\ Ready /\ r_cur.leaseT
    /\ FinishKillClaim([r_cur EXCEPT !.leaseT = FALSE])
    /\ SlotOnly /\ UNCHANGED <<r_pre, r_pre_pre, m_bUserSuspended, rstate>>

(* The starter: its exit, its timers, the answer to the hold message       *)
StarterExits ==
    /\ Ready /\ r_cur.starter
    /\ r_cur' = StarterExitedClaim(r_cur)
    /\ StarterExitedResState("starterExited")
    /\ SlotOnly /\ UNCHANGED <<r_pre, r_pre_pre, m_bUserSuspended, rstate>>

(* Slip: the softkill timeout does not escalate. *)
SoftkillTimeoutOnly ==
    /\ Ready /\ r_cur.softT
    /\ r_cur' = [r_cur EXCEPT !.softT = FALSE]
    /\ SlotOnly
    /\ UNCHANGED <<r_destination, r_pre, r_pre_pre, m_bUserSuspended, rstate, control>>

SoftkillTimeout ==
    /\ Ready /\ r_cur.softT
    /\ \E ok \in BOOLEAN : r_cur' = KillHard([r_cur EXCEPT !.softT = FALSE], ok)
    /\ SlotOnly
    /\ UNCHANGED <<r_destination, r_pre, r_pre_pre, m_bUserSuspended, rstate, control>>

SigkillStarter ==
    /\ Ready /\ r_cur.killT
    /\ r_cur' = [r_cur EXCEPT !.doomed = TRUE]
    /\ SlotOnly
    /\ UNCHANGED <<r_destination, r_pre, r_pre_pre, m_bUserSuspended, rstate, control>>

HoldJobCallback ==
    /\ Ready /\ r_cur.holdCb
    /\ LET done == [r_cur EXCEPT !.holdCb = FALSE]
       IN  r_cur' = done \/ \E ok \in BOOLEAN : r_cur' = KillSoft(done, ok)
    /\ SlotOnly
    /\ UNCHANGED <<r_destination, r_pre, r_pre_pre, m_bUserSuspended, rstate, control>>

(* rmSlot(): the BOINC client is gone. *)
BackfillExited ==
    /\ Ready /\ boinc
    /\ boinc' = FALSE /\ UNCHANGED claims
    /\ StarterExitedResState("ready")
    /\ UNCHANGED <<r_state, r_act, r_act_was_benchmark, m_bUserSuspended, rstate,
                   machine>>

(* DRAIN_JOBS, graceful (retire reversibly), quick (retire) or fast (kill) *)
StartDraining ==
    /\ Ready /\ ~draining
    /\ draining' = TRUE /\ resume_on_completion' \in BOOLEAN
    /\ \E ok \in Signal(r_cur) :
          \/ draining_is_graceful' = TRUE /\ RetireClaim(TRUE, ok, "unavail")
          \/ draining_is_graceful' = FALSE /\ RetireClaim(FALSE, ok, "unavail")
          \/ draining_is_graceful' = FALSE /\ KillClaim(r_cur, ok, "unavail")
    /\ UNCHANGED <<r_state, r_act, r_act_was_benchmark, r_pre, r_pre_pre,
                   m_bUserSuspended, rstate, boinc, is_shutting_down>>

CancelDraining ==
    /\ Ready /\ draining /\ ResumeNormalOperation
    /\ UNCHANGED <<resstate, claims, m_bUserSuspended, boinc, is_shutting_down,
                   control>>

(* main_shutdown_graceful() and main_shutdown_fast() *)
Shutdown ==
    /\ Ready /\ HasAnyClaim
    /\ is_shutting_down' = TRUE
    /\ \E ok \in Signal(r_cur) :
          \/ ~is_shutting_down /\ RetireClaim(FALSE, ok, "unavail")
          \/ KillClaim(r_cur, ok, "unavail")
    /\ UNCHANGED <<r_state, r_act, r_act_was_benchmark, r_pre, r_pre_pre,
                   m_bUserSuspended, rstate, boinc, draining, draining_is_graceful,
                   resume_on_completion>>

(* startd_check_free(): at once when a free startd is told to shut down,   *)
(* and from a timer afterwards.                                            *)
CheckFree ==
    /\ Ready /\ ~HasAnyClaim
    /\ Call("exited")
    /\ UNCHANGED <<resstate, claims, m_bUserSuspended, rstate, boinc, machine>>

------------------------------------------------------------------------------
Handler ==
    \/ ChangeNothing \/ ChangeAborted \/ ChangeMade
    \/ EnterOwner \/ EnterUnclaimed \/ EnterMatchedOrDrained \/ EnterBackfill
    \/ BeginClaimed \/ EnterClaimed \/ EnterPreempting
    \/ LeavePreempting \/ AcceptClaim
    \/ EvalClaimed \/ EvalPreempting \/ EvalOwner \/ EvalMatched
    \/ EvalUnclaimed \/ EvalBackfill \/ EvalDrained
    \/ SetUnavail \/ SetUserSuspended \/ SetDestOwner \/ StarterGone

Event ==
    \/ Poll \/ BenchmarksFinished
    \/ MatchCurrent \/ MatchPreempting
    \/ RequestRefused \/ RequestAccepted \/ PreemptRefused \/ PreemptAccepted
    \/ RequestSockClosed \/ MatchTimedOut \/ PreemptingMatchTimedOut
    \/ ActivateClaim \/ ActivateRefused \/ DeactivateClaim
    \/ ReleaseCurrent \/ ReleasePreempting
    \/ SuspendCommand \/ ContinueCommand \/ Vacate
    \/ GotAlive \/ SendAlive \/ AliveResponse \/ LeaseExpired
    \/ StarterExits \/ SoftkillTimeout \/ SigkillStarter \/ HoldJobCallback
    \/ BackfillExited \/ StartDraining \/ CancelDraining
    \/ Shutdown \/ CheckFree

Next == Handler \/ Event

Spec == Init /\ [][Next]_vars

------------------------------------------------------------------------------
(* Safety.  Most properties are about the moments between two handlers:    *)
(* that is when other daemons, and the next event, meet the slot.          *)

(* No sequence of legal commands, timers, signal failures and policy       *)
(* results makes the startd reach an EXCEPT() or a failed ASSERT():        *)
(* set_destination, beginClaim, startLeaseTimer, setStarter,               *)
(* accept_request_claim, starterExited and leave_preempting_state each     *)
(* have one.                                                               *)
NoExcept == fn # "except"

(* Between handlers there is a current claim; a preempting claim object    *)
(* exists exactly in Claimed and Preempting, as enter_action and           *)
(* leave_preempting_state intend ("all exit paths should call              *)
(* remove_pre()"); a preempting-preempting one exactly while a schedd      *)
(* waits for the preemption.                                               *)
ClaimsMatchState ==
    Ready =>
        /\ r_cur # NoClaim
        /\ r_pre # NoClaim <=> r_state \in {"claimed", "preempting"}
        /\ r_pre_pre # NoClaim <=> HasPreemptingClaim

(* The lease covers every claim: a claimed slot always has the ClaimLease  *)
(* timer running, so a schedd that dies silently cannot hold it for ever   *)
(* (startLeaseTimer, cancelLeaseTimer in leave_action, leaseExpired).      *)
LeaseWhileClaimed == Ready /\ r_state = "claimed" => r_cur.leaseT

(* A slot waits in Preempting only for a live starter that is certain to   *)
(* be killed: a softkill or kill timer is registered, or SIGKILL has been  *)
(* sent (killSoft, killHard, holdJob and their failure paths).             *)
PreemptingWillEnd ==
    Ready /\ r_state = "preempting" =>
        /\ r_cur.starter
        /\ r_cur.softT \/ r_cur.killT \/ r_cur.doomed

(* A starter exists only in an activated claim: in Preempting, or in       *)
(* Claimed with a working activity (activate_claim, starterExited).        *)
StarterOnlyInUse ==
    Ready /\ r_cur.starter =>
        \/ r_state = "preempting"
        \/ r_state = "claimed" /\ r_act \in {"busy", "suspended", "retiring"}

(* A schedd whose request is parked on the current claim is waiting for a  *)
(* backfill client that is being killed, nothing else; so it will be       *)
(* answered when the client exits (request_claim, set_destination).        *)
PendingRequestProgresses ==
    Ready /\ r_cur.stream =>
        /\ r_state = "backfill" /\ r_act = "killing" /\ boinc
        /\ r_destination \in {"claimed", "owner"}

(* A destination survives a handler only while a backfill client is being  *)
(* killed (set_destination and its callers).                               *)
DestinationOnlyWhileKilling ==
    Ready /\ r_destination # "none" =>
        r_state = "backfill" /\ r_act = "killing" /\ boinc

(* The backfill client and a claimed job never share the slot: the client  *)
(* exists only in the Backfill state, in every intermediate state too.     *)
BackfillExcludesJob == boinc => r_state = "backfill" /\ ~r_cur.starter

(* A slot that must retire is never left Busy between handlers: once       *)
(* PREEMPT, condor_vacate, draining or shutdown has retired a job, or a    *)
(* preempting claim waits, the job does not run as if nothing happened     *)
(* (eval, enter_action, mayUnretire).                                      *)
BusyNotRetired == Ready /\ r_state = "claimed" /\ r_act = "busy" => ~InRetirement

(* The waiting preempting request never has a lower rank than the claim it *)
(* preempts, whatever was replaced in between (request_claim).             *)
PreemptingRankSuffices == Ready /\ HasPreemptingClaim => r_pre.rank >= r_cur.rank

(* A step that drops a Starter object reaps its process, or SIGKILL was    *)
(* sent to the whole family before.                                        *)
StarterDropped ==
    r_cur # NoClaim /\ r_cur.starter /\ (r_cur' = NoClaim \/ ~r_cur'.starter)
    => r_cur.doomed \/ fn' = "starterExited"

(* No change of claim leaves a job running unwatched: a Starter object is  *)
(* never deleted with its process alive and not even killed (enter_action, *)
(* leave_preempting_state, removeClaim, resetClaim).                       *)
StarterNeverAbandoned == [][StarterDropped]_vars

(* What a job's suspension by the SUSPEND expression may rely on: the      *)
(* CONTINUE expression is consulted for it (eval_continue).                *)
SuspendedByPolicyCanContinue ==
    [][ fn = "eval" /\ fn' = "change" /\ to_act' = "suspended"
        => ~m_bUserSuspended ]_vars

(* The match timer runs only while a match is pending (match_timed_out).   *)
MatchTimerOnlyMatched ==
    Ready /\ r_cur.matchT => r_state \in {"matched", "backfill"}

(* Claimed/Busy means that a starter was started (activate_claim). *)
BusyHasStarter == Ready /\ r_state = "claimed" /\ r_act = "busy" => r_cur.starter

(* A claim that was begun, and that its schedd did not close itself, ends  *)
(* only in leave_preempting_state(), which sends the schedd vacate(): that *)
(* its claim is broken.                                                    *)
ClaimEndNotified ==
    [][ /\ r_cur # NoClaim /\ r_cur.cstate # "UNCLAIMED" /\ ~r_cur.closed
        /\ r_cur' = NoClaim \/ r_cur'.cstate = "UNCLAIMED"
        => fn = "leave_preempting" ]_vars

(* Shutting down, the startd begins no claim (markShutdown). *)
ShutdownBeginsNoClaim ==
    [][ is_shutting_down /\ r_cur # NoClaim /\ r_cur.cstate = "UNCLAIMED"
        => r_cur' = NoClaim \/ r_cur'.cstate = "UNCLAIMED" ]_vars

------------------------------------------------------------------------------
(* Liveness.  DaemonCore runs a handler to its end and serves expired      *)
(* timers between any two other events, so a timer that stays registered   *)
(* fires however many commands arrive: strong fairness.  A process that    *)
(* was sent SIGKILL is reaped.  Nothing is assumed of jobs: the run time   *)
(* that retirement is measured by stops while a job is suspended, and a    *)
(* peaceful retirement has no end.                                         *)
Fairness ==
    /\ WF_vars(Handler)
    /\ SF_vars(SoftkillTimeout) /\ SF_vars(SigkillStarter)
    /\ SF_vars(StarterExits /\ r_cur.doomed)
    /\ SF_vars(Poll)

FairSpec == Spec /\ Fairness

(* Every preemption ends: the slot does not stay in Preempting, whether    *)
(* the starter obeys, ignores its signals, loses the hold message or       *)
(* cannot be signalled (killSoft, killHard, leave_preempting_state).       *)
PreemptingEnds == r_state = "preempting" ~> r_state # "preempting"

(* The current claim is active and between handlers the slot is retiring   *)
(* or suspended: its retirement time may never run out, as it is measured  *)
(* by the time the job runs.                                               *)
HoldsOut ==
    /\ r_state = "claimed" /\ IsActive(r_cur)
    /\ Ready => r_act \in {"retiring", "suspended"}

(* A schedd waiting to preempt a claim is answered, accepted or its stream *)
(* closed, or one thing keeps it waiting: from some time on the same claim *)
(* holds out.  It is not kept waiting by a job that runs on as Busy, a     *)
(* claim whose jobs are replaced or gone, draining that begins and ends,   *)
(* or a handler that does not return (eval, mayUnretire, retire_claim,     *)
(* retirementExpired, leave_preempting_state).                             *)
PreemptingRequestAnswered ==
    (<>[]HoldsOut /\ []<>Ready) \/ (HasPreemptingClaim ~> ~HasPreemptingClaim)
==============================================================================
