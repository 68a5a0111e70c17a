----------------------------- MODULE StartdClaim -----------------------------
(***************************************************************************)
(* The Claim and Starter objects of one startd slot                        *)
(* (condor_startd.V6/claim.cpp, Starter.cpp), as records and the pure      *)
(* operators that the slot's handlers apply to them.                       *)
(*                                                                         *)
(* A claim keeps the fields that the slot's control reads: the ClaimState, *)
(* the pending request stream, its timers, the two preemption flags, and   *)
(* the Starter object with its own two timers.  Times, ads, names and the  *)
(* claim id's text are abstracted away: a command "for the current claim"  *)
(* is one whose id equals r_cur's id when it arrives.  A timer is a        *)
(* BOOLEAN, "registered"; it may fire at any moment while registered.      *)
(***************************************************************************)
EXTENDS Integers

CONSTANTS
    Ranks,              \* values RANK can take for a claiming job
    StartdSendsAlives,  \* STARTD_SENDS_ALIVES: the startd runs sendAlive()
    NoClaim             \* a NULL Claim pointer

ClaimStates ==
    {"UNCLAIMED", "IDLE", "RUNNING", "SUSPENDED", "VACATING", "KILLING"}

Claim ==
    [cstate      : ClaimStates,
     stream      : BOOLEAN,  \* c_request_stream: a schedd awaits the reply
     matchT      : BOOLEAN,  \* c_match_tid
     leaseT      : BOOLEAN,  \* c_lease_tid
     sendT       : BOOLEAN,  \* c_sendalive_tid
     aliveSock   : BOOLEAN,  \* c_alive_inprogress_sock
     client      : BOOLEAN,  \* c_client, deleted by finishKillClaim
     closed      : BOOLEAN,  \* c_schedd_closed_claim
     mayUnretire : BOOLEAN,  \* c_may_unretire
     preemptTrue : BOOLEAN,  \* c_preempt_was_true
     rank        : Ranks,    \* c_rank
     starter     : BOOLEAN,  \* c_starter, its process not yet reaped
     softT       : BOOLEAN,  \* Starter::s_softkill_tid
     killT       : BOOLEAN,  \* Starter::s_kill_tid
     holdCb      : BOOLEAN,  \* Starter::m_hold_job_cb
     doomed      : BOOLEAN]  \* SIGKILL was sent to the starter's family

ASSUME RanksAssumption == Ranks # {} /\ Ranks \subseteq Int
ASSUME SendsAlivesAssumption == StartdSendsAlives \in BOOLEAN
ASSUME NoClaimAssumption == NoClaim \notin Claim

(* A freshly constructed Claim: no request, no starter, no timers. *)
NewClaim ==
    [cstate |-> "UNCLAIMED", stream |-> FALSE, matchT |-> FALSE,
     leaseT |-> FALSE, sendT |-> FALSE, aliveSock |-> FALSE,
     client |-> TRUE, closed |-> FALSE, mayUnretire |-> TRUE,
     preemptTrue |-> FALSE, rank |-> CHOOSE r \in Ranks : TRUE,
     starter |-> FALSE, softT |-> FALSE, killT |-> FALSE,
     holdCb |-> FALSE, doomed |-> FALSE]

IsActive(c) == c.cstate \in {"RUNNING", "SUSPENDED", "VACATING", "KILLING"}

IsDeactivating(c) == c.cstate \in {"VACATING", "KILLING"}

------------------------------------------------------------------------------
(* Leases *)

(* startLeaseTimer() also starts the timer that sends alives. *)
StartLeaseTimer(c) ==
    [c EXCEPT !.leaseT = TRUE, !.sendT = StartdSendsAlives \/ @]

CancelLeaseTimer(c) == [c EXCEPT !.leaseT = FALSE, !.sendT = FALSE]

(* alive(): start the lease timer or push it forward. *)
Alive(c) == IF c.leaseT THEN c ELSE StartLeaseTimer(c)

BeginClaim(c) == StartLeaseTimer([c EXCEPT !.cstate = "IDLE"])

------------------------------------------------------------------------------
(* The starter: signals to it, and the timers that escalate them.          *)
(* The flag ok says whether the signal could be delivered.                 *)

(* resetClaim(): drop the Starter object, whose destructor cancels its     *)
(* timers, and the flags of the activation that ended.                     *)
ResetClaim(c) ==
    [c EXCEPT !.starter = FALSE, !.softT = FALSE, !.killT = FALSE,
              !.holdCb = FALSE, !.doomed = FALSE,
              !.mayUnretire = TRUE, !.preemptTrue = FALSE]

StarterExitedClaim(c) == ResetClaim([c EXCEPT !.cstate = "IDLE"])

(* setStarter() and spawn(): an activation begins. *)
SpawnStarter(c) == [c EXCEPT !.starter = TRUE, !.cstate = "RUNNING"]

(* Starter::killSoft: SIGTERM and the softkill timeout, or SIGKILL to the  *)
(* whole family when SIGTERM cannot be sent.                               *)
KillSoft(c, ok) ==
    IF ok THEN [c EXCEPT !.softT = TRUE] ELSE [c EXCEPT !.doomed = TRUE]

(* Slip: a failed SIGQUIT is not followed by SIGKILL. *)
KillHardGivesUp(c, ok) == [c EXCEPT !.killT = @ \/ ok]

(* Starter::killHard: SIGQUIT and the periodic kill timer, or SIGKILL. *)
KillHard(c, ok) ==
    IF ok THEN [c EXCEPT !.killT = TRUE] ELSE [c EXCEPT !.doomed = TRUE]

StarterKillPg(c) ==
    IF c.starter THEN [c EXCEPT !.cstate = "KILLING", !.doomed = TRUE] ELSE c

StarterKillSoft(c, ok) ==
    IF c.starter THEN KillSoft([c EXCEPT !.cstate = "VACATING"], ok) ELSE c

StarterKillHard(c, ok) ==
    IF c.starter THEN KillHard([c EXCEPT !.cstate = "KILLING"], ok) ELSE c

(* Starter::suspend and resume send SIGKILL when their signal fails. *)
SuspendClaim(c, ok) ==
    [c EXCEPT !.cstate = "SUSPENDED", !.doomed = @ \/ (c.starter /\ ~ok)]

ResumeClaim(c, ok) ==
    [c EXCEPT !.cstate = IF c.starter THEN "RUNNING" ELSE "IDLE",
              !.doomed = @ \/ (c.starter /\ ~ok)]

(* The outcomes a signal may have: without a starter there is none to     *)
(* send and the claim methods return true.                                 *)
Signal(c) == IF c.starter THEN BOOLEAN ELSE {TRUE}

(* Slip: no timer guards against a hold message that is never answered. *)
StarterHoldJobUnguarded(c, soft, canHold, ok) ==
    IF c.starter /\ canHold THEN [c EXCEPT !.holdCb = TRUE]
    ELSE IF soft THEN StarterKillSoft(c, ok) ELSE StarterKillHard(c, ok)

(* starterHoldJob(): ask the starter to put the job on hold.  The message  *)
(* is answered later (holdCb).  While one is in progress a second request  *)
(* does nothing; a starter that cannot hold jobs is killed instead.        *)
StarterHoldJob(c, soft, canHold, ok) ==
    IF c.starter /\ canHold
    THEN IF c.holdCb THEN c
         ELSE [c EXCEPT !.holdCb = TRUE, !.softT = @ \/ soft,
                        !.killT = @ \/ ~soft]
    ELSE IF soft THEN StarterKillSoft(c, ok) ELSE StarterKillHard(c, ok)
==============================================================================
