-------------------------- MODULE StartdSlot_proofs --------------------------
(***************************************************************************)
(* The theorems about StartdSlot, for every set of ranks and every setting *)
(* of STARTD_SENDS_ALIVES and of the backfill manager.  The argument: IInv *)
(* holds initially, every step preserves it (StartdSlotHandlers_proofs,    *)
(* StartdSlotEvents_proofs), and it implies the safety properties.  The    *)
(* ranks need a second invariant, RankInv, inductive relative to IInv.     *)
(***************************************************************************)
EXTENDS StartdSlotEvents_proofs

(* The invariant, expanded everywhere below. *)
USE DEF IInv, TypeOK

(* IInv is inductive. *)
LEMMA NextInv == ASSUME IInv, [Next]_vars PROVE IInv'
<1>1. CASE Handler
  BY ZenonT(60), <1>1, ChangeNothingInv, ChangeAbortedInv, ChangeMadeInv, EnterOwnerInv,
     EnterFreeInv, EnterBackfillInv, BeginClaimedInv, EnterClaimedInv,
     EnterPreemptingInv, LeavePreemptingInv, AcceptClaimInv, EvalClaimedInv,
     EvalPreemptingInv, EvalFreeInv, EvalBackfillInv, SetFlagInv, SetDestOwnerInv,
     StarterGoneInv
  DEF Handler
<1>2. CASE Event
  BY ZenonT(60), <1>2, PollInv, PreemptingClaimsInv, MatchCurrentInv, RequestRefusedInv,
     RequestAcceptedInv, PreemptAcceptedInv, RequestSockClosedInv, MatchTimedOutInv,
     ActivateClaimInv, QuietInv, DeactivateClaimInv, ReleaseCurrentInv, SuspendInv,
     ContinueInv, VacateInv, CurrentClaimInv, LeaseInv, StarterExitsInv,
     BackfillExitedInv, DrainOrShutdownInv
  DEF Event
<1>3. CASE UNCHANGED vars
  <2> USE DEF resstate, claims, machine, control
  <2>1. StateType' /\ ClaimsType' /\ FlagsType'
    BY <1>3 DEF vars, StateType, ClaimsType, FlagsType
  <2>2. ControlType' /\ ControlInv'
    BY <1>3, Zenon DEF vars, ControlType, ControlInv
  <2>3. FreeInv' /\ BackfillInv'
    BY <1>3, Zenon DEF vars, FreeInv, BackfillInv, FreeSlot, NoPre, HasPre, Discarded
  <2>4. ClaimedInv' /\ PreemptingInv'
    BY <1>3 DEF vars, ClaimedInv, PreemptingInv, FreeSlot, HeldSlot, NoPre, HasPre,
       Discarded, InRetirement, MayUnretire, HasPreemptingClaim
  <2> QED BY <2>1, <2>2, <2>3, <2>4, Zenon
<1> QED BY <1>1, <1>2, <1>3, Zenon DEF Next

(* IInv holds at every step of every handler. *)
THEOREM SlotInvariant == Spec => []IInv
<1>1. Init => IInv
  BY InitInv, Zenon
<1>2. IInv /\ [Next]_vars => IInv'
  BY NextInv, Zenon
<1> QED BY <1>1, <1>2, PTL DEF Spec

(* Every variable of the slot keeps its type, in mid-handler too. *)
THEOREM TypeCorrect == Spec => []TypeOK
<1>1. IInv => TypeOK
  BY Zenon
<1> QED BY <1>1, SlotInvariant, PTL

(* No EXCEPT() or failed ASSERT() of the slot's code is ever reached. *)
THEOREM NeverExcepts == Spec => []NoExcept
<1>1. IInv => NoExcept
  BY Zenon DEF ControlInv, NoExcept
<1> QED BY <1>1, SlotInvariant, PTL

(* Between handlers the claim objects are the ones the state calls for. *)
THEOREM ClaimsAlwaysMatch == Spec => []ClaimsMatchState
<1>1. ASSUME IInv PROVE ClaimsMatchState
  <2>1. SUFFICES ASSUME Ready
                 PROVE  /\ r_cur # NoClaim
                        /\ r_pre # NoClaim <=> r_state \in {"claimed", "preempting"}
                        /\ r_pre_pre # NoClaim <=> HasPreemptingClaim
    BY Zenon DEF ClaimsMatchState
  <2>2. CASE r_state \in {"claimed", "preempting"}
    BY <1>1, <2>1, <2>2, AtRest, FreshFacts, BegunFacts, Zenon
    DEF HeldSlot, HasPre, HasPreemptingClaim
  <2>3. CASE r_state \notin {"claimed", "preempting"}
    BY <1>1, <2>1, <2>3, AtRest, FreshFacts, Zenon
    DEF FreeSlot, NoPre, HasPreemptingClaim, StateType, States, FreeStates
  <2> QED BY <2>2, <2>3, Zenon
<1> QED BY <1>1, SlotInvariant, PTL

(* A claimed slot always has its lease timer registered. *)
THEOREM AlwaysLeased == Spec => []LeaseWhileClaimed
<1>1. IInv => LeaseWhileClaimed
  BY AtRest, Zenon DEF LeaseWhileClaimed
<1> QED BY <1>1, SlotInvariant, PTL

(* A slot at rest in Preempting has a starter that is certain to die. *)
THEOREM PreemptingIsBounded == Spec => []PreemptingWillEnd
<1>1. IInv => PreemptingWillEnd
  BY AtRest, Zenon DEF PreemptingWillEnd, WillDie
<1> QED BY <1>1, SlotInvariant, PTL

(* Starters exist only in activated or preempting claims. *)
THEOREM StartersInUse == Spec => []StarterOnlyInUse
<1>1. ASSUME IInv PROVE StarterOnlyInUse
  <2>1. SUFFICES ASSUME Ready, r_cur.starter, r_state # "preempting"
                 PROVE  r_state = "claimed" /\ r_act \in {"busy", "suspended", "retiring"}
    BY Zenon DEF StarterOnlyInUse
  <2>2. r_state = "claimed"
    BY <1>1, <2>1, AtRest, FreshFacts, Zenon DEF FreeSlot, StateType, States, FreeStates
  <2> QED BY <1>1, <2>1, <2>2, AtRest DEF ClaimedInv, ClaimedActs
<1> QED BY <1>1, SlotInvariant, PTL

(* A parked request waits for a dying backfill client and nothing else,    *)
(* and a destination outlives a handler for the same reason only.          *)
THEOREM ParkedRequests == Spec => [](PendingRequestProgresses /\ DestinationOnlyWhileKilling)
<1>1. ASSUME IInv PROVE PendingRequestProgresses /\ DestinationOnlyWhileKilling
  <2>1. CASE ~Ready
    BY <2>1, Zenon DEF PendingRequestProgresses, DestinationOnlyWhileKilling
  <2>2. CASE Ready /\ r_state = "backfill"
    BY <1>1, <2>2, Zenon DEF Ready, BackfillInv, PendingRequestProgresses, DestinationOnlyWhileKilling
  <2>3. CASE Ready /\ r_state # "backfill"
    <3>1. ~r_cur.stream /\ r_destination = "none"
      BY <1>1, <2>3, AtRest, BegunFacts
      DEF ControlInv, HeldSlot, StateType, States, FreeStates
    <3> QED BY <3>1, Zenon DEF PendingRequestProgresses, DestinationOnlyWhileKilling
  <2> QED BY <2>1, <2>2, <2>3, Zenon
<1> QED BY <1>1, SlotInvariant, PTL

(* A backfill client and a job's starter never exist together. *)
THEOREM BackfillExclusive == Spec => []BackfillExcludesJob
<1>1. ASSUME IInv PROVE BackfillExcludesJob
  BY <1>1, FreshFacts DEF ControlInv, BackfillInv, FreeSlot, BackfillExcludesJob
<1> QED BY <1>1, SlotInvariant, PTL

(* Between handlers no slot is Busy that has a reason to retire. *)
THEOREM RetirementTakesEffect == Spec => []BusyNotRetired
<1>1. IInv => BusyNotRetired
  BY AtRest, Zenon DEF BusyNotRetired
<1> QED BY <1>1, SlotInvariant, PTL

(* No Starter object is deleted while its process may still run unkilled. *)
THEOREM StartersReaped == Spec => StarterNeverAbandoned
<1>1. ASSUME IInv, [Next]_vars PROVE [StarterDropped]_vars
  <2>1. CASE Handler
    BY <1>1, <2>1, HandlerStarter, Zenon
  <2>2. CASE Event
    BY ZenonT(60), <1>1, <2>2, PollInv, PreemptingClaimsInv, MatchCurrentInv, RequestRefusedInv,
       RequestAcceptedInv, PreemptAcceptedInv, RequestSockClosedInv, MatchTimedOutInv,
       ActivateClaimInv, QuietInv, DeactivateClaimInv, ReleaseCurrentInv, SuspendInv,
       ContinueInv, VacateInv, CurrentClaimInv, LeaseInv, StarterExitsInv,
       BackfillExitedInv, DrainOrShutdownInv
    DEF Event
  <2> QED BY <1>1, <2>1, <2>2, Zenon DEF Next
<1> QED BY <1>1, SlotInvariant, PTL DEF Spec, StarterNeverAbandoned

------------------------------------------------------------------------------
(* Ranks                                                                   *)

(* d is the claim c, if there is one, with the same rank. *)
SameRank(c, d) == d # NoClaim => c # NoClaim /\ d.rank = c.rank

(* Signals, timers and flags leave c_rank alone. *)
LEMMA RankUntouched ==
  ASSUME NEW c \in Claim, NEW ok \in BOOLEAN
  PROVE  /\ ResumeClaim(c, ok) \in Claim /\ ResumeClaim(c, ok).rank = c.rank
         /\ SuspendClaim(c, ok) \in Claim /\ SuspendClaim(c, ok).rank = c.rank
         /\ StarterKillPg(c) \in Claim /\ StarterKillPg(c).rank = c.rank
         /\ StarterKillSoft(c, ok) \in Claim /\ StarterKillSoft(c, ok).rank = c.rank
         /\ StarterKillHard(c, ok) \in Claim /\ StarterKillHard(c, ok).rank = c.rank
         /\ CancelLeaseTimer(c) \in Claim /\ CancelLeaseTimer(c).rank = c.rank
         /\ Alive(c) \in Claim /\ Alive(c).rank = c.rank
         /\ BeginClaim(c) \in Claim /\ BeginClaim(c).rank = c.rank
         /\ StarterExitedClaim(c) \in Claim /\ StarterExitedClaim(c).rank = c.rank
<1>1. /\ ResumeClaim(c, ok) \in Claim /\ ResumeClaim(c, ok).rank = c.rank
      /\ SuspendClaim(c, ok) \in Claim /\ SuspendClaim(c, ok).rank = c.rank
  BY ZenonT(60) DEF ResumeClaim, SuspendClaim, Claim, ClaimStates
<1>2. /\ CancelLeaseTimer(c) \in Claim /\ CancelLeaseTimer(c).rank = c.rank
      /\ StarterExitedClaim(c) \in Claim /\ StarterExitedClaim(c).rank = c.rank
  BY ZenonT(60) DEF CancelLeaseTimer, StarterExitedClaim, ResetClaim, Claim, ClaimStates
<1>3. /\ Alive(c) \in Claim /\ Alive(c).rank = c.rank
      /\ BeginClaim(c) \in Claim /\ BeginClaim(c).rank = c.rank
  <2>1. ASSUME NEW d \in Claim
        PROVE  StartLeaseTimer(d) \in Claim /\ StartLeaseTimer(d).rank = d.rank
    BY SendsAlivesAssumption, ZenonT(60) DEF StartLeaseTimer, Claim
  <2>2. LET d == [c EXCEPT !.cstate = "IDLE"] IN d \in Claim /\ d.rank = c.rank
    BY Zenon DEF Claim, ClaimStates
  <2> QED BY <2>1, <2>2, ZenonT(60) DEF Alive, BeginClaim
<1>4. CASE ~c.starter
  BY <1>1, <1>2, <1>3, <1>4, Zenon DEF StarterKillPg, StarterKillSoft, StarterKillHard
<1>5. CASE c.starter
  <2>1. StarterKillPg(c) \in Claim /\ StarterKillPg(c).rank = c.rank
    BY <1>5, ZenonT(60) DEF StarterKillPg, Claim, ClaimStates
  <2>2. /\ StarterKillSoft(c, ok) \in Claim /\ StarterKillSoft(c, ok).rank = c.rank
        /\ StarterKillHard(c, ok) \in Claim /\ StarterKillHard(c, ok).rank = c.rank
    <3>1. CASE ok
      BY <1>5, <3>1, ZenonT(60)
      DEF StarterKillSoft, KillSoft, StarterKillHard, KillHard, Claim, ClaimStates
    <3>2. CASE ~ok
      BY <1>5, <3>2, ZenonT(60)
      DEF StarterKillSoft, KillSoft, StarterKillHard, KillHard, Claim, ClaimStates
    <3> QED BY <3>1, <3>2, Zenon
  <2> QED BY <1>1, <1>2, <1>3, <2>1, <2>2, Zenon
<1> QED BY <1>4, <1>5, Zenon

(* A step that keeps both claims, or leaves no claim waiting, preserves    *)
(* RankInv, unless it strands the slot in Claimed/Idle.                    *)
LEMMA RankStep ==
  ASSUME RankInv, UNCHANGED r_pre, SameRank(r_cur, r_cur'),
         HasPreemptingClaim /\ r_state' = "claimed" /\ r_act' = "idle" =>
            \/ fn' \in {"enter", "eval"}
            \/ fn' = "change" /\ to_state' = "preempting"
  PROVE  RankInv'
  BY Zenon DEF RankInv, SameRank, HasPreemptingClaim

(* A step after which no claim waits preserves RankInv. *)
LEMMA NobodyWaits == ASSUME ~HasPreemptingClaim' PROVE RankInv'
  BY Zenon DEF RankInv, HasPreemptingClaim

(* Between handlers no claim waits for one that could be activated, so an  *)
(* event that keeps the state and the claims' ranks preserves RankInv.     *)
LEMMA RankEvent ==
  ASSUME RankInv, Ready, UNCHANGED <<r_state, r_act, r_pre>>, SameRank(r_cur, r_cur')
  PROVE  RankInv'
  BY Zenon DEF RankInv, SameRank, HasPreemptingClaim, Ready

(* Nobody waits to preempt a slot that is not claimed. *)
LEMMA FreeEvent ==
  ASSUME IInv, Ready, r_state \notin {"claimed", "preempting"}, UNCHANGED r_pre
  PROVE  RankInv'
<1>1. NoPre
  BY AtRest, Zenon DEF FreeSlot, StateType, States, FreeStates
<1> QED BY <1>1, NobodyWaits, Zenon DEF NoPre, HasPreemptingClaim

(* The plumbing of a step, expanded below. *)
USE DEF Jump, CallThen, ChangeThen, ReturnTo, Call, Change, Return,
        resstate, claims, machine, control

(* No step inside a handler lets the waiting claim be outranked. *)
LEMMA HandlerRank == ASSUME IInv, RankInv, Handler PROVE RankInv'
<1>1. CASE ChangeNothing
  BY <1>1, RankStep, Zenon DEF ChangeNothing, RankInv, SameRank
<1>2. CASE ChangeAborted
  <2>1. r_cur \in Claim /\ r_state = "claimed" /\ r_act = "suspended"
    BY <1>2, BegunFacts DEF ChangeAborted, LeavingSuspended, ClaimedInv, HeldSlot
  <2>2. /\ r_cur' = StarterKillPg(ResumeClaim(r_cur, FALSE))
        /\ UNCHANGED <<r_state, r_act, r_pre>>
    BY <1>2, Zenon DEF ChangeAborted
  <2>3. SameRank(r_cur, r_cur')
    BY <2>1, <2>2, RankUntouched, NoClaimAssumption, ZenonT(60) DEF SameRank
  <2> QED BY <2>1, <2>2, <2>3, RankStep
<1>3. CASE ChangeMade
  <2>1. PICK ok \in BOOLEAN : r_cur' = LeaveAction(ok) /\ (ok \/ LeavingSuspended)
    BY ZenonT(60), <1>3 DEF ChangeMade, Signal
  <2>2. fn' = "enter" /\ UNCHANGED r_pre
    BY <1>3, Zenon DEF ChangeMade
  <2>3. SameRank(r_cur, r_cur')
    <3>1. CASE r_state # "claimed"
      BY <2>1, <3>1, Zenon DEF LeaveAction, LeavingSuspended, SameRank
    <3>2. CASE r_state = "claimed"
      <4>1. r_cur \in Claim
        BY <3>2, <1>3, BegunFacts, Zenon DEF ChangeMade, ClaimedInv, HeldSlot
      <4> DEFINE c == IF LeavingSuspended THEN ResumeClaim(r_cur, ok) ELSE r_cur
      <4>2. c \in Claim /\ c.rank = r_cur.rank
        BY <4>1, RankUntouched, Zenon
      <4>3. r_cur' \in {c, CancelLeaseTimer(c), StarterKillPg(c)}
        BY <2>1, Zenon DEF LeaveAction
      <4> HIDE DEF c
      <4> QED BY <4>1, <4>2, <4>3, RankUntouched, NoClaimAssumption DEF SameRank
    <3> QED BY <3>1, <3>2, Zenon
  <2> QED BY <2>2, <2>3, RankStep, Zenon
<1>4. CASE EnterOwner \/ BeginClaimed \/ LeavePreempting
  BY <1>4, NewClaimFresh, NobodyWaits, Zenon
  DEF EnterOwner, BeginClaimed, LeavePreempting, HasPreemptingClaim
<1>5. CASE EnterClaimed
  <2>1. r_cur \in Claim
    BY <1>5, BegunFacts, Zenon DEF EnterClaimed, ClaimedInv, HeldSlot
  <2>2. /\ \/ r_cur' = r_cur
           \/ \E ok \in BOOLEAN :
                 r_cur' \in {SuspendClaim(r_cur, ok), StarterKillPg(SuspendClaim(r_cur, ok))}
        /\ UNCHANGED <<r_state, r_act, r_pre>>
        /\ r_act = "idle" => fn' = "eval"
    BY ZenonT(60), <1>5 DEF EnterClaimed, Entered
  <2>3. SameRank(r_cur, r_cur')
    BY <2>1, <2>2, RankUntouched, NoClaimAssumption DEF SameRank
  <2> QED BY <2>2, <2>3, RankStep, Zenon
<1>6. CASE EnterPreempting
  <2>1. r_cur \in Claim
    BY <1>6, BegunFacts, Zenon DEF EnterPreempting, PreemptingInv, HeldSlot
  <2>2. /\ \/ r_cur' = r_cur
           \/ \E soft, canHold, ok \in BOOLEAN :
                 r_cur' = StarterHoldJob(r_cur, soft, canHold, ok)
           \/ \E ok \in BOOLEAN :
                 r_cur' \in {StarterKillHard(r_cur, ok), StarterKillSoft(r_cur, ok)}
           \/ r_cur' = StarterKillPg(StarterKillSoft(r_cur, FALSE))
        /\ r_state' = "preempting" /\ UNCHANGED r_pre
    BY ZenonT(60), <1>6 DEF EnterPreempting, HoldJob, Signal
  <2>3. ASSUME NEW soft \in BOOLEAN, NEW canHold \in BOOLEAN, NEW ok \in BOOLEAN
        PROVE  StarterHoldJob(r_cur, soft, canHold, ok).rank = r_cur.rank
    <3>1. [r_cur EXCEPT !.holdCb = TRUE, !.softT = @ \/ soft,
                        !.killT = @ \/ ~soft].rank = r_cur.rank
      BY <2>1, Zenon DEF Claim
    <3> QED BY <2>1, <3>1, RankUntouched, Zenon DEF StarterHoldJob
  <2>4. StarterKillPg(StarterKillSoft(r_cur, FALSE)).rank = r_cur.rank
    BY <2>1, RankUntouched, ZenonT(60)
  <2>5. \A ok \in BOOLEAN : /\ StarterKillHard(r_cur, ok).rank = r_cur.rank
                            /\ StarterKillSoft(r_cur, ok).rank = r_cur.rank
    BY <2>1, RankUntouched, Zenon
  <2>6. SameRank(r_cur, r_cur')
    BY <2>1, <2>2, <2>3, <2>4, <2>5, NoClaimAssumption, ZenonT(60) DEF SameRank
  <2> QED BY <2>2, <2>6, RankStep, Zenon
<1>7. CASE AcceptClaim
  <2>1. CASE r_pre = NoClaim
    BY <1>7, <2>1, NobodyWaits, Zenon DEF AcceptClaim, HasPreemptingClaim
  <2>2. CASE r_pre # NoClaim
    BY <1>7, <2>2, RankStep DEF AcceptClaim, ControlInv, SameRank
  <2> QED BY <2>1, <2>2, Zenon
<1>8. CASE EvalClaimed
  <2>1. r_cur \in Claim
    BY <1>8, BegunFacts DEF EvalClaimed, ClaimedInv, HeldSlot
  <2>2. /\ \/ r_cur' = r_cur
           \/ r_cur' = [r_cur EXCEPT !.preemptTrue = TRUE, !.mayUnretire = FALSE]
        /\ UNCHANGED <<r_state, r_act, r_pre>>
    BY <1>8, Zenon DEF EvalClaimed, PreemptIsTrue, EvalUnchanged
  <2>3. SameRank(r_cur, r_cur')
    BY <2>1, <2>2, NoClaimAssumption, ZenonT(60) DEF SameRank, Claim
  <2>4. HasPreemptingClaim /\ r_act = "idle" => fn' = "change" /\ to_state' = "preempting"
    BY ZenonT(60), <1>8
    DEF EvalClaimed, RetirementOver, PreemptIsTrue, Unretire, ChangePreempting
  <2> QED BY <2>2, <2>3, <2>4, RankStep
<1>9. CASE EnterUnclaimed \/ EnterMatchedOrDrained \/ EnterBackfill
           \/ EvalPreempting \/ EvalOwner \/ EvalMatched \/ EvalUnclaimed
           \/ EvalBackfill \/ EvalDrained \/ SetDestOwner
  <2>1. r_state # "claimed" /\ UNCHANGED <<r_state, r_pre, r_cur>>
    BY ZenonT(60), <1>9
    DEF EnterUnclaimed, EnterMatchedOrDrained, EnterBackfill, EvalPreempting, EvalOwner,
        EvalMatched, EvalUnclaimed, EvalBackfill, EvalDrained, SetDestOwner,
        EvalUnchanged, ControlInv
  <2> QED BY <2>1, RankStep, Zenon DEF SameRank
<1>10. CASE SetUnavail \/ SetUserSuspended \/ StarterGone
  <2>1. /\ fn \in {"unavail", "userSuspended", "userContinued", "starterExited"}
        /\ UNCHANGED <<r_state, r_act, r_pre, r_cur>>
    BY <1>10, Zenon DEF SetUnavail, SetUserSuspended, StarterGone
  <2>2. ~(HasPreemptingClaim /\ r_state = "claimed" /\ r_act = "idle")
    BY <2>1, Zenon DEF RankInv
  <2> QED BY <2>1, <2>2, RankStep, Zenon DEF SameRank
<1> QED BY <1>1, <1>2, <1>3, <1>4, <1>5, <1>6, <1>7, <1>8, <1>9, <1>10 DEF Handler

(* Whichever way they take, retire_claim() and kill_claim() leave a claim  *)
(* of the rank they found.                                                 *)
LEMMA EndClaimRank ==
  ASSUME NEW S, NEW c \in Claim, NEW s, NEW a, NEW k, NEW d \in Claim,
         r_cur \in Claim, c.rank = r_cur.rank, d.rank = r_cur.rank,
         EndClaim(S, c, s, a, k, d)
  PROVE  SameRank(r_cur, r_cur')
<1>1. r_cur' \in {c, r_cur, d}
  BY Zenon DEF EndClaim
<1> QED BY <1>1, NoClaimAssumption, Zenon DEF SameRank

(* kill_claim() keeps the claim's rank. *)
LEMMA KillRank ==
  ASSUME NEW c \in Claim, NEW ok \in BOOLEAN, NEW k, r_cur \in Claim,
         c.rank = r_cur.rank, KillClaim(c, ok, k)
  PROVE  SameRank(r_cur, r_cur')
  BY EndClaimRank, RankUntouched DEF KillClaim

(* retire_claim() keeps the claim's rank. *)
LEMMA RetireRank ==
  ASSUME NEW b \in BOOLEAN, NEW ok \in BOOLEAN, NEW k, r_cur \in Claim,
         RetireClaim(b, ok, k)
  PROVE  SameRank(r_cur, r_cur')
<1> DEFINE c == [r_cur EXCEPT !.mayUnretire = @ /\ b]
<1>1. c \in Claim /\ c.rank = r_cur.rank
  BY DEF Claim
<1>2. EndClaim({"claimed"}, c, "claimed", "retiring", k, StarterKillSoft(r_cur, ok))
  BY Zenon DEF RetireClaim
<1>3. StarterKillSoft(r_cur, ok) \in Claim /\ StarterKillSoft(r_cur, ok).rank = r_cur.rank
  BY RankUntouched, Zenon
<1> HIDE DEF c
<1> QED BY <1>1, <1>2, <1>3, EndClaimRank, Zenon

(* No event lets the waiting claim be outranked. *)
LEMMA EventRank == ASSUME IInv, RankInv, Event PROVE RankInv'
<1>1. Ready
  BY ZenonT(60)
  DEF Event, Poll, BenchmarksFinished, MatchCurrent, MatchPreempting, RequestRefused,
      RequestAccepted, PreemptRefused, PreemptAccepted, RequestSockClosed, MatchTimedOut,
      PreemptingMatchTimedOut, ActivateClaim, ActivateRefused, DeactivateClaim,
      ReleaseCurrent, ReleasePreempting, SuspendCommand, ContinueCommand, Vacate, GotAlive,
      SendAlive, AliveResponse, LeaseExpired, StarterExits, SoftkillTimeout, SigkillStarter,
      HoldJobCallback, BackfillExited, StartDraining, CancelDraining, Shutdown, CheckFree
<1>2. r_cur \in Claim /\ (r_state \in {"claimed", "preempting"} => HeldSlot)
  BY <1>1, AtRest, FreshFacts, BegunFacts, Zenon DEF FreeSlot, HeldSlot, StateType, States, FreeStates
<1>3. CASE Poll \/ BenchmarksFinished \/ ActivateRefused \/ SuspendCommand \/ CancelDraining
           \/ CheckFree \/ BackfillExited
  <2>1. UNCHANGED <<r_state, r_act, r_pre, r_cur>>
    BY ZenonT(60), <1>3
    DEF Poll, BenchmarksFinished, ActivateRefused, SuspendCommand, CancelDraining, CheckFree,
        BackfillExited, SlotOnly
  <2> QED BY <1>1, <2>1, RankEvent, Zenon DEF SameRank
<1>4. CASE MatchCurrent \/ RequestRefused \/ RequestAccepted
  BY ZenonT(60), <1>1, <1>4, FreeEvent DEF MatchCurrent, RequestRefused, RequestAccepted
<1>5. CASE PreemptRefused \/ PreemptingMatchTimedOut \/ ReleasePreempting
  <2>1. UNCHANGED <<r_state, r_act, r_cur>> /\ r_pre' \in {r_pre, NewClaim}
    BY ZenonT(60), <1>5 DEF PreemptRefused, PreemptingMatchTimedOut, ReleasePreempting, SlotOnly
  <2> QED BY <1>1, <2>1, RankEvent, NobodyWaits, NewClaimFresh, Zenon DEF SameRank, HasPreemptingClaim
<1>6. CASE MatchPreempting
  <2>1. /\ UNCHANGED <<r_state, r_act, r_cur, fn>> /\ r_state = "claimed"
        /\ r_pre' \in {r_pre, [r_pre EXCEPT !.matchT = TRUE]}
    BY ZenonT(60), <1>6 DEF MatchPreempting, SlotOnly
  <2>2. r_pre \in Claim
    BY <1>2, <2>1, FreshFacts, Zenon DEF HeldSlot, HasPre
  <2>3. r_pre' \in Claim /\ r_pre'.rank = r_pre.rank /\ r_pre'.stream = r_pre.stream
    BY <2>1, <2>2, ZenonT(60) DEF Claim
  <2> QED BY <1>1, <2>1, <2>2, <2>3, NoClaimAssumption, Zenon DEF RankInv, HasPreemptingClaim, Ready
<1>7. CASE RequestSockClosed
  <2>1. CASE r_pre' = NewClaim
    BY <2>1, NobodyWaits, NewClaimFresh, Zenon DEF HasPreemptingClaim
  <2>2. CASE r_cur.stream /\ UNCHANGED r_pre
    BY <1>1, <1>2, <2>2, FreeEvent, BegunFacts, Zenon DEF HeldSlot
  <2> QED BY <1>7, <2>1, <2>2, Zenon DEF RequestSockClosed
<1>8. CASE PreemptAccepted
  <2>1. r_pre \in Claim /\ (r_pre_pre # NoClaim => r_pre_pre \in Claim)
    BY <1>2, <1>8, FreshFacts, Zenon DEF PreemptAccepted, HeldSlot, HasPre, ClaimsType
  <2>2. PICK rank \in Ranks :
           \/ r_pre' = NewClaim
           \/ /\ ~(rank < r_cur.rank) /\ fn' = "eval"
              /\ \E claim \in Claim :
                    r_pre' = [claim EXCEPT !.matchT = FALSE, !.stream = TRUE, !.rank = rank]
    BY <1>8, <2>1, ZenonT(60) DEF PreemptAccepted
  <2>3. UNCHANGED r_cur
    BY <1>8, Zenon DEF PreemptAccepted
  <2>4. CASE r_pre' = NewClaim
    BY <2>4, NobodyWaits, NewClaimFresh, Zenon DEF HasPreemptingClaim
  <2>5. CASE r_pre' # NewClaim
    <3>1. rank >= r_cur.rank
      <4>1. r_cur.rank \in Int /\ rank \in Int
        BY <1>2, RanksAssumption, ZenonT(60) DEF Claim
      <4>2. ~(rank < r_cur.rank)
        BY ZenonT(60), <2>2, <2>5
      <4> QED BY <4>1, <4>2
    <3>2. r_pre'.rank = rank
      BY <2>2, <2>5, ZenonT(60) DEF Claim
    <3> QED BY <2>2, <2>3, <2>5, <3>1, <3>2, ZenonT(60) DEF RankInv
  <2> QED BY <2>4, <2>5, Zenon
<1>9. CASE MatchTimedOut
  <2>1. \/ r_state \notin {"claimed", "preempting"} /\ UNCHANGED r_pre
        \/ /\ r_cur' = [r_cur EXCEPT !.matchT = FALSE]
           /\ UNCHANGED <<r_state, r_act, r_pre>>
    BY <1>9, Zenon DEF MatchTimedOut, SlotOnly
  <2>2. SameRank(r_cur, [r_cur EXCEPT !.matchT = FALSE])
    BY <1>2, NoClaimAssumption, Zenon DEF SameRank, Claim
  <2> QED BY <1>1, <2>1, <2>2, FreeEvent, RankEvent, ZenonT(60)
<1>10. CASE ActivateClaim
  <2>1. ~HasPreemptingClaim /\ UNCHANGED r_pre
    BY <1>1, <1>10, Zenon DEF ActivateClaim, RankInv, Ready
  <2> QED BY <2>1, NobodyWaits, Zenon DEF HasPreemptingClaim
<1>11. CASE DeactivateClaim \/ ReleaseCurrent \/ ContinueCommand \/ Vacate \/ StartDraining
            \/ Shutdown \/ GotAlive \/ SendAlive \/ AliveResponse \/ LeaseExpired
            \/ StarterExits \/ SoftkillTimeout \/ SigkillStarter \/ HoldJobCallback
  <2>1. UNCHANGED <<r_state, r_act, r_pre>>
    BY ZenonT(60), <1>11
    DEF DeactivateClaim, ReleaseCurrent, ContinueCommand, Vacate, StartDraining, Shutdown,
        GotAlive, SendAlive, AliveResponse, LeaseExpired, StarterExits, SoftkillTimeout,
        SigkillStarter, HoldJobCallback, SlotOnly
  <2>2. SUFFICES SameRank(r_cur, r_cur')
    BY <1>1, <2>1, RankEvent, Zenon
  <2>3. SUFFICES (r_cur' \in Claim /\ r_cur'.rank = r_cur.rank) \/ SameRank(r_cur, r_cur')
    BY <1>2, NoClaimAssumption, Zenon DEF SameRank
  <2>4. CASE DeactivateClaim
    <3>1. PICK ok \in BOOLEAN :
             \E d \in {r_cur, StarterKillHard(r_cur, ok), StarterKillSoft(r_cur, ok)} :
                r_cur' \in {d, [d EXCEPT !.closed = TRUE]}
      BY ZenonT(60), <2>4, SignalType DEF DeactivateClaim, ReleaseClaim
    <3>2. PICK d \in Claim : d.rank = r_cur.rank /\ r_cur' \in {d, [d EXCEPT !.closed = TRUE]}
      BY <1>2, <3>1, RankUntouched, ZenonT(60)
    <3> QED BY <3>2, ZenonT(60) DEF Claim
  <2>5. CASE ReleaseCurrent \/ GotAlive \/ SendAlive \/ SigkillStarter \/ StarterExits
    <3>1. r_cur' \in {[r_cur EXCEPT !.closed = TRUE], Alive(r_cur),
                      [r_cur EXCEPT !.aliveSock = TRUE], [r_cur EXCEPT !.doomed = TRUE],
                      StarterExitedClaim(r_cur)}
      BY ZenonT(60), <2>5
      DEF ReleaseCurrent, ReleaseClaim, GotAlive, SendAlive, SigkillStarter, StarterExits
    <3>2. Alive(r_cur).rank = r_cur.rank /\ StarterExitedClaim(r_cur).rank = r_cur.rank
          /\ Alive(r_cur) \in Claim /\ StarterExitedClaim(r_cur) \in Claim
      BY <1>2, RankUntouched, ZenonT(60)
    <3> QED BY <1>2, <3>1, <3>2, ZenonT(60) DEF Claim
  <2>6. CASE ContinueCommand
    <3>1. PICK ok \in BOOLEAN : r_cur' = ResumeClaim(r_cur, ok)
      BY ZenonT(60), <2>6, SignalType DEF ContinueCommand
    <3> QED BY <1>2, <3>1, RankUntouched, Zenon
  <2>7. CASE SoftkillTimeout \/ HoldJobCallback
    <3>1. PICK ok \in BOOLEAN :
             r_cur' \in {KillHard([r_cur EXCEPT !.softT = FALSE], ok),
                         [r_cur EXCEPT !.holdCb = FALSE],
                         KillSoft([r_cur EXCEPT !.holdCb = FALSE], ok)}
      BY ZenonT(60), <2>7 DEF SoftkillTimeout, HoldJobCallback
    <3>2. CASE ok
      BY <1>2, <3>1, <3>2, ZenonT(60) DEF KillHard, KillSoft, Claim
    <3>3. CASE ~ok
      BY <1>2, <3>1, <3>3, ZenonT(60) DEF KillHard, KillSoft, Claim
    <3> QED BY <3>2, <3>3, Zenon
  <2>8. CASE Vacate \/ StartDraining \/ Shutdown
    <3>1. \E b, ok \in BOOLEAN : \E k : RetireClaim(b, ok, k) \/ KillClaim(r_cur, ok, k)
      BY ZenonT(60), <2>8, SignalType DEF Vacate, StartDraining, Shutdown
    <3> QED BY <1>2, <3>1, RetireRank, KillRank, Zenon
  <2>9. CASE AliveResponse \/ LeaseExpired
    <3> DEFINE done == [r_cur EXCEPT !.aliveSock = FALSE]
               gone == [done EXCEPT !.client = FALSE]
               late == [[r_cur EXCEPT !.leaseT = FALSE] EXCEPT !.client = FALSE]
    <3>1. /\ done \in Claim /\ done.rank = r_cur.rank
          /\ gone \in Claim /\ gone.rank = r_cur.rank
          /\ late \in Claim /\ late.rank = r_cur.rank
      BY <1>2, ZenonT(60) DEF Claim
    <3>2. \/ r_cur' = done \/ r_cur' = Alive(done)
          \/ \E ok \in BOOLEAN : KillClaim(gone, ok, then) \/ KillClaim(late, ok, then)
      BY ZenonT(60), <2>9, SignalType DEF AliveResponse, LeaseExpired, FinishKillClaim
    <3> HIDE DEF done, gone, late
    <3>3. Alive(done) \in Claim /\ Alive(done).rank = done.rank
      BY <3>1, RankUntouched, ZenonT(60)
    <3>4. \A ok \in BOOLEAN : KillClaim(gone, ok, then) \/ KillClaim(late, ok, then) =>
             SameRank(r_cur, r_cur')
      BY <1>2, <3>1, KillRank, Zenon
    <3> QED BY <3>1, <3>2, <3>3, <3>4, Zenon
  <2> QED BY <1>11, <2>4, <2>5, <2>6, <2>7, <2>8, <2>9, Zenon
<1> QED BY <1>3, <1>4, <1>5, <1>6, <1>7, <1>8, <1>9, <1>10, <1>11, Zenon DEF Event

(* A claim that waits to preempt has at least the rank of the claim it is  *)
(* to replace (request_claim(), command.cpp), whatever has happened since  *)
(* its request was accepted.                                               *)
THEOREM PreemptionByRank == Spec => []PreemptingRankSuffices
<1>1. Init => RankInv
  BY Zenon DEF Init, RankInv, HasPreemptingClaim
<1>2. IInv /\ RankInv /\ [Next]_vars => RankInv'
  <2>1. RankInv /\ UNCHANGED vars => RankInv'
    BY Zenon DEF vars, RankInv, HasPreemptingClaim
  <2> QED BY <2>1, HandlerRank, EventRank, Zenon DEF Next
<1>3. IInv /\ RankInv => PreemptingRankSuffices
  BY AtRest, FreshFacts, BegunFacts, Zenon
  DEF RankInv, PreemptingRankSuffices, FreeSlot, HeldSlot, StateType, States, FreeStates
<1> QED BY <1>1, <1>2, <1>3, SlotInvariant, PTL DEF Spec
==============================================================================
