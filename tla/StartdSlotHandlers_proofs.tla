---------------------- MODULE StartdSlotHandlers_proofs ----------------------
(***************************************************************************)
(* What the claim operators do to a claim, and that IInv is preserved by   *)
(* every step inside a handler: change(), enter_action(),                  *)
(* leave_preempting_state(), accept_request_claim(), eval() and what       *)
(* callers do after a call returns. One lemma per action or group of like  *)
(* actions.                                                                *)
(***************************************************************************)
EXTENDS StartdSlotInv, TLAPS

------------------------------------------------------------------------------
(* What the claim operators do to a claim                                  *)

(* d is the begun claim c after a signal, a timer or a flag changed it. *)
Kept(c, d) ==
    /\ Begun(d) /\ d.starter = c.starter
    /\ Sound(c) => Sound(d)
    /\ WillDie(c) => WillDie(d)
    /\ c.doomed => d.doomed

(* ... and its lease and its retirement are untouched. *)
SameTerms(c, d) ==
    /\ d.leaseT = c.leaseT /\ d.client = c.client
    /\ d.mayUnretire = c.mayUnretire

------------------------------------------------------------------------------
(* What Claim's constructor (claim.cpp:50) builds was never begun, has no  *)
(* schedd waiting and may still unretire.                                  *)
LEMMA NewClaimFresh == Fresh(NewClaim) /\ ~NewClaim.stream /\ NewClaim.mayUnretire
  BY RanksAssumption, Zenon DEF Fresh, NewClaim, Claim, ClaimStates

(* A claim that was never begun has no starter, lease, alive socket or     *)
(* kill timer.                                                             *)
LEMMA FreshFacts ==
  ASSUME NEW c, Fresh(c)
  PROVE  /\ c \in Claim /\ c # NoClaim /\ ~Begun(c)
         /\ ~IsActive(c) /\ ~c.starter /\ ~c.leaseT /\ ~c.aliveSock
         /\ ~c.softT /\ ~c.killT /\ ~c.holdCb /\ ~c.sendT
         /\ c.cstate = "UNCLAIMED"
  BY NoClaimAssumption, Zenon DEF Fresh, Begun, IsActive

(* A begun claim has answered its schedd, and its kill timers, hold        *)
(* message and SIGKILL belong to a starter.                                *)
LEMMA BegunFacts ==
  ASSUME NEW c, Begun(c)
  PROVE  /\ c \in Claim /\ c # NoClaim /\ ~c.stream
         /\ c.softT \/ c.killT \/ c.holdCb \/ c.doomed => c.starter
  BY NoClaimAssumption, Zenon DEF Begun

(* start_match_timer() and cancel_match_timer() leave a fresh claim fresh. *)
LEMMA FreshMatch ==
  ASSUME NEW c, Fresh(c), NEW m \in BOOLEAN
  PROVE  LET d == [c EXCEPT !.matchT = m] IN Fresh(d) /\ d.stream = c.stream
  BY Zenon DEF Fresh, Claim

(* Answering the request of a fresh claim leaves it fresh. *)
LEMMA FreshStream ==
  ASSUME NEW c, Fresh(c)
  PROVE  LET d == [c EXCEPT !.stream = FALSE] IN Fresh(d) /\ ~d.stream
  BY ZenonT(60) DEF Fresh, Claim

(* request_claim() parks the stream and the rank in a claim that stays     *)
(* fresh.                                                                  *)
LEMMA FreshRequest ==
  ASSUME NEW c, Fresh(c), NEW r \in Ranks
  PROVE  LET d == [c EXCEPT !.matchT = FALSE, !.stream = TRUE, !.rank = r]
         IN  Fresh(d) /\ d.stream
  BY ZenonT(60) DEF Fresh, Claim

(* A schedd that closes the request socket does not begin the claim. *)
LEMMA FreshClosed ==
  ASSUME NEW c, Fresh(c)
  PROVE  LET d == [c EXCEPT !.closed = TRUE] IN Fresh(d) /\ d.stream = c.stream
  BY ZenonT(60) DEF Fresh, Claim

(* beginClaim() makes a leased claim without a starter out of a fresh one. *)
LEMMA BeginFresh ==
  ASSUME NEW c, Fresh(c), ~c.stream
  PROVE  LET d == BeginClaim(c)
         IN  /\ Begun(d) /\ Sound(d) /\ d.leaseT /\ d.client /\ ~d.starter
  BY ZenonT(60), SendsAlivesAssumption
  DEF Fresh, Begun, Sound, BeginClaim, StartLeaseTimer, Claim, ClaimStates, IsActive

(* Doing nothing to a begun claim keeps it. *)
LEMMA KeptSelf == ASSUME NEW c, Begun(c) PROVE Kept(c, c) /\ SameTerms(c, c)
  BY Zenon DEF Kept, SameTerms

(* Sending a signal to a starter succeeds or fails. *)
LEMMA SignalType == ASSUME NEW c, NEW ok \in Signal(c) PROVE ok \in BOOLEAN
  BY ZenonT(60) DEF Signal

(* cancel_match_timer() keeps a begun claim. *)
LEMMA KeptMatch ==
  ASSUME NEW c, Begun(c)
  PROVE  LET d == [c EXCEPT !.matchT = FALSE] IN Kept(c, d) /\ SameTerms(c, d)
  BY ZenonT(60) DEF Kept, SameTerms, Sound, WillDie, Begun, Claim, IsActive

(* A schedd that releases its claim itself, so that it needs no notice,    *)
(* keeps a begun claim.                                                    *)
LEMMA KeptClosed ==
  ASSUME NEW c, Begun(c)
  PROVE  LET d == [c EXCEPT !.closed = TRUE] IN Kept(c, d) /\ SameTerms(c, d)
  BY ZenonT(60) DEF Kept, SameTerms, Sound, WillDie, Begun, Claim, IsActive

(* setrank() keeps a begun claim. *)
LEMMA KeptRank ==
  ASSUME NEW c, Begun(c), NEW r \in Ranks
  PROVE  LET d == [c EXCEPT !.rank = r] IN Kept(c, d) /\ SameTerms(c, d)
  BY Zenon DEF Kept, SameTerms, Sound, WillDie, Begun, Claim, IsActive

(* Opening or closing the alive socket keeps a begun claim. *)
LEMMA KeptAliveSock ==
  ASSUME NEW c, Begun(c), NEW b \in BOOLEAN
  PROVE  LET d == [c EXCEPT !.aliveSock = b] IN Kept(c, d) /\ SameTerms(c, d)
  BY Zenon DEF Kept, SameTerms, Sound, WillDie, Begun, Claim, IsActive

(* Giving up unretirement, the client or the lease keeps a begun claim's   *)
(* starter and its timers.                                                 *)
LEMMA KeptTerms ==
  ASSUME NEW c, Begun(c), NEW b \in BOOLEAN
  PROVE  /\ Kept(c, [c EXCEPT !.mayUnretire = b])
         /\ Kept(c, [c EXCEPT !.preemptTrue = TRUE, !.mayUnretire = FALSE])
         /\ Kept(c, [c EXCEPT !.client = FALSE])
         /\ Kept(c, [c EXCEPT !.leaseT = FALSE])
         /\ Kept(c, CancelLeaseTimer(c))
<1>1. Kept(c, [c EXCEPT !.mayUnretire = b])
  BY Zenon DEF Kept, Sound, WillDie, Begun, Claim, IsActive
<1>2. Kept(c, [c EXCEPT !.preemptTrue = TRUE, !.mayUnretire = FALSE])
  BY ZenonT(60) DEF Kept, Sound, WillDie, Begun, Claim, IsActive
<1>3. Kept(c, [c EXCEPT !.client = FALSE])
  BY ZenonT(60) DEF Kept, Sound, WillDie, Begun, Claim, IsActive
<1>4. Kept(c, [c EXCEPT !.leaseT = FALSE])
  BY ZenonT(60) DEF Kept, Sound, WillDie, Begun, Claim, IsActive
<1>5. Kept(c, CancelLeaseTimer(c))
  BY ZenonT(60) DEF CancelLeaseTimer, Kept, Sound, WillDie, Begun, Claim, IsActive
<1> QED BY <1>1, <1>2, <1>3, <1>4, <1>5, Zenon

(* alive() leaves a begun claim with a lease timer. *)
LEMMA KeptAlive ==
  ASSUME NEW c, Begun(c)
  PROVE  LET d == Alive(c)
         IN  /\ Kept(c, d) /\ d.leaseT /\ d.client = c.client
             /\ d.mayUnretire = c.mayUnretire
<1>1. CASE c.leaseT
  BY <1>1 DEF Alive, Kept, Sound, WillDie, Begun, Claim
<1>2. CASE ~c.leaseT
  BY ZenonT(60), <1>2, SendsAlivesAssumption
  DEF Alive, StartLeaseTimer, Kept, Sound, WillDie, Begun, Claim, IsActive
<1> QED BY <1>1, <1>2, Zenon

(* softkillTimeout() keeps the claim: the hard kill it falls back on is    *)
(* started before the soft timer is forgotten.                             *)
LEMMA KeptSoftkill ==
  ASSUME NEW c, Begun(c), c.starter, NEW ok \in BOOLEAN
  PROVE  LET d == KillHard([c EXCEPT !.softT = FALSE], ok)
         IN  Kept(c, d) /\ SameTerms(c, d)
  BY ZenonT(60) DEF KillHard, Kept, SameTerms, Sound, WillDie, Begun, Claim, IsActive

(* sigkillTimeout() keeps the claim and leaves its starter with SIGKILL on *)
(* the way.                                                                *)
LEMMA KeptSigkill ==
  ASSUME NEW c, Begun(c), c.starter
  PROVE  LET d == [c EXCEPT !.doomed = TRUE] IN Kept(c, d) /\ SameTerms(c, d)
  BY ZenonT(60) DEF Kept, SameTerms, Sound, WillDie, Begun, Claim, IsActive

(* holdJobCallback() keeps the claim, both when the starter agreed and     *)
(* when it must be killed softly instead.                                  *)
LEMMA KeptHoldCb ==
  ASSUME NEW c, Begun(c), c.holdCb, NEW ok \in BOOLEAN
  PROVE  LET e == [c EXCEPT !.holdCb = FALSE]
         IN  /\ Kept(c, e) /\ SameTerms(c, e)
             /\ Kept(c, KillSoft(e, ok)) /\ SameTerms(c, KillSoft(e, ok))
<1> DEFINE e == [c EXCEPT !.holdCb = FALSE]
<1>1. Kept(c, e) /\ SameTerms(c, e)
  BY ZenonT(60) DEF Kept, SameTerms, Sound, WillDie, Begun, Claim, IsActive
<1>2. Kept(c, KillSoft(e, ok)) /\ SameTerms(c, KillSoft(e, ok))
  BY ZenonT(60) DEF KillSoft, Kept, SameTerms, Sound, WillDie, Begun, Claim, IsActive
<1> QED BY <1>1, <1>2, Zenon

(* starterKillSoft(), starterKillHard() and starterKillPg() leave a        *)
(* starter sure to die, whether or not the signal could be sent.           *)
LEMMA KeptStarterKill ==
  ASSUME NEW c, Begun(c), NEW ok \in BOOLEAN
  PROVE  /\ LET d == StarterKillSoft(c, ok)
            IN  Kept(c, d) /\ SameTerms(c, d) /\ (c.starter => WillDie(d))
         /\ LET d == StarterKillHard(c, ok)
            IN  /\ Kept(c, d) /\ SameTerms(c, d) /\ (c.starter => WillDie(d))
                /\ c.starter /\ ~ok => d.doomed
         /\ LET d == StarterKillPg(c)
            IN  Kept(c, d) /\ SameTerms(c, d) /\ (c.starter => d.doomed)
<1>1. CASE ~c.starter
  BY <1>1, Zenon DEF StarterKillSoft, StarterKillHard, StarterKillPg, Kept, SameTerms,
         Sound, WillDie, Begun
<1>2. CASE c.starter
  <2> USE <1>2 DEF Kept, SameTerms, Sound, WillDie, Begun, Claim, ClaimStates, IsActive
  <2>1. LET d == StarterKillSoft(c, ok)
        IN  Kept(c, d) /\ SameTerms(c, d) /\ WillDie(d)
    <3>1. CASE ok
      BY ZenonT(60), <3>1 DEF StarterKillSoft, KillSoft
    <3>2. CASE ~ok
      BY ZenonT(60), <3>2 DEF StarterKillSoft, KillSoft
    <3> QED BY ZenonT(60), <3>1, <3>2
  <2>2. LET d == StarterKillHard(c, ok)
        IN  Kept(c, d) /\ SameTerms(c, d) /\ WillDie(d) /\ (~ok => d.doomed)
    <3>1. CASE ok
      BY ZenonT(60), <3>1 DEF StarterKillHard, KillHard
    <3>2. CASE ~ok
      BY ZenonT(60), <3>2 DEF StarterKillHard, KillHard
    <3> QED BY ZenonT(60), <3>1, <3>2
  <2>3. LET d == StarterKillPg(c) IN Kept(c, d) /\ SameTerms(c, d) /\ d.doomed
    BY ZenonT(60) DEF StarterKillPg
  <2> HIDE DEF Kept, SameTerms, WillDie
  <2> QED BY <2>1, <2>2, <2>3, Zenon
<1> QED BY <1>1, <1>2, Zenon

(* starterHoldJob() leaves a starter sure to die, whether or not it can    *)
(* hold the job.                                                           *)
LEMMA KeptHoldJob ==
  ASSUME NEW c, Begun(c), c.starter,
         NEW soft \in BOOLEAN, NEW canHold \in BOOLEAN, NEW ok \in BOOLEAN
  PROVE  LET d == StarterHoldJob(c, soft, canHold, ok)
         IN  Kept(c, d) /\ SameTerms(c, d) /\ WillDie(d)
<1>1. CASE canHold /\ c.holdCb
  BY ZenonT(60), <1>1 DEF StarterHoldJob, Kept, SameTerms, Sound, WillDie, Begun
<1>2. CASE canHold /\ ~c.holdCb
  BY ZenonT(60), <1>2 DEF StarterHoldJob, Kept, SameTerms, Sound, WillDie, Begun, Claim, IsActive
<1>3. CASE ~canHold
  BY <1>3, KeptStarterKill, Zenon DEF StarterHoldJob
<1> QED BY <1>1, <1>2, <1>3, Zenon

(* suspendClaim() keeps a claim begun and its starter, lease and           *)
(* retirement as they are.                                                 *)
LEMMA SuspendBegun ==
  ASSUME NEW c, Begun(c), NEW ok \in BOOLEAN
  PROVE  LET d == SuspendClaim(c, ok)
         IN  Begun(d) /\ d.starter = c.starter /\ SameTerms(c, d)
  BY ZenonT(60) DEF SuspendClaim, SameTerms, Begun, Claim, ClaimStates, IsActive

(* resumeClaim() leaves a claim active exactly if it has a starter. *)
LEMMA KeptResume ==
  ASSUME NEW c, Begun(c), NEW ok \in BOOLEAN
  PROVE  LET d == ResumeClaim(c, ok)
         IN  Kept(c, d) /\ Sound(d) /\ SameTerms(c, d)
  BY ZenonT(60) DEF ResumeClaim, Kept, SameTerms, Sound, WillDie, Begun, Claim, ClaimStates,
         IsActive

(* spawnStarter() makes a begun claim active. *)
LEMMA SpawnBegun ==
  ASSUME NEW c, Begun(c), ~c.starter
  PROVE  LET d == SpawnStarter(c)
         IN  Begun(d) /\ d.starter /\ Sound(d) /\ SameTerms(c, d)
  BY ZenonT(60) DEF SpawnStarter, Sound, SameTerms, Begun, Claim, ClaimStates, IsActive

(* resetClaim() keeps a claim that has no starter. *)
LEMMA KeptReset ==
  ASSUME NEW c, Begun(c), ~c.starter
  PROVE  LET d == ResetClaim(c)
         IN  Kept(c, d) /\ d.leaseT = c.leaseT /\ d.client = c.client
  BY ZenonT(60) DEF ResetClaim, Kept, Sound, WillDie, Begun, Claim, IsActive

(* starterExited() leaves the claim begun and leased, without a starter    *)
(* and inactive.                                                           *)
LEMMA ExitedBegun ==
  ASSUME NEW c, Begun(c)
  PROVE  LET d == StarterExitedClaim(c)
         IN  /\ Begun(d) /\ ~d.starter /\ Sound(d)
             /\ d.leaseT = c.leaseT /\ d.client = c.client
  BY ZenonT(60) DEF StarterExitedClaim, ResetClaim, Sound, Begun, Claim, ClaimStates, IsActive

------------------------------------------------------------------------------
(* The steps inside a handler                                              *)

(* The plumbing of a step, expanded everywhere below. *)
USE DEF Jump, CallThen, ChangeThen, ReturnTo, Call, Change, Return,
        resstate, claims, machine, control, IInv, TypeOK

------------------------------------------------------------------------------

(* A slot starts in Owner with one fresh claim. *)
LEMMA InitInv == Init => IInv
  BY ZenonT(60), NewClaimFresh, FreshFacts
  DEF Init, IInv, TypeOK, ControlInv, FreeInv, BackfillInv, ClaimedInv,
      PreemptingInv, FreeSlot, NoPre, FreeStates, Functions, Continuations, States,
      Activities, StateType, ClaimsType, FlagsType, ControlType


------------------------------------------------------------------------------
(* change() to the state and activity the slot is in preserves IInv. *)
LEMMA ChangeNothingInv == ASSUME IInv, ChangeNothing PROVE IInv'
<1> USE DEF ChangeNothing
<1>1. StateType' /\ ClaimsType' /\ FlagsType'
  BY DEF StateType, ClaimsType, FlagsType
<1>2. ControlType'
  BY ZenonT(60) DEF ControlType, Functions, Continuations, States, Activities
<1>3. ControlInv'
  BY Zenon DEF ControlType, ControlInv, Continuations
<1>4. FreeInv'
  BY Zenon DEF ControlType, Continuations, FreeInv, FreeSlot, NoPre, FreeStates
<1>5. BackfillInv'
  BY Zenon DEF ControlType, Continuations, BackfillInv, FreeSlot, NoPre, ControlInv
<1>6. ClaimedInv'
  BY Zenon DEF ControlType, Continuations, ClaimedInv, HeldSlot, HasPre, ControlInv
<1>7. PreemptingInv'
  BY Zenon DEF ControlType, Continuations, PreemptingInv, HeldSlot, HasPre, ControlInv
<1> QED BY <1>1, <1>2, <1>3, <1>4, <1>5, <1>6, <1>7, Zenon

(* change() whose leave_action() could not resume the job, sends SIGKILL   *)
(* and goes preempting instead, preserves IInv.                            *)
LEMMA ChangeAbortedInv == ASSUME IInv, ChangeAborted PROVE IInv'
<1> DEFINE c == ResumeClaim(r_cur, FALSE)
<1> USE DEF ChangeAborted, ChangePreempting, LeavingSuspended
<1>1. HeldSlot /\ HeldSlot'
  <2>1. Begun(c)
    BY ZenonT(60), KeptResume DEF ClaimedInv, HeldSlot, Kept
  <2> QED BY ZenonT(60), <2>1, KeptStarterKill DEF ClaimedInv, HeldSlot, HasPre, Kept
<1>2. StateType' /\ ClaimsType' /\ FlagsType'
  BY ZenonT(60), <1>1, BegunFacts DEF StateType, ClaimsType, FlagsType, HeldSlot
<1>3. ControlType'
  BY ZenonT(60) DEF ControlType, Functions, States, Activities
<1>4. ControlInv'
  BY Zenon DEF ControlInv, Continuations
<1>5. ClaimedInv'
  BY ZenonT(60), <1>1 DEF ClaimedInv, ClaimedActs, Continuations
<1>6. FreeInv' /\ BackfillInv' /\ PreemptingInv'
  BY Zenon DEF FreeInv, BackfillInv, PreemptingInv, FreeStates
<1> QED BY <1>2, <1>3, <1>4, <1>5, <1>6, Zenon

(* change() proper: by the state it leaves. *)
LEMMA ChangeMadeInv == ASSUME IInv, ChangeMade PROVE IInv'
<1> USE DEF ChangeMade
<1>1. PICK ok \in BOOLEAN : /\ ok \/ to_state = "preempting"
                            /\ r_cur' = LeaveAction(ok)
                            /\ ~ok => LeavingSuspended /\ r_cur.starter
  BY ZenonT(60) DEF Signal
<1>2. r_state # "claimed" => r_cur' = r_cur
  BY <1>1, Zenon DEF LeaveAction, LeavingSuspended
<1>3. StateType' /\ FlagsType' /\ ControlType'
  <2>1. StateType'
    BY Zenon DEF StateType, ControlType
  <2>2. FlagsType'
    BY ZenonT(60) DEF FlagsType
  <2>3. ControlType'
    BY Zenon DEF ControlType, Functions, States, Activities
  <2> QED BY <2>1, <2>2, <2>3, Zenon
<1>4. CASE r_state \in FreeStates
  <2>1. r_cur' = r_cur /\ r_destination' = "none"
    BY <1>2, <1>4, Zenon DEF ControlInv, FreeStates
  <2>2. ClaimsType' /\ ControlInv'
    BY <1>4, <2>1, Zenon DEF ClaimsType, ControlInv, FreeInv, FreeStates, Continuations
  <2>3. FreeInv' /\ BackfillInv' /\ ClaimedInv' /\ PreemptingInv'
    BY ZenonT(60), <1>4, <2>1, FreshFacts DEF FreeInv, FreeStates, BackfillInv, ClaimedInv, PreemptingInv, FreeSlot,
       NoPre, ClaimedActs, ControlInv, Discarded, Continuations
  <2> QED BY <1>3, <2>2, <2>3, Zenon
<1>5. CASE r_state = "backfill"
  <2>1. r_cur' = r_cur 
    BY <1>2, <1>5 , Zenon
  <2>2. ClaimsType' /\ ControlInv'
    BY <1>5, <2>1, Zenon DEF ClaimsType, ControlInv, BackfillInv, Continuations
  <2>3. FreeInv' /\ BackfillInv' /\ ClaimedInv' /\ PreemptingInv'
    BY ZenonT(60), <1>5, <2>1, FreshFacts DEF FreeInv, FreeStates, BackfillInv, ClaimedInv, PreemptingInv, FreeSlot,
       NoPre, ClaimedActs, ControlInv, Discarded, Continuations
  <2> QED BY <1>3, <2>2, <2>3, Zenon
<1>6. CASE r_state = "claimed"
  <2> DEFINE c == IF LeavingSuspended THEN ResumeClaim(r_cur, ok) ELSE r_cur
  <2>a. HeldSlot
    BY <1>6, Zenon DEF ClaimedInv
  <2>b. Kept(r_cur, c) /\ Sound(c) /\ SameTerms(r_cur, c)
    <3>1. CASE LeavingSuspended
      BY <2>a, <3>1, KeptResume, Zenon DEF HeldSlot
    <3>2. CASE ~LeavingSuspended
      BY <1>6, <2>a, <3>2, Zenon DEF HeldSlot, LeavingSuspended, ClaimedInv, Kept, SameTerms
    <3> QED BY <3>1, <3>2, Zenon
  <2>c. r_cur' \in {c, CancelLeaseTimer(c), StarterKillPg(c)}
    BY <1>1, Zenon DEF LeaveAction
  <2>d. r_cur' = c \/ Kept(c, r_cur')
    <3>1. Begun(c)
      BY <2>b, Zenon DEF Kept
    <3>2. Kept(c, CancelLeaseTimer(c)) /\ Kept(c, StarterKillPg(c))
      BY ZenonT(60), <3>1, KeptTerms, KeptStarterKill
    <3> QED BY <2>c, <3>2, Zenon
  <2>1. HeldSlot /\ HeldSlot' /\ Sound(r_cur') /\ r_cur'.starter = r_cur.starter
    BY <2>a, <2>b, <2>d, Zenon DEF HeldSlot, HasPre, Kept
  <2>2. ClaimsType' /\ ControlInv'
    BY <1>6, <2>1, BegunFacts, Zenon DEF ClaimsType, HeldSlot, ControlInv, ClaimedInv, Continuations
  <2>3. to_state = "claimed" => r_cur'.leaseT /\ r_cur'.client
    <3>1. to_state = "claimed" => r_cur' = c
      BY <1>1, <1>6, Zenon DEF LeaveAction
    <3> QED BY ZenonT(60), <1>6, <2>b, <3>1 DEF ClaimedInv, SameTerms
  <2>4. FreeInv' /\ BackfillInv' /\ ClaimedInv' /\ PreemptingInv'
    BY ZenonT(60), <1>6, <2>1, <2>3 DEF FreeInv, FreeStates, BackfillInv, ClaimedInv, PreemptingInv, 
       ClaimedActs, ControlInv, Continuations
  <2> QED BY <1>3, <2>2, <2>4, Zenon
<1>7. CASE r_state = "preempting"
  <2>1. r_cur' = r_cur /\ r_destination' = "none"
    BY <1>2, <1>7, Zenon DEF ControlInv
  <2>2. ClaimsType' /\ ControlInv'
    BY <1>7, <2>1, Zenon DEF ClaimsType, ControlInv, PreemptingInv, Continuations
  <2>3. FreeInv' /\ BackfillInv' /\ ClaimedInv' /\ PreemptingInv'
    BY ZenonT(60), <1>7, <2>1 DEF FreeInv, FreeStates, BackfillInv, ClaimedInv, PreemptingInv, FreeSlot, HeldSlot, HasPre,
       NoPre, ClaimedActs, ControlInv, Discarded, Continuations
  <2> QED BY <1>3, <2>2, <2>3, Zenon
<1> QED BY <1>4, <1>5, <1>6, <1>7, Zenon DEF StateType, States, FreeStates

------------------------------------------------------------------------------
(* Entering Owner preserves IInv: whatever the last claim left is          *)
(* replaced.                                                               *)
LEMMA EnterOwnerInv == ASSUME IInv, EnterOwner PROVE IInv'
<1> USE DEF EnterOwner, Entered
<1>1. FreeSlot' /\ ~r_cur'.stream
  BY NewClaimFresh, FreshFacts, Zenon DEF FreeSlot, NoPre, HasPre, FreeInv, FreeStates, Discarded
<1>2. StateType' /\ ClaimsType'
  BY <1>1, FreshFacts, Zenon DEF StateType, ClaimsType, FreeSlot, NoPre
<1>3. FlagsType'
  BY Zenon DEF FlagsType, Restored
<1>4. ControlType'
  BY ZenonT(60) DEF ControlType, Functions, Continuations, States, Activities
<1>5. ControlInv'
  BY Zenon DEF ControlInv, ControlType, Continuations
<1>6. FreeInv'
  BY <1>1, Zenon DEF FreeInv, FreeStates, ControlType, Continuations, ControlInv
<1>7. BackfillInv' /\ ClaimedInv' /\ PreemptingInv'
  BY Zenon DEF BackfillInv, ClaimedInv, PreemptingInv
<1> QED BY <1>2, <1>3, <1>4, <1>5, <1>6, <1>7, Zenon

(* Entering Unclaimed, Matched and Drained preserves IInv. *)
LEMMA EnterFreeInv ==
  ASSUME IInv, EnterUnclaimed \/ EnterMatchedOrDrained PROVE IInv'
<1> USE DEF EnterUnclaimed, EnterMatchedOrDrained, Entered
<1>1. StateType' /\ ClaimsType'
  BY Zenon DEF StateType, ClaimsType
<1>2. FlagsType'
  BY Zenon DEF FlagsType, Restored
<1>3. ControlType'
  BY ZenonT(60) DEF ControlType, Functions, Continuations, States, Activities
<1>4. ControlInv'
  BY DEF ControlInv, ControlType, Continuations
<1>5. FreeInv'
  BY Zenon DEF FreeInv, FreeStates, ControlType, Continuations, ControlInv, FreeSlot, NoPre
<1>6. BackfillInv' /\ ClaimedInv' /\ PreemptingInv'
  BY Zenon DEF BackfillInv, ClaimedInv, PreemptingInv
<1> QED BY <1>1, <1>2, <1>3, <1>4, <1>5, <1>6, Zenon

(* Entering Backfill preserves IInv. *)
LEMMA EnterBackfillInv == ASSUME IInv, EnterBackfill PROVE IInv'
<1> USE DEF EnterBackfill, Entered
<1>1. StateType' /\ ClaimsType'
  BY Zenon DEF StateType, ClaimsType
<1>2. FlagsType'
  BY Zenon DEF FlagsType, Restored
<1>3. fn' = then /\ then' = "ready" /\ to_state' = "owner" /\ to_act' = "idle" /\ statechange' = FALSE
  BY Zenon DEF BackfillInv
<1>4. ControlType'
  BY ZenonT(60), <1>3 DEF ControlType, Functions, Continuations, States, Activities
<1>5. ControlInv'
  BY <1>3, Zenon DEF ControlInv, ControlType, Continuations
<1>6. BackfillInv'
  BY <1>3, Zenon DEF BackfillInv, ControlType, Continuations, FreeSlot, NoPre
<1>7. FreeInv' /\ ClaimedInv' /\ PreemptingInv'
  BY Zenon DEF FreeInv, FreeStates, ClaimedInv, PreemptingInv
<1> QED BY <1>1, <1>2, <1>4, <1>5, <1>6, <1>7, Zenon

(* Entering Claimed from another state begins the claim and preserves      *)
(* IInv.                                                                   *)
LEMMA BeginClaimedInv == ASSUME IInv, BeginClaimed PROVE IInv'
<1> USE DEF BeginClaimed, Entered
<1>1. FreeSlot /\ ~r_cur.stream /\ r_act = "idle"
  BY Zenon DEF ClaimedInv
<1>2. r_cur' = BeginClaim(r_cur) /\ Jump("eval", "owner", "idle", FALSE, then)
  BY <1>1, FreshFacts, Zenon DEF FreeSlot
<1>3. HeldSlot' /\ Sound(r_cur') /\ r_cur'.leaseT /\ r_cur'.client /\ ~r_cur'.starter
  BY <1>1, <1>2, BeginFresh, NewClaimFresh, Zenon DEF FreeSlot, NoPre, HeldSlot, HasPre
<1>4. StateType' /\ ClaimsType'
  BY <1>3, BegunFacts, FreshFacts, Zenon DEF StateType, ClaimsType, HeldSlot, HasPre
<1>5. FlagsType'
  BY Zenon DEF FlagsType, Restored
<1>6. ControlType'
  BY ZenonT(60), <1>1, <1>2 DEF ControlType, Functions, States, Activities
<1>7. ControlInv'
  BY <1>2, Zenon DEF ControlInv, ControlType, Continuations
<1>8. ClaimedInv'
  BY <1>1, <1>2, <1>3, Zenon DEF ClaimedInv, ClaimedActs, Continuations
<1>9. FreeInv' /\ BackfillInv' /\ PreemptingInv'
  BY Zenon DEF FreeInv, FreeStates, BackfillInv, PreemptingInv
<1> QED BY <1>4, <1>5, <1>6, <1>7, <1>8, <1>9, Zenon
(* Entering an activity of Claimed preserves IInv. *)
LEMMA EnterClaimedInv == ASSUME IInv, EnterClaimed PROVE IInv'
<1> USE DEF EnterClaimed, Entered, ChangePreempting
<1>1. /\ HeldSlot /\ r_cur.leaseT /\ r_cur.client
      /\ r_act # "suspended" => Sound(r_cur)
      /\ r_act = "idle" => ~r_cur.starter
  BY Zenon DEF ClaimedInv
<1>2. /\ Begun(r_cur') /\ r_cur'.leaseT /\ r_cur'.client
      /\ r_act # "suspended" => r_cur' = r_cur
  <2>1. CASE r_cur' = r_cur
    BY <1>1, <2>1, Zenon DEF HeldSlot
  <2>2. CASE r_act = "suspended" /\ r_cur' # r_cur
    <3>1. PICK ok \in BOOLEAN : r_cur' \in {SuspendClaim(r_cur, ok), StarterKillPg(SuspendClaim(r_cur, ok))}
      BY ZenonT(60), <2>2 DEF Signal
    <3> DEFINE c == SuspendClaim(r_cur, ok)
    <3>2. Begun(c) /\ SameTerms(r_cur, c)
      BY <1>1, SuspendBegun, Zenon DEF HeldSlot
    <3>3. Kept(c, StarterKillPg(c)) /\ SameTerms(c, StarterKillPg(c))
      BY <3>2, KeptStarterKill, Zenon
    <3> QED BY ZenonT(60), <1>1, <2>2, <3>1, <3>2, <3>3 DEF Kept, SameTerms
  <2> QED BY ZenonT(60), <2>1, <2>2 
<1>3. HeldSlot' /\ (r_act # "suspended" => Sound(r_cur'))
  BY <1>1, <1>2, Zenon DEF HeldSlot, HasPre
<1>4. StateType' /\ ClaimsType'
  BY <1>2, BegunFacts, Zenon DEF StateType, ClaimsType
<1>5. FlagsType'
  BY Zenon DEF FlagsType, Restored
<1>6. ControlType'
  BY ZenonT(60) DEF ControlType, Functions, Continuations, States, Activities
<1>7. ControlInv'
  BY ZenonT(60) DEF ControlInv, ControlType, Continuations
<1>8. ClaimedInv'
  <2>1. CASE r_act = "busy"
    BY <1>1, <1>2, <1>3, <2>1, Zenon DEF ClaimedInv, ClaimedActs, ControlType, Continuations, ControlInv,
       InRetirement, MayUnretire, HasPreemptingClaim
  <2>2. CASE r_act # "busy"
    BY ZenonT(60), <1>1, <1>2, <1>3, <2>2 DEF ClaimedInv, ClaimedActs, ControlType, Continuations, ControlInv
  <2> QED BY <2>1, <2>2, Zenon
<1>9. FreeInv' /\ BackfillInv' /\ PreemptingInv'
  BY Zenon DEF FreeInv, FreeStates, BackfillInv, PreemptingInv
<1> QED BY <1>4, <1>5, <1>6, <1>7, <1>8, <1>9, Zenon

(* Entering Vacating or Killing preserves IInv: the starter is sure to die *)
(* or the slot leaves Preempting.                                          *)
LEMMA EnterPreemptingInv == ASSUME IInv, EnterPreempting PROVE IInv'
<1> USE DEF EnterPreempting, Entered, HoldJob
<1>1. HeldSlot /\ Sound(r_cur) /\ r_act \in {"vacating", "killing"}
  BY Zenon DEF PreemptingInv
<1>2. CASE ~IsActive(r_cur) /\ Call("leave_preempting") /\ UNCHANGED claims
  <2>1. ~r_cur.starter
    BY <1>1, <1>2, Zenon DEF HeldSlot, Begun
  <2>2. StateType' /\ ClaimsType' /\ FlagsType'
    BY <1>2 DEF StateType, ClaimsType, FlagsType
  <2>3. ControlType'
    BY ZenonT(60), <1>2 DEF ControlType, Functions, States, Activities
  <2>4. ControlInv'
    BY <1>2, Zenon DEF ControlInv, Continuations
  <2>5. PreemptingInv'
    BY <1>1, <1>2, <2>1, Zenon DEF PreemptingInv, HeldSlot, HasPre
  <2>6. FreeInv' /\ BackfillInv' /\ ClaimedInv'
    BY Zenon DEF FreeInv, FreeStates, BackfillInv, ClaimedInv
  <2> QED BY <2>2, <2>3, <2>4, <2>5, <2>6, Zenon
<1>3. CASE IsActive(r_cur)
  <2>1. r_cur.starter /\ Begun(r_cur)
    BY <1>1, <1>3, Zenon DEF Sound, HeldSlot
  <2>2. /\ Kept(r_cur, r_cur') /\ WillDie(r_cur') /\ UNCHANGED <<r_pre, r_pre_pre>>
        /\ \/ Return
           \/ Call("leave_preempting") /\ r_cur'.doomed
           \/ Change("owner", "idle") /\ r_cur'.doomed
    <3>1. CASE HoldJob(r_act = "vacating")
      BY ZenonT(60), <1>1, <2>1, <3>1, KeptHoldJob DEF Signal
    <3>2. CASE /\ IsActive(r_cur) /\ r_act = "killing"
               /\ \E ok \in Signal(r_cur) :
                     /\ r_cur' = StarterKillHard(r_cur, ok)
                     /\ IF ok THEN Entered ELSE Call("leave_preempting")
               /\ UNCHANGED <<r_pre, r_pre_pre>>
      BY <1>1, <2>1, <3>2, KeptStarterKill, Zenon DEF Signal
    <3>3. CASE /\ IsActive(r_cur) /\ r_act = "vacating"
               /\ \E ok \in Signal(r_cur) :
                     IF ok THEN r_cur' = StarterKillSoft(r_cur, TRUE) /\ Entered
                     ELSE /\ r_cur' = StarterKillPg(StarterKillSoft(r_cur, FALSE))
                          /\ Change("owner", "idle")
               /\ UNCHANGED <<r_pre, r_pre_pre>>
      <4> DEFINE c == StarterKillSoft(r_cur, FALSE)
      <4>1. Kept(r_cur, c) /\ WillDie(c)
        BY ZenonT(60), <2>1, KeptStarterKill
      <4>2. Kept(c, StarterKillPg(c)) /\ StarterKillPg(c).doomed
        BY ZenonT(60), <4>1, KeptStarterKill DEF Kept, WillDie
      <4>3. Kept(r_cur, StarterKillPg(c)) /\ WillDie(StarterKillPg(c))
        BY ZenonT(60), <4>1, <4>2 DEF Kept
      <4>4. Kept(r_cur, StarterKillSoft(r_cur, TRUE)) /\ WillDie(StarterKillSoft(r_cur, TRUE))
        BY ZenonT(60), <2>1, KeptStarterKill
      <4> QED BY ZenonT(60), <3>3, <4>2, <4>3, <4>4
    <3> QED BY ZenonT(60), <1>3, <3>1, <3>2, <3>3
  <2>3. HeldSlot' /\ Sound(r_cur') /\ r_cur'.starter
    BY <1>1, <2>1, <2>2, Zenon DEF Kept, HeldSlot, HasPre, WillDie
  <2>4. StateType' /\ ClaimsType' 
    BY <2>2, <2>3, BegunFacts, Zenon DEF StateType, ClaimsType, HeldSlot
  <2>4a. FlagsType'
    BY Zenon DEF FlagsType
  <2>5. ControlType'
    BY ZenonT(60), <2>2 DEF ControlType, Functions, Continuations, States, Activities
  <2>6. ControlInv'
    BY <2>2, Zenon DEF ControlInv, ControlType, Continuations
  <2>7. PreemptingInv'
    BY <1>1, <2>2, <2>3, Zenon DEF PreemptingInv, ControlInv, ControlType, Continuations, HeldSlot, Discarded
  <2>8. FreeInv' /\ BackfillInv' /\ ClaimedInv'
    BY Zenon DEF FreeInv, FreeStates, BackfillInv, ClaimedInv
  <2> QED BY <2>4, <2>4a, <2>5, <2>6, <2>7, <2>8, Zenon
<1> QED BY ZenonT(60), <1>2, <1>3

(* leave_preempting_state() preserves IInv. *)
LEMMA LeavePreemptingInv == ASSUME IInv, LeavePreempting PROVE IInv'
<1> USE DEF LeavePreempting
<1>1. HeldSlot /\ r_destination = "none" /\ r_state = "preempting" /\ r_act \in {"vacating", "killing"}
  BY Zenon DEF ControlInv, PreemptingInv
<1>2. /\ NoPre' /\ r_destination' = "none"
      /\ \/ r_cur' = r_pre /\ r_pre.stream /\ Call("accept")
         \/ r_cur' = NoClaim /\ Change("owner", "idle")
  BY <1>1, Zenon DEF NoPre, HasPreemptingClaim
<1>3. StateType' /\ ClaimsType'
  BY <1>1, <1>2, FreshFacts, Zenon DEF StateType, ClaimsType, HeldSlot, HasPre, NoPre
<1>3a. FlagsType'
  BY Zenon DEF FlagsType
<1>4. ControlType'
  BY ZenonT(60), <1>2 DEF ControlType, Functions, States, Activities
<1>5. ControlInv'
  BY <1>1, <1>2, Zenon DEF ControlInv, Continuations
<1>6. PreemptingInv'
  BY <1>1, <1>2, Zenon DEF PreemptingInv, HeldSlot, HasPre, FreeSlot, Discarded
<1>7. FreeInv' /\ BackfillInv' /\ ClaimedInv'
  BY <1>1, Zenon DEF FreeInv, FreeStates, BackfillInv, ClaimedInv
<1> QED BY <1>3, <1>3a, <1>4, <1>5, <1>6, <1>7, Zenon

(* accept_request_claim() preserves IInv. *)
LEMMA AcceptClaimInv == ASSUME IInv, AcceptClaim PROVE IInv'
<1> USE DEF AcceptClaim
<1>1. /\ FreeSlot /\ r_cur.stream /\ r_state # "claimed"
      /\ r_state # "backfill" => r_destination = "none"
      /\ r_state = "backfill" => ~boinc /\ r_destination = "claimed"
  BY Zenon DEF ControlInv, FreeInv, FreeStates, BackfillInv, PreemptingInv, StateType, States
<1>2. /\ r_cur' = [r_cur EXCEPT !.stream = FALSE]
      /\ \/ Change("claimed", "idle") /\ UNCHANGED r_destination
         \/ /\ Change("owner", "idle")
            /\ r_state # "backfill" => r_destination' = "none"
            /\ r_state = "backfill" => r_destination' \in {"none", "owner"}
  BY <1>1, Zenon DEF FreeSlot, NoPre
<1>3. FreeSlot' /\ ~r_cur'.stream
  BY <1>1, <1>2, FreshStream, Zenon DEF FreeSlot, NoPre
<1>4. StateType' /\ ClaimsType'
  BY <1>2, <1>3, FreshFacts, Zenon DEF StateType, ClaimsType, FreeSlot, NoPre
<1>5. FlagsType'
  BY Zenon DEF FlagsType
<1>6. ControlType'
  BY ZenonT(60), <1>2 DEF ControlType, Functions, States, Activities
<1>7. ControlInv'
  BY <1>1, <1>2, Zenon DEF ControlInv, Continuations
<1>8. FreeInv'
  BY <1>2, <1>3, Zenon DEF FreeInv, FreeStates
<1>9. BackfillInv'
  BY <1>1, <1>2, <1>3, Zenon DEF BackfillInv
<1>10. ClaimedInv' /\ PreemptingInv'
  BY <1>1, <1>2, <1>3, FreshFacts, Zenon DEF ClaimedInv, PreemptingInv, FreeSlot, Discarded
<1> QED BY <1>4, <1>5, <1>6, <1>7, <1>8, <1>9, <1>10, Zenon

------------------------------------------------------------------------------
(* eval(), and what callers do after a call returns *)

(* eval() of a claimed slot preserves IInv. *)
LEMMA EvalClaimedInv == ASSUME IInv, EvalClaimed PROVE IInv'
<1> USE DEF EvalClaimed, EvalUnchanged
<1>1. /\ HeldSlot /\ r_cur.leaseT /\ r_cur.client /\ r_act \in ClaimedActs
      /\ r_act # "suspended" => Sound(r_cur)
      /\ r_act = "idle" => ~r_cur.starter
  BY Zenon DEF ClaimedInv
<1>2. /\ \/ r_cur' = r_cur
         \/ r_cur' = [r_cur EXCEPT !.preemptTrue = TRUE, !.mayUnretire = FALSE]
      /\ \/ \E a \in {"vacating", "killing"} : Change("preempting", a)
         \/ \E a \in ClaimedActs \ {"idle"} :
               Change("claimed", a) /\ (a = "busy" => r_act # "busy")
         \/ Return /\ r_cur' = r_cur /\ (r_act = "busy" => ~HasPreemptingClaim)
      /\ rstate' \in {rstate, Restored}
  BY ZenonT(60) DEF RetirementOver, PreemptIsTrue, Unretire, ChangePreempting, ClaimedActs
<1>3. /\ Begun(r_cur') /\ r_cur'.leaseT /\ r_cur'.client /\ r_cur'.starter = r_cur.starter
      /\ Sound(r_cur) => Sound(r_cur')
  <2>1. CASE r_cur' = r_cur
    BY <1>1, <2>1, Zenon DEF HeldSlot
  <2>2. CASE r_cur' = [r_cur EXCEPT !.preemptTrue = TRUE, !.mayUnretire = FALSE]
    <3>1. Kept(r_cur, r_cur')
      BY ZenonT(60), <1>1, <2>2, KeptTerms DEF HeldSlot
    <3>2. r_cur'.leaseT = r_cur.leaseT /\ r_cur'.client = r_cur.client
      BY ZenonT(60), <1>1, <2>2 DEF HeldSlot, Begun, Claim
    <3> QED BY <1>1, <3>1, <3>2, Zenon DEF Kept
  <2> QED BY <1>2, <2>1, <2>2, Zenon
<1>4. HeldSlot' /\ (r_act # "suspended" => Sound(r_cur'))
  BY <1>1, <1>3, Zenon DEF HeldSlot, HasPre
<1>5. StateType' /\ ClaimsType'
  BY <1>3, BegunFacts, Zenon DEF StateType, ClaimsType
<1>6. FlagsType'
  BY <1>2, Zenon DEF FlagsType, Restored
<1>7. ControlType'
  BY ZenonT(60), <1>2 DEF ControlType, Functions, Continuations, States, Activities, ClaimedActs
<1>8. ControlInv'
  BY <1>2, Zenon DEF ControlInv, ControlType, Continuations
<1>9. ClaimedInv'
  <2>1. CASE Return
    BY <1>1, <1>2, <1>4, <2>1, Zenon
    DEF ClaimedInv, ControlType, Continuations, ControlInv, InRetirement, MayUnretire,
        HasPreemptingClaim
  <2>2. CASE \E a \in {"vacating", "killing"} : Change("preempting", a)
    BY <1>1, <1>3, <1>4, <2>2, Zenon DEF ClaimedInv, Continuations
  <2>3. CASE \E a \in ClaimedActs \ {"idle"} :
               Change("claimed", a) /\ (a = "busy" => r_act # "busy")
    BY <1>1, <1>3, <1>4, <2>3, Zenon DEF ClaimedInv, ClaimedActs, Continuations
  <2> QED BY ZenonT(60), <1>2, <2>1, <2>2, <2>3
<1>10. FreeInv' /\ BackfillInv' /\ PreemptingInv'
  BY Zenon DEF FreeInv, FreeStates, BackfillInv, PreemptingInv
<1> QED BY <1>5, <1>6, <1>7, <1>8, <1>9, <1>10, Zenon

(* eval() of a preempting slot preserves IInv. *)
LEMMA EvalPreemptingInv == ASSUME IInv, EvalPreempting PROVE IInv'
<1> USE DEF EvalPreempting, EvalUnchanged
<1>1. StateType' /\ ClaimsType' /\ FlagsType'
  BY DEF StateType, ClaimsType, FlagsType
<1>2. ControlType'
  BY ZenonT(60) DEF ControlType, Functions, Continuations, States, Activities
<1>3. ControlInv'
  BY Zenon DEF ControlInv, ControlType, Continuations
<1>4. PreemptingInv'
  BY Zenon DEF PreemptingInv, HeldSlot, HasPre, ControlInv, ControlType, Continuations
<1>5. FreeInv' /\ BackfillInv' /\ ClaimedInv'
  BY Zenon DEF FreeInv, FreeStates, BackfillInv, ClaimedInv
<1> QED BY <1>1, <1>2, <1>3, <1>4, <1>5, Zenon

(* eval() of a free slot preserves IInv. *)
LEMMA EvalFreeInv ==
  ASSUME IInv, EvalOwner \/ EvalMatched \/ EvalUnclaimed \/ EvalDrained
  PROVE  IInv'
<1>1. /\ r_state \in FreeStates /\ UNCHANGED <<r_state, r_destination, claims, boinc>>
      /\ fn = "eval"
      /\ \/ r_act' = r_act
         \/ r_state = "unclaimed" /\ r_act' = "benchmarking"
      /\ \/ \E s \in FreeStates : \E a \in {"idle", "retiring"} : Change(s, a)
         \/ Change("backfill", "idle")
         \/ Return \/ Call("eval")
  BY Zenon DEF EvalOwner, EvalMatched, EvalUnclaimed, EvalDrained, EvalUnchanged, FreeStates
<1>2. StateType'
  BY <1>1, Zenon DEF StateType, Activities
<1>2a. ClaimsType'
  BY <1>1, Zenon DEF ClaimsType
<1>3. FlagsType'
  BY ZenonT(60) DEF EvalOwner, EvalMatched, EvalUnclaimed, EvalDrained, EvalUnchanged, FlagsType,
         Restored, ResumeNormalOperation, drainVars
<1>4. ControlType'
  BY ZenonT(60), <1>1 DEF ControlType, Functions, Continuations, States, Activities, FreeStates
<1>5. ControlInv'
  BY <1>1, Zenon DEF ControlInv, ControlType, Continuations, FreeStates
<1>6. FreeInv'
  BY <1>1, Zenon DEF FreeInv, FreeStates, FreeSlot, NoPre, ControlInv, ControlType, Continuations
<1>7. BackfillInv' /\ ClaimedInv' /\ PreemptingInv'
  BY <1>1, Zenon DEF BackfillInv, ClaimedInv, PreemptingInv, FreeStates
<1> QED BY <1>2, <1>2a, <1>3, <1>4, <1>5, <1>6, <1>7, Zenon

(* eval() of a backfilling slot preserves IInv. *)
LEMMA EvalBackfillInv == ASSUME IInv, EvalBackfill PROVE IInv'
<1> USE DEF EvalBackfill, EvalUnchanged
<1>1. StateType' /\ ClaimsType'
  BY Zenon DEF StateType, ClaimsType
<1>2. FlagsType'
  BY ZenonT(60) DEF FlagsType
<1>3. ControlType'
  BY ZenonT(60) DEF ControlType, Functions, Continuations, States, Activities
<1>4. ControlInv'
  BY Zenon DEF ControlInv, ControlType, Continuations
<1>5. BackfillInv'
  BY Zenon DEF BackfillInv, FreeSlot, NoPre, ControlInv, ControlType, Continuations, FlagsType
<1>6. FreeInv' /\ ClaimedInv' /\ PreemptingInv'
  BY Zenon DEF FreeInv, FreeStates, ClaimedInv, PreemptingInv
<1> QED BY <1>1, <1>2, <1>3, <1>4, <1>5, <1>6, Zenon

------------------------------------------------------------------------------
(* What retire_claim's, suspend's and continue's callers do after change() *)
(* returns preserves IInv.                                                 *)
LEMMA SetFlagInv == ASSUME IInv, SetUnavail \/ SetUserSuspended PROVE IInv'
<1>1. /\ fn \in {"unavail", "userSuspended", "userContinued"}
      /\ Return /\ UNCHANGED <<resstate, claims, boinc, machine>>
  BY Zenon DEF SetUnavail, SetUserSuspended
<1>2. StateType' /\ ClaimsType'
  BY <1>1, Zenon DEF StateType, ClaimsType
<1>3. FlagsType'
  BY ZenonT(60) DEF SetUnavail, SetUserSuspended, FlagsType
<1>4. then = "ready" /\ ControlInv'
  BY <1>1, Zenon DEF ControlInv, Continuations
<1>4a. ControlType'
  BY ZenonT(60), <1>1, <1>4 DEF ControlType, Functions, Continuations, States, Activities
<1>5. FreeInv' /\ BackfillInv'
  BY <1>1, <1>4, Zenon DEF FreeInv, FreeStates, FreeSlot, NoPre, BackfillInv
<1>6. ClaimedInv' /\ PreemptingInv'
  BY <1>1, <1>4, Zenon DEF ClaimedInv, PreemptingInv, HeldSlot, HasPre, Continuations,
     InRetirement, MayUnretire, HasPreemptingClaim
<1> QED BY <1>2, <1>3, <1>4, <1>4a, <1>5, <1>6, Zenon

(* set_destination(owner) after killing the backfill client preserves      *)
(* IInv.                                                                   *)
LEMMA SetDestOwnerInv == ASSUME IInv, SetDestOwner PROVE IInv'
<1> USE DEF SetDestOwner
<1>1. r_state = "backfill" /\ r_act = "killing" /\ boinc /\ then = "ready" /\ FreeSlot
  BY Zenon DEF ControlInv, BackfillInv, Continuations
<1>2. r_destination' = "owner" /\ ChangeThen("backfill", "killing", "ready")
  BY <1>1, Zenon DEF SetDestination
<1>3. StateType' /\ ClaimsType'
  BY <1>1, <1>2, Zenon DEF StateType, ClaimsType
<1>4. FlagsType'
  BY Zenon DEF FlagsType
<1>5. ControlType'
  BY ZenonT(60), <1>2 DEF ControlType, Functions, Continuations, States, Activities
<1>6. ControlInv'
  BY <1>1, <1>2, Zenon DEF ControlInv, Continuations
<1>7. BackfillInv'
  BY <1>1, <1>2, Zenon DEF BackfillInv, FreeSlot, NoPre
<1>8. FreeInv' /\ ClaimedInv' /\ PreemptingInv'
  BY <1>1, Zenon DEF FreeInv, FreeStates, ClaimedInv, PreemptingInv
<1> QED BY <1>3, <1>4, <1>5, <1>6, <1>7, <1>8, Zenon

(* The reaper's change() after the claim forgot its starter preserves      *)
(* IInv.                                                                   *)
LEMMA StarterGoneInv == ASSUME IInv, StarterGone PROVE IInv'
<1> USE DEF StarterGone, ChangePreempting
<1>1. r_state \in {"claimed", "preempting"} /\ then = "ready" /\ HeldSlot /\ ~r_cur.starter
  BY Zenon DEF ControlInv, ClaimedInv, PreemptingInv, Continuations
<1>2. StateType' /\ ClaimsType' /\ FlagsType'
  BY DEF StateType, ClaimsType, FlagsType
<1>3. CASE r_state = "claimed"
  <2>1. \/ \E a \in {"vacating", "killing"} : Change("preempting", a)
        \/ Change("claimed", "idle")
    BY <1>3, Zenon DEF ClaimedInv
  <2>2. ControlType'
    BY ZenonT(60), <2>1, <1>1 DEF ControlType, Functions, Continuations, States, Activities
  <2>3. ControlInv'
    BY <1>1, <1>3, <2>1, Zenon DEF ControlInv, Continuations
  <2>4. ClaimedInv'
    BY <1>1, <1>3, <2>1, Zenon DEF ClaimedInv, ClaimedActs, HeldSlot, HasPre, Continuations
  <2>5. FreeInv' /\ BackfillInv' /\ PreemptingInv'
    BY <1>3, Zenon DEF FreeInv, FreeStates, BackfillInv, PreemptingInv
  <2> QED BY <1>2, <2>2, <2>3, <2>4, <2>5, Zenon
<1>4. CASE r_state = "preempting"
  <2>1. Call("leave_preempting")
    BY <1>4, Zenon
  <2>2. ControlType'
    BY ZenonT(60), <2>1, <1>1 DEF ControlType, Functions, Continuations, States, Activities
  <2>3. ControlInv'
    BY <1>1, <1>4, <2>1, Zenon DEF ControlInv, Continuations
  <2>4. PreemptingInv'
    BY <1>1, <1>4, <2>1, Zenon DEF PreemptingInv, HeldSlot, HasPre
  <2>5. FreeInv' /\ BackfillInv' /\ ClaimedInv'
    BY <1>4, Zenon DEF FreeInv, FreeStates, BackfillInv, ClaimedInv
  <2> QED BY <1>2, <2>2, <2>3, <2>4, <2>5, Zenon
<1> QED BY <1>1, <1>3, <1>4, Zenon

(* No step inside a handler drops a starter that still runs. *)
LEMMA HandlerStarter == ASSUME IInv, Handler PROVE StarterDropped
<1> SUFFICES ASSUME r_cur # NoClaim, r_cur.starter, ~r_cur.doomed
             PROVE  r_cur' # NoClaim /\ r_cur'.starter
  BY Zenon DEF StarterDropped
<1>1. r_state \in {"claimed", "preempting"}
  BY FreshFacts, Zenon
  DEF FreeInv, BackfillInv, FreeSlot, Discarded, StateType, States, FreeStates
<1>2. Begun(r_cur) /\ ~(fn = "enter" /\ r_state = "claimed" /\ statechange)
  <2>1. CASE r_state = "claimed"
    BY <2>1, FreshFacts, Zenon DEF ClaimedInv, FreeSlot, HeldSlot
  <2>2. CASE r_state = "preempting"
    BY <2>2, FreshFacts, Zenon DEF PreemptingInv, FreeSlot, HeldSlot, Discarded
  <2> QED BY <1>1, <2>1, <2>2, Zenon
<1>3. fn # "accept" /\ fn # "leave_preempting"
  BY <1>1, FreshFacts, Zenon DEF ControlInv, PreemptingInv, FreeSlot
<1>4. SUFFICES \/ r_cur' = r_cur
               \/ \E c : Kept(r_cur, c) /\ r_cur' = c
               \/ \E c : Begun(c) /\ c.starter /\ r_cur' \in {c, CancelLeaseTimer(c), StarterKillPg(c)}
  BY ZenonT(60), <1>2, BegunFacts, KeptTerms, KeptStarterKill DEF Kept
<1>5. CASE ChangeAborted
  <2>1. r_cur' = StarterKillPg(ResumeClaim(r_cur, FALSE))
    BY <1>5, Zenon DEF ChangeAborted
  <2>2. Begun(ResumeClaim(r_cur, FALSE)) /\ ResumeClaim(r_cur, FALSE).starter
    BY ZenonT(60), <1>2, KeptResume DEF Kept
  <2> QED BY ZenonT(60), <2>1, <2>2
<1>6. CASE ChangeMade
  <2>1. PICK ok \in BOOLEAN : r_cur' = LeaveAction(ok)
    BY ZenonT(60), <1>6 DEF ChangeMade, Signal
  <2> DEFINE c == IF LeavingSuspended THEN ResumeClaim(r_cur, ok) ELSE r_cur
  <2>2. Begun(c) /\ c.starter
    BY <1>2, KeptResume, Zenon DEF Kept
  <2>3. r_cur' \in {c, CancelLeaseTimer(c), StarterKillPg(c)}
    BY <2>1, Zenon DEF LeaveAction
  <2> HIDE DEF c
  <2> QED BY <2>2, <2>3, Zenon
<1>7. CASE EnterClaimed
  <2>1. \/ r_cur' = r_cur
        \/ \E ok \in BOOLEAN :
              r_cur' \in {SuspendClaim(r_cur, ok), StarterKillPg(SuspendClaim(r_cur, ok))}
    BY ZenonT(60), <1>7 DEF EnterClaimed
  <2>2. \A ok \in BOOLEAN : Begun(SuspendClaim(r_cur, ok)) /\ SuspendClaim(r_cur, ok).starter
    BY <1>2, SuspendBegun, Zenon
  <2> QED BY <2>1, <2>2, Zenon
<1>8. CASE EnterPreempting
  <2>1. \/ r_cur' = r_cur
        \/ \E soft, canHold, ok \in BOOLEAN : r_cur' = StarterHoldJob(r_cur, soft, canHold, ok)
        \/ \E ok \in BOOLEAN : r_cur' \in {StarterKillHard(r_cur, ok), StarterKillSoft(r_cur, ok)}
        \/ r_cur' = StarterKillPg(StarterKillSoft(r_cur, FALSE))
    BY ZenonT(60), <1>8 DEF EnterPreempting, HoldJob, Signal
  <2>2. \A soft, canHold, ok \in BOOLEAN : Kept(r_cur, StarterHoldJob(r_cur, soft, canHold, ok))
    BY <1>2, KeptHoldJob, Zenon
  <2>3. \A ok \in BOOLEAN : /\ Kept(r_cur, StarterKillHard(r_cur, ok))
                            /\ Kept(r_cur, StarterKillSoft(r_cur, ok))
    BY <1>2, KeptStarterKill, Zenon
  <2>4. Begun(StarterKillSoft(r_cur, FALSE)) /\ StarterKillSoft(r_cur, FALSE).starter
    BY ZenonT(60), <2>3 DEF Kept
  <2> QED BY ZenonT(60), <2>1, <2>2, <2>3, <2>4
<1>9. CASE EvalClaimed
  <2>1. \/ r_cur' = r_cur
        \/ r_cur' = [r_cur EXCEPT !.preemptTrue = TRUE, !.mayUnretire = FALSE]
    BY <1>9, Zenon DEF EvalClaimed, PreemptIsTrue
  <2>2. Kept(r_cur, [r_cur EXCEPT !.preemptTrue = TRUE, !.mayUnretire = FALSE])
    BY ZenonT(60), <1>2, KeptTerms
  <2> QED BY <2>1, <2>2, Zenon
<1>10. CASE EnterOwner \/ BeginClaimed \/ LeavePreempting \/ AcceptClaim
  BY <1>1, <1>2, <1>3, <1>10, Zenon DEF EnterOwner, BeginClaimed, LeavePreempting, AcceptClaim
<1>11. CASE ChangeNothing \/ EnterUnclaimed \/ EnterMatchedOrDrained \/ EnterBackfill
  BY <1>11, Zenon DEF ChangeNothing, EnterUnclaimed, EnterMatchedOrDrained, EnterBackfill
<1>12. CASE EvalPreempting \/ EvalOwner \/ EvalMatched \/ EvalUnclaimed \/ EvalBackfill
            \/ EvalDrained
  BY ZenonT(60), <1>12 DEF EvalPreempting, EvalOwner, EvalMatched, EvalUnclaimed, EvalBackfill,
               EvalDrained
<1>13. CASE SetUnavail \/ SetUserSuspended \/ SetDestOwner \/ StarterGone
  BY <1>13, Zenon DEF SetUnavail, SetUserSuspended, SetDestOwner, StarterGone
<1> QED BY <1>5, <1>6, <1>7, <1>8, <1>9, <1>10, <1>11, <1>12, <1>13, Zenon DEF Handler
==============================================================================
