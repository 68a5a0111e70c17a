----------------------- MODULE StartdSlotEvents_proofs -----------------------
(***************************************************************************)
(* IInv is preserved by every event the select loop serves.  Four step     *)
(* lemmas say what may follow an event in a free, a backfilling, a claimed *)
(* and a preempting slot; each event then only has to show what it does to *)
(* the claims.  They also show that no event drops a starter that still    *)
(* runs.                                                                   *)
(***************************************************************************)
EXTENDS StartdSlotHandlers_proofs

(* The plumbing of a step, expanded everywhere below. *)
USE DEF Jump, CallThen, ChangeThen, ReturnTo, Call, Change, Return,
        resstate, claims, machine, control, IInv, TypeOK

------------------------------------------------------------------------------

(* Functions that leave the slot as it is. *)
Calm == {"ready", "unavail", "userSuspended", "userContinued", "eval", "exited"}

(* The control an event leaves behind. *)
EventControl ==
    /\ ControlType' /\ then' \notin {"starterExited", "destOwner"}
    /\ fn' \in Continuations => then' = "ready"

(* What IInv says between two handlers. *)
LEMMA AtRest ==
  ASSUME IInv, Ready
  PROVE  /\ then = "ready"
         /\ r_state \in FreeStates => FreeSlot /\ ~r_cur.stream
         /\ r_state = "backfill" => FreeSlot
         /\ r_state \in {"claimed", "preempting"} => HeldSlot
         /\ r_state = "claimed" =>
               /\ r_cur.leaseT /\ r_cur.client /\ (r_act = "idle" => ~r_cur.starter)
               /\ r_act = "busy" => ~InRetirement
         /\ r_state = "preempting" => WillDie(r_cur)
<1>1. then = "ready"
  BY Zenon DEF Ready, ControlInv, Continuations
<1>2. /\ r_state \in FreeStates => FreeSlot /\ ~r_cur.stream
      /\ r_state = "backfill" => FreeSlot
  BY Zenon DEF Ready, FreeInv, BackfillInv
<1>3. r_state = "claimed" =>
         /\ HeldSlot /\ r_cur.leaseT /\ r_cur.client
         /\ r_act = "idle" => ~r_cur.starter
         /\ r_act = "busy" => ~InRetirement
  BY Zenon DEF Ready, ClaimedInv, Continuations
<1>4. r_state = "preempting" => HeldSlot /\ WillDie(r_cur)
  BY Zenon DEF Ready, PreemptingInv
<1> QED BY <1>1, <1>2, <1>3, <1>4, Zenon

(* An event of a free slot preserves IInv if it leaves a fresh claim and   *)
(* calls eval(), accept_request_claim() or a change between free states.   *)
LEMMA FreeStep ==
  ASSUME IInv, Ready, r_state \in FreeStates, FlagsType', EventControl,
         UNCHANGED <<r_state, r_act, r_destination, boinc, r_pre, r_pre_pre>>,
         Fresh(r_cur'),
         \/ fn' \in Calm /\ ~r_cur'.stream
         \/ fn' = "accept" /\ r_cur'.stream
         \/ /\ fn' = "change" /\ ~r_cur'.stream
            /\ to_state' \in FreeStates /\ to_act' = "idle"
  PROVE  IInv' /\ StarterDropped
<1>1. FreeSlot'
  BY AtRest, Zenon DEF FreeSlot, NoPre
<1>2. StateType' /\ ClaimsType'
  BY FreshFacts, Zenon DEF StateType, ClaimsType
<1>3. ControlInv'
  BY Zenon DEF ControlInv, Calm, EventControl, FreeStates, Continuations
<1>4. FreeInv'
  BY <1>1, Zenon DEF FreeInv, FreeStates, Calm
<1>5. BackfillInv' /\ ClaimedInv' /\ PreemptingInv'
  BY Zenon DEF BackfillInv, ClaimedInv, PreemptingInv, FreeStates
<1>6. StarterDropped
  BY AtRest, FreshFacts, Zenon DEF FreeSlot, StarterDropped
<1> QED BY <1>2, <1>3, <1>4, <1>5, <1>6, Zenon DEF EventControl

(* An event of a backfilling slot preserves IInv if the client is left     *)
(* alone or told to die with a destination set.                            *)
LEMMA BackfillStep ==
  ASSUME IInv, Ready, r_state = "backfill", FlagsType', EventControl,
         UNCHANGED <<r_state, r_act, r_pre, r_pre_pre>>, Fresh(r_cur'),
         \/ /\ fn' \in Calm /\ UNCHANGED <<r_destination, boinc>>
            /\ r_cur'.stream => r_cur.stream
         \/ /\ fn' = "change" /\ to_state' = "backfill" /\ to_act' = "killing"
            /\ UNCHANGED boinc /\ r_act # "idle"
            /\ r_destination' \in {"owner", "matched", "claimed"}
            /\ r_cur'.stream => r_destination' # "matched"
         \/ /\ fn' = "change" /\ to_state' = "backfill" /\ to_act' = "idle"
            /\ ~boinc' /\ r_act # "idle" /\ r_destination' = "none" /\ ~r_cur'.stream
         \/ /\ fn' = "change" /\ to_state' \in {"owner", "matched"} /\ to_act' = "idle"
            /\ ~boinc' /\ r_destination' \in {"none", to_state'}
            /\ r_cur'.stream => r_destination' = "owner"
         \/ /\ fn' = "accept" /\ r_cur'.stream /\ ~boinc' /\ r_destination' = "claimed"
  PROVE  IInv' /\ StarterDropped
<1>1. FreeSlot'
  BY AtRest, Zenon DEF FreeSlot, NoPre
<1>2. StateType' /\ ClaimsType'
  BY FreshFacts, Zenon DEF StateType, ClaimsType
<1>3. ControlInv'
  BY Zenon DEF ControlInv, Calm, EventControl, Continuations
<1>4. BackfillInv'
  BY <1>1, Zenon DEF BackfillInv, Calm, Ready
<1>5. FreeInv' /\ ClaimedInv' /\ PreemptingInv'
  BY Zenon DEF FreeInv, ClaimedInv, PreemptingInv, FreeStates
<1>6. StarterDropped
  BY AtRest, FreshFacts, Zenon DEF FreeSlot, StarterDropped
<1> QED BY <1>2, <1>3, <1>4, <1>5, <1>6, Zenon DEF EventControl

(* An event of a claimed slot preserves IInv if it keeps the claim, and    *)
(* the lease unless the slot is told to preempt.                           *)
LEMMA ClaimedStep ==
  ASSUME IInv, Ready, r_state = "claimed", FlagsType', EventControl,
         UNCHANGED <<r_state, r_act, r_destination, boinc>>,
         HasPre',
         Kept(r_cur, r_cur'),
         \/ /\ fn' = "change" /\ to_state' = "preempting"
            /\ to_act' \in {"vacating", "killing"}
         \/ /\ fn' = "change" /\ to_state' = "claimed"
            /\ to_act' \in ClaimedActs \ {"idle"}
            /\ to_act' = "busy" => r_act # "busy"
            /\ r_cur'.leaseT /\ r_cur'.client
         \/ /\ fn' \in Calm \ {"eval"} /\ r_cur'.leaseT /\ r_cur'.client
            /\ r_act = "busy" => ~InRetirement'
         \/ /\ fn' = "eval" /\ r_cur'.leaseT /\ r_cur'.client
            /\ r_act = "busy" /\ InRetirement' => HasPreemptingClaim'
  PROVE  IInv' /\ StarterDropped
<1>1. HeldSlot' /\ (r_act # "suspended" => Sound(r_cur')) /\ (r_act = "idle" => ~r_cur'.starter)
  BY AtRest, Zenon DEF HeldSlot, Kept, Ready, ClaimedInv
<1>2. StateType' /\ ClaimsType'
  BY <1>1, FreshFacts, BegunFacts, Zenon DEF StateType, ClaimsType, HeldSlot, HasPre
<1>3. ControlInv'
  BY Zenon DEF ControlInv, Calm, EventControl, Continuations
<1>4. ClaimedInv'
  BY <1>1, Zenon DEF ClaimedInv, Calm, Continuations, ClaimedActs, EventControl
<1>5. FreeInv' /\ BackfillInv' /\ PreemptingInv'
  BY Zenon DEF FreeInv, BackfillInv, PreemptingInv, FreeStates
<1>6. StarterDropped
  BY BegunFacts, Zenon DEF Kept, StarterDropped
<1> QED BY <1>2, <1>3, <1>4, <1>5, <1>6, Zenon DEF EventControl

(* An event of a preempting slot preserves IInv if it keeps the claim and  *)
(* its certain death.                                                      *)
LEMMA PreemptingStep ==
  ASSUME IInv, Ready, r_state = "preempting", FlagsType', EventControl,
         UNCHANGED <<r_state, r_act, r_destination, boinc>>,
         HasPre',
         Kept(r_cur, r_cur'),
         \/ fn' \in Calm
         \/ fn' = "change" /\ to_state' = "preempting" /\ to_act' = "killing"
  PROVE  IInv' /\ StarterDropped
<1>1. HeldSlot' /\ Sound(r_cur') /\ WillDie(r_cur')
  BY AtRest, Zenon DEF HeldSlot, Kept, Ready, PreemptingInv
<1>2. StateType' /\ ClaimsType'
  BY <1>1, FreshFacts, BegunFacts, Zenon DEF StateType, ClaimsType, HeldSlot, HasPre
<1>3. ControlInv'
  BY Zenon DEF ControlInv, Calm, EventControl, Continuations
<1>4. PreemptingInv'
  BY <1>1, Zenon DEF PreemptingInv, Calm
<1>5. FreeInv' /\ BackfillInv' /\ ClaimedInv'
  BY Zenon DEF FreeInv, BackfillInv, ClaimedInv, FreeStates
<1>6. StarterDropped
  BY BegunFacts, Zenon DEF Kept, StarterDropped
<1> QED BY <1>2, <1>3, <1>4, <1>5, <1>6, Zenon DEF EventControl

------------------------------------------------------------------------------

(* An event that calls nothing preserves IInv if it keeps the claims. *)
LEMMA QuietStep ==
  ASSUME IInv, Ready, FlagsType',
         UNCHANGED <<r_state, r_act, r_destination, boinc, control>>,
         Fresh(r_cur) => Fresh(r_cur') /\ (r_cur'.stream => r_cur.stream),
         Begun(r_cur) => /\ Kept(r_cur, r_cur')
                         /\ r_cur.leaseT => r_cur'.leaseT
                         /\ r_cur'.client = r_cur.client,
         NoPre => NoPre', HasPre => HasPre', ~InRetirement => ~InRetirement'
  PROVE  IInv' /\ StarterDropped
<1>1. EventControl /\ fn' = "ready" /\ fn' \in Calm
  BY AtRest, Zenon DEF EventControl, ControlType, Ready, Calm
<1>2. CASE r_state \in FreeStates
  <2>1. Fresh(r_cur') /\ ~r_cur'.stream /\ UNCHANGED <<r_pre, r_pre_pre>>
    BY <1>2, AtRest, Zenon DEF FreeSlot, NoPre
  <2> QED BY <1>1, <1>2, <2>1, FreeStep, Zenon
<1>3. CASE r_state = "backfill"
  <2>1. Fresh(r_cur') /\ (r_cur'.stream => r_cur.stream) /\ UNCHANGED <<r_pre, r_pre_pre>>
    BY <1>3, AtRest, Zenon DEF FreeSlot, NoPre
  <2> QED BY <1>1, <1>3, <2>1, BackfillStep, Zenon
<1>4. CASE r_state = "claimed"
  <2>1. /\ Kept(r_cur, r_cur') /\ r_cur'.leaseT /\ r_cur'.client /\ HasPre'
        /\ r_act = "busy" => ~InRetirement'
    BY <1>4, AtRest, Zenon DEF HeldSlot
  <2> QED BY <1>1, <1>4, <2>1, ClaimedStep, Zenon
<1>5. CASE r_state = "preempting"
  <2>1. Kept(r_cur, r_cur') /\ HasPre'
    BY <1>5, AtRest, Zenon DEF HeldSlot
  <2> QED BY <1>1, <1>5, <2>1, PreemptingStep, Zenon
<1> QED BY <1>2, <1>3, <1>4, <1>5, Zenon DEF StateType, States, FreeStates

(* Events that only touch the preempting claims. *)
LEMMA PreemptingClaimsInv ==
  ASSUME IInv,
         MatchPreempting \/ PreemptRefused \/ PreemptingMatchTimedOut \/ ReleasePreempting
  PROVE  IInv' /\ StarterDropped
<1> USE DEF MatchPreempting, PreemptRefused, PreemptingMatchTimedOut, ReleasePreempting,
            SlotOnly
<1>1. Ready /\ UNCHANGED <<r_state, r_act, r_destination, boinc, r_cur, draining, control>>
  BY Zenon
<1>2. FlagsType'
  BY DEF FlagsType, Restored
<1>3. ~NoPre
  BY <1>1, AtRest, FreshFacts, Zenon DEF HeldSlot, HasPre, NoPre
<1>4. ASSUME HasPre PROVE HasPre' /\ (r_pre'.stream => r_pre.stream)
  <2>1. r_pre # NoClaim /\ (r_pre_pre # NoClaim => Fresh(r_pre_pre) /\ ~r_pre_pre.stream)
    BY <1>4, FreshFacts, Zenon DEF HasPre
  <2>2. CASE r_pre' = NewClaim /\ r_pre_pre' = NoClaim
    BY <2>2, NewClaimFresh, Zenon DEF HasPre
  <2>3. CASE r_pre' = r_pre /\ r_pre_pre # NoClaim /\ r_pre_pre' = NewClaim
    BY <1>4, <2>3, NewClaimFresh, Zenon DEF HasPre
  <2>4. CASE r_pre' = [r_pre EXCEPT !.matchT = TRUE] /\ r_pre_pre' = r_pre_pre
    BY ZenonT(60), <1>4, <2>4, FreshMatch DEF HasPre
  <2>5. CASE r_pre' = r_pre /\ r_pre_pre # NoClaim /\ r_pre_pre' = [r_pre_pre EXCEPT !.matchT = TRUE]
    BY ZenonT(60), <1>4, <2>1, <2>5, FreshMatch DEF HasPre
  <2> QED BY <2>2, <2>3, <2>4, <2>5, Zenon
<1>5. HasPre
  BY <1>1, <1>3, AtRest, FreshFacts, Zenon DEF HeldSlot, FreeSlot, NoPre, StateType, States, FreeStates
<1>6. ~InRetirement => ~InRetirement'
  BY <1>1, <1>4, <1>5, FreshFacts, Zenon DEF InRetirement, MayUnretire, HasPreemptingClaim, HasPre
<1>7. Begun(r_cur) => Kept(r_cur, r_cur')
  BY <1>1, Zenon DEF Kept
<1> QED BY <1>1, <1>2, <1>3, <1>4, <1>5, <1>6, <1>7, QuietStep, Zenon

(* Events that only touch the current claim. *)
LEMMA CurrentClaimInv ==
  ASSUME IInv,
         \/ GotAlive \/ SendAlive
         \/ SoftkillTimeout \/ SigkillStarter \/ HoldJobCallback
  PROVE  IInv' /\ StarterDropped
<1> USE DEF GotAlive, SendAlive, SoftkillTimeout, SigkillStarter, HoldJobCallback, SlotOnly
<1>1. /\ Ready
      /\ UNCHANGED <<r_state, r_act, r_destination, boinc, r_pre, r_pre_pre, draining, control>>
  BY Zenon
<1>2. FlagsType'
  BY DEF FlagsType
<1>3. ~Fresh(r_cur)
  BY <1>1, FreshFacts, AtRest, Zenon DEF HeldSlot
<1>4. ASSUME Begun(r_cur)
      PROVE  /\ Kept(r_cur, r_cur') /\ (r_cur.leaseT => r_cur'.leaseT)
             /\ r_cur'.client = r_cur.client /\ r_cur'.mayUnretire = r_cur.mayUnretire
  <2>1. CASE GotAlive
    BY ZenonT(60), <1>4, <2>1, KeptAlive
  <2>2. CASE SendAlive
    BY ZenonT(60), <1>4, <2>2, KeptAliveSock DEF SameTerms
  <2>3. CASE SoftkillTimeout \/ SigkillStarter
    <3>1. r_cur.starter
      BY <1>4, <2>3, BegunFacts, Zenon
    <3>2. CASE SoftkillTimeout
      <4>1. PICK ok \in BOOLEAN : r_cur' = KillHard([r_cur EXCEPT !.softT = FALSE], ok)
        BY <3>2, Zenon
      <4> QED BY <1>4, <3>1, <4>1, KeptSoftkill, Zenon DEF SameTerms
    <3>3. CASE SigkillStarter
      BY <1>4, <3>1, <3>3, KeptSigkill, Zenon DEF SameTerms
    <3> QED BY ZenonT(60), <2>3, <3>2, <3>3
  <2>4. CASE HoldJobCallback
    BY ZenonT(60), <1>4, <2>4, KeptHoldCb DEF SameTerms
  <2> QED BY ZenonT(60), <2>1, <2>2, <2>3, <2>4
<1>5. ~InRetirement => ~InRetirement'
  <2>1. Begun(r_cur) \/ ~Begun(r_cur)
    BY Zenon
  <2>2. Begun(r_cur)
    BY <1>1, <1>3, AtRest, Zenon DEF HeldSlot, FreeSlot, StateType, States, FreeStates
  <2> QED BY <1>1, <1>4, <2>2, Zenon DEF InRetirement, MayUnretire, HasPreemptingClaim
<1>6. (NoPre => NoPre') /\ (HasPre => HasPre')
  BY <1>1, Zenon DEF NoPre, HasPre
<1> QED BY <1>1, <1>2, <1>3, <1>4, <1>5, <1>6, QuietStep, Zenon

(* A refused activation and cancelDraining() preserve IInv. *)
LEMMA QuietInv == ASSUME IInv, ActivateRefused \/ CancelDraining PROVE IInv' /\ StarterDropped
<1> USE DEF ActivateRefused, CancelDraining, ResumeNormalOperation, SlotOnly
<1>1. Ready /\ UNCHANGED <<r_state, r_act, r_destination, boinc, claims, control>>
  BY Zenon
<1>2. FlagsType'
  BY ZenonT(60) DEF FlagsType, Restored
<1>3. ~InRetirement => ~InRetirement'
  BY <1>1, Zenon DEF InRetirement, MayUnretire, HasPreemptingClaim
<1>4. (NoPre => NoPre') /\ (HasPre => HasPre') /\ (Begun(r_cur) => Kept(r_cur, r_cur'))
  BY <1>1, Zenon DEF NoPre, HasPre, Kept
<1> QED BY <1>1, <1>2, <1>3, <1>4, QuietStep, Zenon

(* A schedd that closes the request socket preserves IInv. *)
LEMMA RequestSockClosedInv == ASSUME IInv, RequestSockClosed PROVE IInv' /\ StarterDropped
<1> USE DEF RequestSockClosed, SlotOnly
<1>1. Ready /\ UNCHANGED <<r_state, r_act, r_destination, boinc, draining, control>>
  BY Zenon
<1>2. FlagsType'
  BY Zenon DEF FlagsType
<1>3. CASE r_cur.stream /\ r_cur' = NewClaim /\ UNCHANGED <<r_pre, r_pre_pre>>
  <2>1. ~Begun(r_cur) /\ Fresh(r_cur)
    BY <1>1, <1>3, BegunFacts, AtRest, Zenon DEF HeldSlot, FreeSlot, StateType, States, FreeStates
  <2>2. Fresh(r_cur') /\ ~r_cur'.stream
    BY <1>3, NewClaimFresh, Zenon
  <2>3. ~InRetirement => ~InRetirement'
    BY <1>1, <1>3, NewClaimFresh DEF InRetirement, MayUnretire, HasPreemptingClaim
  <2>4. (NoPre => NoPre') /\ (HasPre => HasPre')
    BY <1>3, Zenon DEF NoPre, HasPre
  <2> QED BY <1>1, <1>2, <2>1, <2>2, <2>3, <2>4, QuietStep, Zenon
<1>4. CASE HasPreemptingClaim /\ r_pre' = NewClaim /\ r_pre_pre' = NoClaim /\ UNCHANGED r_cur
  <2>1. HasPre' /\ ~NoPre
    BY <1>4, NewClaimFresh, Zenon DEF HasPre, NoPre, HasPreemptingClaim
  <2>2. ~InRetirement => ~InRetirement'
    BY <1>1, <1>4, Zenon DEF InRetirement
  <2>3. Begun(r_cur) => Kept(r_cur, r_cur')
    BY <1>4, Zenon DEF Kept
  <2> QED BY <1>1, <1>2, <1>4, <2>1, <2>2, <2>3, QuietStep, Zenon
<1> QED BY <1>3, <1>4, Zenon

------------------------------------------------------------------------------

(* set_destination() between handlers in Backfill. *)
LEMMA BackfillDestination ==
  ASSUME IInv, Ready, r_state = "backfill", FlagsType',
         UNCHANGED <<r_state, r_act, boinc, r_pre, r_pre_pre>>, Fresh(r_cur'),
         NEW d \in {"owner", "matched", "claimed"}, NEW k \in {"ready", "unavail"},
         SetDestination(d, k),
         d = "claimed" => r_cur'.stream,
         d = "matched" => r_destination = "none" /\ ~r_cur'.stream
  PROVE  IInv' /\ StarterDropped
<1>1. /\ r_destination' = d
      /\ r_act = "idle" /\ d = "claimed" => CallThen("accept", k)
      /\ r_act = "idle" /\ d # "claimed" => ChangeThen(d, "idle", k)
      /\ r_act # "idle" => ChangeThen("backfill", "killing", k)
  BY ZenonT(60) DEF SetDestination
<1>2. r_act = "idle" => ~boinc'
  BY Zenon DEF Ready, BackfillInv
<1>3. ControlType'
  BY ZenonT(60), <1>1 DEF ControlType, Functions, Continuations, States, Activities
<1>4. EventControl
  BY <1>1, <1>3, Zenon DEF EventControl, Continuations
<1>5. CASE r_act = "idle"
  <2>1. r_cur'.stream /\ d # "claimed" => d = "owner"
    BY Zenon
  <2> QED BY <1>1, <1>2, <1>4, <1>5, <2>1, BackfillStep, Zenon
<1>6. CASE r_act # "idle"
  BY <1>1, <1>4, <1>6, BackfillStep, Zenon
<1> QED BY <1>5, <1>6, Zenon

(* Resource::retire_claim() preserves IInv. *)
LEMMA RetireClaimInv ==
  ASSUME IInv, Ready, FlagsType', UNCHANGED <<r_state, r_act, boinc, r_pre, r_pre_pre>>,
         NEW reversible \in BOOLEAN, NEW ok \in BOOLEAN, NEW k \in {"ready", "unavail"},
         RetireClaim(reversible, ok, k)
  PROVE  IInv' /\ StarterDropped
<1> USE DEF RetireClaim, EndClaim
<1>1. CASE r_state = "claimed"
  <2>1. /\ r_cur' = [r_cur EXCEPT !.mayUnretire = @ /\ reversible]
        /\ ChangeThen("claimed", "retiring", k) /\ UNCHANGED r_destination
    BY <1>1, Zenon
  <2>2. Begun(r_cur) /\ HasPre' /\ r_cur.leaseT /\ r_cur.client
    BY <1>1, AtRest, Zenon DEF HeldSlot, HasPre
  <2>3. Kept(r_cur, r_cur') /\ r_cur'.leaseT /\ r_cur'.client
    <3>1. PICK b \in BOOLEAN : r_cur' = [r_cur EXCEPT !.mayUnretire = b]
      BY ZenonT(60), <2>1
    <3>2. Kept(r_cur, r_cur')
      BY ZenonT(60), <2>2, <3>1, KeptTerms
    <3> QED BY <2>2, <3>1, <3>2, Zenon DEF Begun, Claim
  <2>4. ControlType'
    BY ZenonT(60), <2>1 DEF ControlType, Functions, Continuations, States, Activities
  <2>5. EventControl
    BY <2>1, <2>4, Zenon DEF EventControl, Continuations
  <2> QED BY <1>1, <2>1, <2>2, <2>3, <2>5, ClaimedStep, Zenon DEF ClaimedActs
<1>2. CASE r_state = "backfill"
  <2>1. UNCHANGED r_cur /\ SetDestination("owner", k)
    BY <1>2, Zenon
  <2>2. Fresh(r_cur')
    BY <1>2, <2>1, AtRest, Zenon DEF FreeSlot
  <2> QED BY <1>2, <2>1, <2>2, BackfillDestination, Zenon
<1>3. CASE r_state = "preempting"
  <2>1. r_cur' = StarterKillSoft(r_cur, ok) /\ ReturnTo(k) /\ UNCHANGED r_destination
    BY <1>3, Zenon
  <2>2. HasPre' /\ Kept(r_cur, r_cur')
    BY <1>3, <2>1, AtRest, KeptStarterKill, Zenon DEF HeldSlot, HasPre
  <2>3. ControlType'
    BY ZenonT(60), <2>1 DEF ControlType, Functions, Continuations, States, Activities
  <2>4. EventControl /\ fn' \in Calm
    BY <2>1, <2>3, Zenon DEF EventControl, Continuations, Calm
  <2> QED BY <1>3, <2>1, <2>2, <2>4, PreemptingStep, Zenon
<1>4. CASE r_state \in FreeStates
  <2>1. FreeSlot /\ ~r_cur.stream /\ ~r_cur.starter
    BY <1>4, AtRest, FreshFacts, Zenon DEF FreeSlot
  <2>2. /\ r_cur' = r_cur /\ UNCHANGED r_destination
        /\ ReturnTo(k) \/ ChangeThen("owner", "idle", k)
    BY <1>4, <2>1, Zenon DEF FreeStates, StarterKillSoft
  <2>3. ControlType'
    BY ZenonT(60), <2>2 DEF ControlType, Functions, Continuations, States, Activities
  <2>4. EventControl /\ (fn' = "change" \/ fn' \in Calm)
    BY <2>2, <2>3, Zenon DEF EventControl, Continuations, Calm
  <2>5. fn' = "change" => to_state' \in FreeStates /\ to_act' = "idle"
    BY <2>2, Zenon DEF FreeStates
  <2> QED BY <1>4, <2>1, <2>2, <2>4, <2>5, FreeStep, Zenon DEF FreeSlot
<1> QED BY <1>1, <1>2, <1>3, <1>4, Zenon DEF StateType, States, FreeStates

(* Resource::kill_claim() preserves IInv. *)
LEMMA KillClaimInv ==
  ASSUME IInv, Ready, FlagsType', UNCHANGED <<r_state, r_act, boinc, r_pre, r_pre_pre>>,
         NEW c, NEW ok \in BOOLEAN, NEW k \in {"ready", "unavail"},
         Fresh(r_cur) => c = r_cur, Begun(r_cur) => Kept(r_cur, c),
         KillClaim(c, ok, k)
  PROVE  IInv' /\ StarterDropped
<1> USE DEF KillClaim, EndClaim
<1>1. CASE r_state \in {"claimed", "preempting"}
  <2>1. r_cur' = c /\ ChangeThen("preempting", "killing", k) /\ UNCHANGED r_destination
    BY <1>1, Zenon
  <2>2. HasPre' /\ Kept(r_cur, r_cur')
    BY <1>1, <2>1, AtRest, Zenon DEF HeldSlot, HasPre
  <2>3. ControlType'
    BY ZenonT(60), <2>1 DEF ControlType, Functions, Continuations, States, Activities
  <2>4. EventControl
    BY <2>1, <2>3, Zenon DEF EventControl, Continuations
  <2> QED BY <1>1, <2>1, <2>2, <2>4, ClaimedStep, PreemptingStep, Zenon
<1>2. CASE r_state = "backfill"
  <2>1. UNCHANGED r_cur /\ SetDestination("owner", k)
    BY <1>2, Zenon
  <2>2. Fresh(r_cur')
    BY <1>2, <2>1, AtRest, Zenon DEF FreeSlot
  <2> QED BY <1>2, <2>1, <2>2, BackfillDestination, Zenon
<1>3. CASE r_state \in FreeStates
  <2>1. FreeSlot /\ ~r_cur.stream /\ ~r_cur.starter /\ c = r_cur
    BY <1>3, AtRest, FreshFacts, Zenon DEF FreeSlot
  <2>2. /\ r_cur' = r_cur /\ UNCHANGED r_destination
        /\ ReturnTo(k) \/ ChangeThen("owner", "idle", k)
    BY <1>3, <2>1, Zenon DEF FreeStates, StarterKillHard
  <2>3. ControlType'
    BY ZenonT(60), <2>2 DEF ControlType, Functions, Continuations, States, Activities
  <2>4. EventControl /\ (fn' = "change" \/ fn' \in Calm)
    BY <2>2, <2>3, Zenon DEF EventControl, Continuations, Calm
  <2>5. fn' = "change" => to_state' \in FreeStates /\ to_act' = "idle"
    BY <2>2, Zenon DEF FreeStates
  <2> QED BY <1>3, <2>1, <2>2, <2>4, <2>5, FreeStep, Zenon DEF FreeSlot
<1> QED BY <1>1, <1>2, <1>3, Zenon DEF StateType, States, FreeStates

(* The commands that end a claim (vacate, fast vacate) preserve IInv. *)
LEMMA VacateInv == ASSUME IInv, Vacate PROVE IInv' /\ StarterDropped
<1> USE DEF Vacate, SlotOnly
<1>1. FlagsType' /\ then = "ready" /\ Ready /\ UNCHANGED <<r_state, r_act, boinc, r_pre, r_pre_pre>>
  BY AtRest, Zenon DEF FlagsType
<1>2. PICK ok \in BOOLEAN : RetireClaim(FALSE, ok, "ready") \/ KillClaim(r_cur, ok, "ready")
  BY ZenonT(60), <1>1, SignalType
<1>3. CASE RetireClaim(FALSE, ok, "ready")
  BY ZenonT(60), <1>1, <1>3, RetireClaimInv
<1>4. CASE KillClaim(r_cur, ok, "ready")
  BY <1>1, <1>4, KeptSelf, KillClaimInv, Zenon
<1> QED BY ZenonT(60), <1>2, <1>3, <1>4

(* Draining and the startd's shutdown preserve IInv. *)
LEMMA DrainOrShutdownInv == ASSUME IInv, StartDraining \/ Shutdown PROVE IInv' /\ StarterDropped
<1> USE DEF StartDraining, Shutdown
<1>1. FlagsType'
  BY ZenonT(60) DEF FlagsType
<1>2. Ready /\ UNCHANGED <<r_state, r_act, boinc, r_pre, r_pre_pre>>
  BY Zenon
<1>3. PICK ok \in BOOLEAN :
         \/ RetireClaim(TRUE, ok, "unavail") \/ RetireClaim(FALSE, ok, "unavail")
         \/ KillClaim(r_cur, ok, "unavail")
  BY ZenonT(60), SignalType
<1>4. CASE RetireClaim(TRUE, ok, "unavail") \/ RetireClaim(FALSE, ok, "unavail")
  BY ZenonT(60), <1>1, <1>2, <1>4, RetireClaimInv
<1>5. CASE KillClaim(r_cur, ok, "unavail")
  BY <1>1, <1>2, <1>5, KeptSelf, KillClaimInv, Zenon
<1> QED BY ZenonT(60), <1>3, <1>4, <1>5

(* An alive message's answer and the lease timer preserve IInv. *)
LEMMA LeaseInv == ASSUME IInv, AliveResponse \/ LeaseExpired PROVE IInv' /\ StarterDropped
<1> USE DEF AliveResponse, LeaseExpired, SlotOnly
<1>1. FlagsType' /\ Ready /\ UNCHANGED <<r_state, r_act, boinc, r_pre, r_pre_pre, draining>>
  BY Zenon DEF FlagsType
<1>2. Begun(r_cur) /\ ~Fresh(r_cur) /\ then = "ready"
  BY <1>1, AtRest, FreshFacts, Zenon DEF FreeSlot, HeldSlot, StateType, States, FreeStates
<1> DEFINE done == [r_cur EXCEPT !.aliveSock = FALSE]
<1>3. Kept(r_cur, done) /\ SameTerms(r_cur, done) /\ Begun(done)
  BY ZenonT(60), <1>2, KeptAliveSock DEF Kept
<1>4. CASE (r_cur' = done \/ r_cur' = Alive(done)) /\ Return /\ UNCHANGED r_destination
  <2>1. /\ Kept(r_cur, r_cur') /\ r_cur'.client = r_cur.client
        /\ r_cur.leaseT => r_cur'.leaseT
        /\ r_cur'.mayUnretire = r_cur.mayUnretire
    <3>1. CASE r_cur' = done
      BY <1>3, <3>1, Zenon DEF SameTerms
    <3>2. CASE r_cur' = Alive(done)
      BY ZenonT(60), <1>3, <3>2, KeptAlive DEF SameTerms, Kept
    <3> QED BY <1>4, <3>1, <3>2, Zenon
  <2>2. ControlType' /\ EventControl /\ fn' = "ready" /\ fn' \in Calm
    BY ZenonT(60), <1>2, <1>4 DEF EventControl, ControlType, Functions, Continuations, States, Activities, Calm
  <2>3. ~InRetirement => ~InRetirement'
    BY <1>1, <2>1, Zenon DEF InRetirement, MayUnretire, HasPreemptingClaim
  <2>4. r_state \in {"claimed", "preempting"} /\ HasPre'
    BY <1>1, <1>2, AtRest, FreshFacts, Zenon DEF FreeSlot, HeldSlot, HasPre, StateType, States, FreeStates
  <2> QED BY <1>1, <1>4, <2>1, <2>2, <2>3, <2>4, AtRest, ClaimedStep, PreemptingStep, Zenon
<1>5. ASSUME NEW c, Kept(r_cur, c), FinishKillClaim(c) PROVE IInv' /\ StarterDropped
  <2>1. Begun(c)
    BY <1>5, Zenon DEF Kept
  <2>2. PICK ok \in BOOLEAN : KillClaim([c EXCEPT !.client = FALSE], ok, "ready")
    BY <1>2, <1>5, SignalType DEF FinishKillClaim
  <2>3. Kept(c, [c EXCEPT !.client = FALSE])
    BY ZenonT(60), <2>1, KeptTerms
  <2>4. Kept(r_cur, [c EXCEPT !.client = FALSE])
    BY <1>5, <2>3, Zenon DEF Kept
  <2> QED BY <1>1, <1>2, <2>2, <2>4, KillClaimInv, Zenon
<1>6. Kept(r_cur, [r_cur EXCEPT !.leaseT = FALSE])
  BY ZenonT(60), <1>2, KeptTerms
<1> QED BY ZenonT(60), <1>3, <1>4, <1>5, <1>6

------------------------------------------------------------------------------

(* Polling the policy and the end of the benchmarks preserve IInv. *)
LEMMA PollInv == ASSUME IInv, Poll \/ CheckFree \/ BenchmarksFinished PROVE IInv' /\ StarterDropped
<1> USE DEF Poll, CheckFree, BenchmarksFinished
<1>1. /\ Ready /\ UNCHANGED <<resstate, claims, boinc, machine>>
      /\ \/ fn' \in {"eval", "exited"} /\ fn' \in Calm
         \/ r_act = "benchmarking" /\ fn' = "change" /\ to_state' = r_state /\ to_act' = "idle"
  BY Zenon DEF Calm
<1>2. FlagsType' /\ then' = "ready"
  BY AtRest, Zenon DEF FlagsType
<1>3. ControlType'
  BY ZenonT(60), <1>2 DEF ControlType, Functions, Continuations, States, Activities, StateType
<1>4. EventControl
  BY <1>2, <1>3, Zenon DEF EventControl, Continuations
<1>5. CASE r_state \in FreeStates
  BY <1>1, <1>2, <1>4, <1>5, AtRest, FreeStep, Zenon DEF FreeSlot
<1>6. CASE r_state = "backfill"
  <2>1. r_act # "benchmarking"
    BY <1>6, Zenon DEF BackfillInv
  <2> QED BY <1>1, <1>2, <1>4, <1>6, <2>1, AtRest, BackfillStep, Zenon DEF FreeSlot
<1>7. CASE r_state = "claimed"
  <2>1. r_act # "benchmarking" /\ (r_act = "busy" => ~InRetirement')
    BY <1>1, <1>7, AtRest, Zenon
    DEF ClaimedInv, ClaimedActs, InRetirement, MayUnretire, HasPreemptingClaim
  <2>2. HasPre' /\ Kept(r_cur, r_cur') /\ r_cur'.leaseT /\ r_cur'.client
    BY <1>1, <1>7, AtRest, KeptSelf, Zenon DEF HeldSlot, HasPre
  <2> QED BY <1>1, <1>2, <1>4, <1>7, <2>1, <2>2, ClaimedStep, Zenon
<1>8. CASE r_state = "preempting"
  <2>1. r_act # "benchmarking"
    BY <1>8, Zenon DEF PreemptingInv
  <2>2. HasPre' /\ Kept(r_cur, r_cur')
    BY <1>1, <1>8, AtRest, KeptSelf, Zenon DEF HeldSlot, HasPre
  <2> QED BY <1>1, <1>2, <1>4, <1>8, <2>1, <2>2, PreemptingStep, Zenon
<1> QED BY <1>5, <1>6, <1>7, <1>8, Zenon DEF StateType, States, FreeStates

(* The negotiator's match of a slot that is not claimed. *)
LEMMA MatchCurrentInv == ASSUME IInv, MatchCurrent PROVE IInv' /\ StarterDropped
<1>1. /\ Ready /\ then = "ready" /\ UNCHANGED <<r_state, r_act, boinc, r_pre, r_pre_pre>>
      /\ r_state \in {"owner", "unclaimed", "backfill"} /\ r_destination = "none"
      /\ r_cur' = [r_cur EXCEPT !.matchT = TRUE]
  BY AtRest, Zenon DEF MatchCurrent, SlotOnly
<1>2. FlagsType'
  BY Zenon DEF MatchCurrent, SlotOnly, FlagsType
<1>3. Fresh(r_cur') /\ ~r_cur'.stream
  <2>1. Fresh(r_cur) /\ ~r_cur.stream
    BY <1>1, AtRest, Zenon DEF FreeSlot, FreeStates, BackfillInv
  <2> QED BY ZenonT(60), <1>1, <2>1, FreshMatch
<1>4. CASE r_state = "backfill"
  <2>1. SetDestination("matched", "ready")
    BY <1>1, <1>4, Zenon DEF MatchCurrent
  <2> QED BY <1>1, <1>2, <1>3, <1>4, <2>1, BackfillDestination, Zenon
<1>5. CASE r_state # "backfill"
  <2>1. Change("matched", "idle") /\ UNCHANGED r_destination
    BY <1>5, Zenon DEF MatchCurrent
  <2>2. ControlType'
    BY ZenonT(60), <1>1, <2>1 DEF ControlType, Functions, Continuations, States, Activities
  <2>3. EventControl
    BY <1>1, <2>1, <2>2, Zenon DEF EventControl, Continuations
  <2>4. to_state' \in FreeStates /\ r_state \in FreeStates
    BY <1>1, <1>5, <2>1, Zenon DEF FreeStates
  <2> QED BY <1>1, <1>2, <1>3, <2>1, <2>3, <2>4, FreeStep, Zenon
<1> QED BY <1>4, <1>5, Zenon

(* Requests to a slot that is not claimed. *)
LEMMA RequestRefusedInv == ASSUME IInv, RequestRefused PROVE IInv' /\ StarterDropped
<1>1. /\ Ready /\ then = "ready" /\ UNCHANGED <<r_state, r_act, boinc, r_pre, r_pre_pre>>
      /\ r_state \notin {"claimed", "preempting"}
  BY AtRest, Zenon DEF RequestRefused, SlotOnly
<1>2. FlagsType'
  BY Zenon DEF RequestRefused, SlotOnly, FlagsType, Restored
<1>3. Fresh(r_cur') /\ (r_cur'.stream => r_cur.stream)
  <2>1. Fresh(r_cur)
    BY <1>1, AtRest, Zenon DEF FreeSlot, StateType, States, FreeStates
  <2>2. r_cur' = NewClaim \/ r_cur' = [r_cur EXCEPT !.matchT = FALSE]
    BY Zenon DEF RequestRefused, AbortClaim
  <2> QED BY ZenonT(60), <2>1, <2>2, FreshMatch, NewClaimFresh
<1>4. CASE r_state = "backfill" /\ r_destination = "matched"
  <2>1. SetDestination("owner", "ready")
    BY <1>1, <1>4, Zenon DEF RequestRefused, AbortClaim
  <2> QED BY <1>1, <1>2, <1>3, <1>4, <2>1, BackfillDestination, Zenon
<1>5. CASE ~(r_state = "backfill" /\ r_destination = "matched")
  <2>1. /\ Return \/ (Change("owner", "idle") /\ r_state # "backfill")
        /\ UNCHANGED r_destination
    BY <1>5, Zenon DEF RequestRefused, AbortClaim
  <2>2. ControlType'
    BY ZenonT(60), <1>1, <2>1 DEF ControlType, Functions, Continuations, States, Activities
  <2>3. EventControl
    BY <1>1, <2>1, <2>2, Zenon DEF EventControl, Continuations
  <2>4. \/ fn' \in Calm
        \/ /\ fn' = "change" /\ r_state # "backfill"
           /\ to_state' \in FreeStates /\ to_act' = "idle"
    BY <1>1, <2>1, Zenon DEF Calm, FreeStates
  <2>5. CASE r_state = "backfill"
    BY <1>1, <1>2, <1>3, <2>1, <2>3, <2>4, <2>5, BackfillStep, Zenon
  <2>6. CASE r_state \in FreeStates
    BY <1>1, <1>2, <1>3, <2>1, <2>3, <2>4, <2>6, AtRest, FreeStep, Zenon
  <2> QED BY <1>1, <2>5, <2>6, Zenon DEF StateType, States, FreeStates
<1> QED BY <1>4, <1>5, Zenon

(* request_claim() granting an unclaimed slot preserves IInv. *)
LEMMA RequestAcceptedInv == ASSUME IInv, RequestAccepted PROVE IInv' /\ StarterDropped
<1>1. /\ Ready /\ then = "ready" /\ UNCHANGED <<r_state, r_act, boinc, r_pre, r_pre_pre>>
      /\ r_state \notin {"claimed", "preempting"}
  BY AtRest, Zenon DEF RequestAccepted, SlotOnly
<1>2. FlagsType'
  BY Zenon DEF RequestAccepted, SlotOnly, FlagsType, Restored
<1>3. Fresh(r_cur') /\ r_cur'.stream
  <2>1. Fresh(r_cur)
    BY <1>1, AtRest, Zenon DEF FreeSlot, StateType, States, FreeStates
  <2>2. PICK rank \in Ranks :
           r_cur' = [r_cur EXCEPT !.matchT = FALSE, !.stream = TRUE, !.rank = rank]
    BY ZenonT(60) DEF RequestAccepted
  <2> QED BY ZenonT(60), <2>1, <2>2, FreshRequest
<1>4. CASE r_state = "backfill"
  <2>1. SetDestination("claimed", "ready")
    BY <1>1, <1>4, Zenon DEF RequestAccepted
  <2> QED BY <1>1, <1>2, <1>3, <1>4, <2>1, BackfillDestination, Zenon
<1>5. CASE r_state \in FreeStates
  <2>1. Call("accept") /\ UNCHANGED r_destination
    BY <1>5, Zenon DEF RequestAccepted, FreeStates
  <2>2. ControlType'
    BY ZenonT(60), <1>1, <2>1 DEF ControlType, Functions, Continuations, States, Activities
  <2>3. EventControl
    BY <1>1, <2>1, <2>2, Zenon DEF EventControl, Continuations
  <2> QED BY <1>1, <1>2, <1>3, <1>5, <2>1, <2>3, FreeStep, Zenon
<1> QED BY <1>1, <1>4, <1>5, Zenon DEF StateType, States, FreeStates

(* match_timed_out() preserves IInv. *)
LEMMA MatchTimedOutInv == ASSUME IInv, MatchTimedOut PROVE IInv' /\ StarterDropped
<1> USE DEF MatchTimedOut, SlotOnly
<1>1. Ready /\ then = "ready" /\ UNCHANGED <<r_state, r_act, boinc, r_pre, r_pre_pre, draining>>
  BY AtRest, Zenon
<1>2. FlagsType'
  BY Zenon DEF FlagsType
<1>3. CASE r_state = "backfill"
  <2>1. Fresh(r_cur') /\ SetDestination("owner", "ready")
    BY ZenonT(60), <1>1, <1>3, AtRest, FreshMatch DEF FreeSlot
  <2> QED BY <1>1, <1>2, <1>3, <2>1, BackfillDestination, Zenon
<1>4. CASE r_state \in FreeStates
  <2>1. /\ Fresh(r_cur') /\ ~r_cur'.stream /\ UNCHANGED r_destination
        /\ Return \/ Change("owner", "idle")
    BY ZenonT(60), <1>1, <1>4, AtRest, FreshMatch, NewClaimFresh DEF FreeSlot, FreeStates
  <2>2. ControlType'
    BY ZenonT(60), <1>1, <2>1 DEF ControlType, Functions, Continuations, States, Activities
  <2>3. EventControl
    BY <1>1, <2>1, <2>2, Zenon DEF EventControl, Continuations
  <2>4. fn' \in Calm \/ (fn' = "change" /\ to_state' \in FreeStates /\ to_act' = "idle")
    BY <1>1, <2>1, Zenon DEF Calm, FreeStates
  <2> QED BY <1>1, <1>2, <1>4, <2>1, <2>3, <2>4, FreeStep, Zenon
<1>5. CASE r_state \in {"claimed", "preempting"}
  <2>1. r_cur' = [r_cur EXCEPT !.matchT = FALSE] /\ Return /\ UNCHANGED r_destination
    BY <1>5, Zenon
  <2>2. Begun(r_cur) /\ HasPre' /\ Kept(r_cur, r_cur') /\ SameTerms(r_cur, r_cur')
    BY <1>1, <1>5, <2>1, AtRest, KeptMatch, Zenon DEF HeldSlot, HasPre
  <2>3. ControlType' /\ EventControl /\ fn' = "ready" /\ fn' \in Calm
    BY ZenonT(60), <1>1, <2>1 DEF EventControl, ControlType, Functions, Continuations, States, Activities, Calm
  <2>4. ~InRetirement => ~InRetirement'
    BY <1>1, <2>2 DEF SameTerms, InRetirement, MayUnretire, HasPreemptingClaim
  <2>5. r_state = "claimed" => r_cur'.leaseT /\ r_cur'.client
    BY <1>1, <2>2, AtRest, Zenon DEF SameTerms
  <2> QED BY <1>1, <1>2, <1>5, <2>1, <2>2, <2>3, <2>4, <2>5, AtRest, ClaimedStep, PreemptingStep, Zenon
<1> QED BY <1>3, <1>4, <1>5, Zenon DEF StateType, States, FreeStates

------------------------------------------------------------------------------

(* request_claim() parking a better-ranked request preserves IInv. *)
LEMMA PreemptAcceptedInv == ASSUME IInv, PreemptAccepted PROVE IInv' /\ StarterDropped
<1> USE DEF PreemptAccepted, SlotOnly
<1>1. /\ Ready /\ then = "ready" /\ r_state = "claimed"
      /\ UNCHANGED <<r_state, r_act, r_destination, boinc, r_cur, draining>>
  BY AtRest, Zenon
<1>2. FlagsType'
  BY Zenon DEF FlagsType, Restored
<1>3. HeldSlot /\ r_cur.leaseT /\ r_cur.client /\ (r_act = "busy" => ~InRetirement)
  BY <1>1, AtRest, Zenon
<1>4. Kept(r_cur, r_cur') /\ r_cur'.leaseT /\ r_cur'.client
  BY <1>1, <1>3, KeptSelf, Zenon DEF HeldSlot
<1>5. \/ r_pre' = NewClaim /\ r_pre_pre' = NoClaim /\ UNCHANGED control
      \/ /\ Fresh(r_pre') /\ r_pre'.stream /\ r_pre_pre' = NewClaim /\ Call("eval")
  <2> DEFINE claim == IF r_pre_pre # NoClaim THEN r_pre_pre ELSE r_pre
  <2>1. Fresh(claim)
    BY <1>3, FreshFacts, Zenon DEF HeldSlot, HasPre
  <2>2. PICK rank \in Ranks :
           \/ r_pre' = NewClaim /\ r_pre_pre' = NoClaim /\ UNCHANGED control
           \/ /\ r_pre' = [claim EXCEPT !.matchT = FALSE, !.stream = TRUE, !.rank = rank]
              /\ r_pre_pre' = NewClaim /\ Call("eval")
    BY Zenon
  <2>3. LET d == [claim EXCEPT !.matchT = FALSE, !.stream = TRUE, !.rank = rank]
        IN  Fresh(d) /\ d.stream
    BY ZenonT(60), <2>1, FreshRequest
  <2> QED BY ZenonT(60), <2>2, <2>3
<1>6. HasPre'
  BY <1>5, NewClaimFresh, Zenon DEF HasPre
<1>7. CASE r_pre' = NewClaim /\ r_pre_pre' = NoClaim /\ UNCHANGED control
  <2>1. r_act = "busy" => ~InRetirement'
    BY <1>1, <1>3, <1>7, NewClaimFresh DEF InRetirement, MayUnretire, HasPreemptingClaim
  <2>2. EventControl /\ fn' \in Calm \ {"eval"}
    BY <1>1, <1>7, Zenon DEF EventControl, ControlType, Ready, Calm
  <2> QED BY <1>1, <1>2, <1>4, <1>6, <2>1, <2>2, ClaimedStep, Zenon
<1>8. CASE Fresh(r_pre') /\ r_pre'.stream /\ Call("eval")
  <2>1. HasPreemptingClaim'
    BY <1>8, FreshFacts, Zenon DEF HasPreemptingClaim
  <2>2. ControlType' /\ EventControl
    BY ZenonT(60), <1>1, <1>8 DEF EventControl, ControlType, Functions, Continuations, States, Activities
  <2> QED BY <1>1, <1>2, <1>4, <1>6, <1>8, <2>1, <2>2, ClaimedStep, Zenon
<1> QED BY ZenonT(60), <1>5, <1>7, <1>8

(* Activating a claim: the one event that adds a starter. *)
LEMMA ActivateClaimInv == ASSUME IInv, ActivateClaim PROVE IInv' /\ StarterDropped
<1> USE DEF ActivateClaim, SlotOnly
<1>1. /\ Ready /\ then = "ready" /\ r_state = "claimed" /\ r_act = "idle"
      /\ UNCHANGED <<r_state, r_act, r_destination, boinc, r_pre, r_pre_pre>>
      /\ ~r_cur.starter /\ HeldSlot /\ r_cur.client
  BY AtRest, Zenon
<1>2. FlagsType'
  BY Zenon DEF FlagsType, Restored
<1>3. PICK rank \in Ranks :
         LET c == Alive([r_cur EXCEPT !.rank = rank])
         IN  \/ r_cur' = SpawnStarter(c) /\ Change("claimed", "busy")
             \/ r_cur' = ResetClaim(c) /\ Return
  BY <1>1, Zenon
<1> DEFINE b == [r_cur EXCEPT !.rank = rank]
           c == Alive(b)
<1>4. Kept(r_cur, b) /\ SameTerms(r_cur, b) /\ Begun(b)
  BY <1>1, KeptRank, Zenon DEF HeldSlot, Kept
<1>5. Kept(b, c) /\ c.leaseT /\ c.client = b.client
  BY ZenonT(60), <1>4, KeptAlive
<1>6. Kept(r_cur, c) /\ Begun(c) /\ c.leaseT /\ c.client /\ ~c.starter
  BY <1>1, <1>4, <1>5, Zenon DEF Kept, SameTerms
<1> HIDE DEF c, b
<1>7. HasPre'
  BY <1>1, Zenon DEF HeldSlot, HasPre
<1>8. ControlType'
  BY ZenonT(60), <1>1, <1>3 DEF ControlType, Functions, Continuations, States, Activities
<1>9. EventControl
  BY <1>1, <1>3, <1>8, Zenon DEF EventControl, Continuations
<1>10. CASE r_cur' = SpawnStarter(c) /\ Change("claimed", "busy")
  <2>1. Begun(r_cur') /\ r_cur'.starter /\ Sound(r_cur') /\ r_cur'.leaseT /\ r_cur'.client
    BY <1>6, <1>10, SpawnBegun, Zenon DEF SameTerms
  <2>2. HeldSlot'
    BY <1>7, <2>1, Zenon DEF HeldSlot
  <2>3. StateType' /\ ClaimsType'
    BY <1>1, <2>1, BegunFacts, Zenon DEF StateType, ClaimsType
  <2>4. ControlInv'
    BY <1>1, <1>10 DEF ControlInv, Continuations
  <2>5. ClaimedInv'
    BY <1>1, <1>10, <2>1, <2>2 DEF ClaimedInv, ClaimedActs, Continuations
  <2>6. FreeInv' /\ BackfillInv' /\ PreemptingInv'
    BY <1>1, Zenon DEF FreeInv, FreeStates, BackfillInv, PreemptingInv
  <2>7. StarterDropped
    BY <1>1, Zenon DEF StarterDropped
  <2> QED BY <1>2, <1>8, <2>3, <2>4, <2>5, <2>6, <2>7, Zenon
<1>11. CASE r_cur' = ResetClaim(c) /\ Return
  <2>1. Kept(c, r_cur') /\ r_cur'.leaseT /\ r_cur'.client
    BY <1>6, <1>11, KeptReset, Zenon
  <2>2. Kept(r_cur, r_cur')
    BY <1>6, <2>1, Zenon DEF Kept
  <2>3. fn' \in Calm \ {"eval"}
    BY <1>1, <1>11, Zenon DEF Calm
  <2> QED BY <1>1, <1>2, <1>7, <1>9, <2>1, <2>2, <2>3, ClaimedStep, Zenon
<1> QED BY ZenonT(60), <1>3, <1>10, <1>11 DEF c, b

(* deactivate_claim() preserves IInv. *)
LEMMA DeactivateClaimInv == ASSUME IInv, DeactivateClaim PROVE IInv' /\ StarterDropped
<1> USE DEF DeactivateClaim, SlotOnly
<1>1. /\ Ready /\ then = "ready" /\ r_state = "claimed" /\ HeldSlot
      /\ UNCHANGED <<r_state, r_act, r_destination, boinc, r_pre, r_pre_pre, draining>>
      /\ r_cur.leaseT /\ r_cur.client /\ (r_act = "busy" => ~InRetirement)
  BY AtRest, Zenon
<1>2. FlagsType'
  BY Zenon DEF FlagsType
<1>3. PICK ok \in BOOLEAN : \E killed \in {r_cur, StarterKillHard(r_cur, ok), StarterKillSoft(r_cur, ok)} :
         \/ r_cur' = killed /\ Return
         \/ r_cur' = [killed EXCEPT !.closed = TRUE] /\ Change("preempting", "vacating")
  BY <1>1, SignalType DEF ReleaseClaim
<1>4. PICK killed \in {r_cur, StarterKillHard(r_cur, ok), StarterKillSoft(r_cur, ok)} :
         \/ r_cur' = killed /\ Return
         \/ r_cur' = [killed EXCEPT !.closed = TRUE] /\ Change("preempting", "vacating")
  BY <1>3, Zenon
<1>5. Kept(r_cur, killed) /\ SameTerms(r_cur, killed) /\ Begun(killed)
  <2>1. Begun(r_cur)
    BY <1>1, Zenon DEF HeldSlot
  <2>2. Kept(r_cur, killed) /\ SameTerms(r_cur, killed)
    BY <1>4, <2>1, KeptSelf, KeptStarterKill, Zenon
  <2> QED BY <2>2, Zenon DEF Kept
<1>6. HasPre'
  BY <1>1, Zenon DEF HeldSlot, HasPre
<1>7. ControlType'
  BY ZenonT(60), <1>1, <1>4 DEF ControlType, Functions, Continuations, States, Activities
<1>8. EventControl
  BY <1>1, <1>4, <1>7, Zenon DEF EventControl, Continuations
<1>9. CASE r_cur' = killed /\ Return
  <2>1. r_act = "busy" => ~InRetirement'
    BY <1>1, <1>5, <1>9 DEF SameTerms, InRetirement, MayUnretire, HasPreemptingClaim
  <2>2. Kept(r_cur, r_cur') /\ r_cur'.leaseT /\ r_cur'.client /\ fn' \in Calm \ {"eval"}
    BY ZenonT(60), <1>1, <1>5, <1>9 DEF SameTerms, Calm
  <2> QED BY <1>1, <1>2, <1>6, <1>8, <2>1, <2>2, ClaimedStep, Zenon
<1>10. CASE r_cur' = [killed EXCEPT !.closed = TRUE] /\ Change("preempting", "vacating")
  <2>1. Kept(killed, r_cur')
    BY <1>5, <1>10, KeptClosed, Zenon
  <2>2. Kept(r_cur, r_cur')
    BY <1>5, <2>1, Zenon DEF Kept
  <2> QED BY <1>1, <1>2, <1>6, <1>8, <1>10, <2>2, ClaimedStep, Zenon
<1> QED BY ZenonT(60), <1>4, <1>9, <1>10

(* release_claim() on the current claim preserves IInv. *)
LEMMA ReleaseCurrentInv == ASSUME IInv, ReleaseCurrent PROVE IInv' /\ StarterDropped
<1> USE DEF ReleaseCurrent, ReleaseClaim, SlotOnly
<1>1. /\ Ready /\ then = "ready" /\ r_state \in {"claimed", "matched"}
      /\ UNCHANGED <<r_state, r_act, r_destination, boinc, r_pre, r_pre_pre>>
  BY AtRest, Zenon
<1>2. FlagsType'
  BY Zenon DEF FlagsType
<1>3. ControlType'
  BY ZenonT(60), <1>1 DEF ControlType, Functions, Continuations, States, Activities
<1>4. EventControl
  BY <1>1, <1>3, Zenon DEF EventControl, Continuations
<1>5. CASE r_state = "claimed"
  <2>1. Kept(r_cur, r_cur') /\ HasPre'
    BY <1>1, <1>5, AtRest, KeptClosed, Zenon DEF HeldSlot, HasPre
  <2> QED BY <1>1, <1>2, <1>4, <1>5, <2>1, ClaimedStep, Zenon
<1>6. CASE r_state = "matched"
  <2>1. Fresh(r_cur') /\ ~r_cur'.stream
    BY <1>1, <1>6, AtRest, FreshClosed, Zenon DEF FreeSlot, FreeStates
  <2>2. fn' = "change" /\ to_state' \in FreeStates /\ to_act' = "idle" /\ r_state \in FreeStates
    BY <1>6, Zenon DEF FreeStates
  <2> QED BY <1>1, <1>2, <1>4, <2>1, <2>2, FreeStep, Zenon
<1> QED BY <1>1, <1>5, <1>6, Zenon

(* The suspend command preserves IInv. *)
LEMMA SuspendInv == ASSUME IInv, SuspendCommand PROVE IInv' /\ StarterDropped
<1> USE DEF SuspendCommand
<1>1. /\ Ready /\ r_state = "claimed" /\ UNCHANGED <<resstate, claims, boinc>>
      /\ HeldSlot /\ r_cur.leaseT /\ r_cur.client
  BY AtRest, Zenon
<1>2. FlagsType'
  BY Zenon DEF FlagsType
<1>3. ControlType' /\ EventControl
  BY ZenonT(60) DEF EventControl, ControlType, Functions, Continuations, States, Activities
<1>4. Kept(r_cur, r_cur') /\ HasPre' /\ r_cur'.leaseT /\ r_cur'.client
  BY <1>1, KeptSelf, Zenon DEF HeldSlot, HasPre
<1> QED BY <1>1, <1>2, <1>3, <1>4, ClaimedStep, Zenon DEF ClaimedActs

(* The continue command preserves IInv. *)
LEMMA ContinueInv == ASSUME IInv, ContinueCommand PROVE IInv' /\ StarterDropped
<1> USE DEF ContinueCommand, SlotOnly
<1>1. /\ Ready /\ then = "ready" /\ r_act = "suspended" /\ r_state = "claimed"
      /\ UNCHANGED <<r_state, r_act, r_destination, boinc, r_pre, r_pre_pre>>
      /\ HeldSlot /\ r_cur.leaseT /\ r_cur.client
  BY AtRest, Zenon DEF FreeInv, BackfillInv, PreemptingInv, StateType, States, FreeStates
<1>2. FlagsType'
  BY Zenon DEF FlagsType
<1>3. PICK ok \in BOOLEAN :
         /\ r_cur' = ResumeClaim(r_cur, ok)
         /\ Return \/ ChangeThen("claimed", "busy", "userContinued")
  BY <1>1, SignalType, Zenon
<1>4. Kept(r_cur, r_cur') /\ HasPre' /\ r_cur'.leaseT /\ r_cur'.client
  BY <1>1, <1>3, KeptResume, Zenon DEF HeldSlot, HasPre, SameTerms
<1>5. ControlType'
  BY ZenonT(60), <1>1, <1>3 DEF ControlType, Functions, Continuations, States, Activities
<1>6. EventControl
  BY <1>1, <1>3, <1>5, Zenon DEF EventControl, Continuations
<1>7. CASE Return
  <2>1. fn' \in Calm \ {"eval"}
    BY <1>1, <1>7, Zenon DEF Calm
  <2> QED BY <1>1, <1>2, <1>4, <1>6, <2>1, ClaimedStep, Zenon
<1>8. CASE ChangeThen("claimed", "busy", "userContinued")
  BY <1>1, <1>2, <1>4, <1>6, <1>8, ClaimedStep, Zenon DEF ClaimedActs
<1> QED BY ZenonT(60), <1>3, <1>7, <1>8

(* The reaper preserves IInv. *)
LEMMA StarterExitsInv == ASSUME IInv, StarterExits PROVE IInv' /\ StarterDropped
<1> USE DEF StarterExits, SlotOnly
<1>1. /\ Ready /\ UNCHANGED <<r_state, r_act, boinc, r_pre, r_pre_pre>>
      /\ r_state \in {"claimed", "preempting"} /\ HeldSlot
      /\ r_state = "claimed" => r_cur.leaseT /\ r_cur.client
  BY AtRest, FreshFacts, Zenon DEF FreeSlot, StateType, States, FreeStates
<1>2. FlagsType'
  BY Zenon DEF FlagsType
<1>3. ReturnTo("starterExited") /\ UNCHANGED r_destination /\ r_destination = "none"
  BY <1>1, Zenon DEF ControlInv, StarterExitedResState
<1>4. /\ Begun(r_cur') /\ ~r_cur'.starter /\ Sound(r_cur')
      /\ r_cur'.leaseT = r_cur.leaseT /\ r_cur'.client = r_cur.client
  BY <1>1, ExitedBegun, Zenon DEF HeldSlot
<1>5. HeldSlot'
  BY <1>1, <1>4, Zenon DEF HeldSlot, HasPre
<1>6. StateType' /\ ClaimsType'
  BY <1>1, <1>3, <1>4, BegunFacts, Zenon DEF StateType, ClaimsType
<1>7. ControlType'
  BY ZenonT(60), <1>3 DEF ControlType, Functions, Continuations, States, Activities
<1>8. ControlInv'
  BY <1>1, <1>3 DEF ControlInv
<1>9. ClaimedInv'
  BY <1>1, <1>3, <1>4, <1>5 DEF ClaimedInv
<1>10. PreemptingInv'
  BY <1>1, <1>3, <1>4, <1>5, Zenon DEF PreemptingInv
<1>11. FreeInv' /\ BackfillInv'
  BY <1>1, Zenon DEF FreeInv, BackfillInv, FreeStates
<1>12. StarterDropped
  BY <1>3, Zenon DEF StarterDropped
<1> QED BY <1>2, <1>6, <1>7, <1>8, <1>9, <1>10, <1>11, <1>12, Zenon

(* The backfill client's reaper preserves IInv. *)
LEMMA BackfillExitedInv == ASSUME IInv, BackfillExited PROVE IInv' /\ StarterDropped
<1> USE DEF BackfillExited
<1>1. /\ Ready /\ ~boinc' /\ UNCHANGED <<r_state, r_act, r_pre, r_pre_pre, r_cur>>
      /\ r_state = "backfill" /\ Fresh(r_cur) /\ r_act # "idle"
      /\ r_cur.stream => r_destination \in {"claimed", "owner"}
  BY AtRest, Zenon DEF Ready, ControlInv, BackfillInv, FreeSlot
<1>2. FlagsType'
  BY ZenonT(60) DEF FlagsType
<1>3. \/ CallThen("accept", "ready") /\ r_cur.stream /\ r_destination' = "claimed"
      \/ /\ ChangeThen("owner", "idle", "ready") /\ ~r_cur.stream
         /\ r_destination' = "none"
      \/ \E d \in {"owner", "matched"} :
            /\ ChangeThen(d, "idle", "ready") /\ r_destination' = d
            /\ r_cur.stream => d = "owner"
      \/ /\ ChangeThen("backfill", "idle", "ready") /\ ~r_cur.stream
         /\ r_destination' = "none"
  BY <1>1, Zenon DEF StarterExitedResState, StateType
<1>4. ControlType'
  BY ZenonT(60), <1>3 DEF ControlType, Functions, Continuations, States, Activities
<1>5. EventControl
  BY <1>3, <1>4, Zenon DEF EventControl, Continuations
<1> QED BY ZenonT(60), <1>1, <1>2, <1>3, <1>5, BackfillStep
==============================================================================
