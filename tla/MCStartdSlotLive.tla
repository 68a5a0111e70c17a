--------------------------- MODULE MCStartdSlotLive ---------------------------
(***************************************************************************)
(* Liveness of the slot on a smaller set of events: those of a claim's     *)
(* life, its preemption and draining.  Matches, the shutdown and backfill, *)
(* which only multiply the states, are left to the runs of MCStartdSlot.   *)
(***************************************************************************)
EXTENDS StartdSlot

ClaimHandler ==
    \/ ChangeNothing \/ ChangeAborted \/ ChangeMade
    \/ EnterOwner \/ EnterUnclaimed \/ EnterMatchedOrDrained
    \/ BeginClaimed \/ EnterClaimed \/ EnterPreempting
    \/ LeavePreempting \/ AcceptClaim
    \/ EvalClaimed \/ EvalPreempting \/ EvalOwner \/ EvalUnclaimed
    \/ EvalDrained \/ SetUnavail
    \/ SetUserSuspended \/ StarterGone

ClaimEvent ==
    \/ Poll \/ RequestAccepted \/ PreemptAccepted \/ RequestSockClosed
    \/ ActivateClaim \/ DeactivateClaim \/ ReleaseCurrent
    \/ SuspendCommand \/ ContinueCommand \/ Vacate \/ LeaseExpired
    \/ StarterExits \/ SoftkillTimeout \/ SigkillStarter \/ HoldJobCallback
    \/ StartDraining \/ CancelDraining

ClaimSpec == Init /\ [][ClaimHandler \/ ClaimEvent]_vars /\ Fairness
==============================================================================
