---------------------------- MODULE MCStartdSlot ----------------------------
(***************************************************************************)
(* The slot with every event.  One rank is enough for everything except    *)
(* the comparison of ranks; two are enough to replace, keep and refuse a   *)
(* preempting request.                                                     *)
(***************************************************************************)
EXTENDS StartdSlotInv

(* The events of the run with two ranks. Left out are those that neither   *)
(* set nor compare a rank: benchmarks, matches of a free slot, refused     *)
(* requests and activations, backfill, draining and shutdown.              *)
RankEvent ==
    \/ Poll \/ RequestAccepted \/ PreemptRefused \/ PreemptAccepted
    \/ RequestSockClosed \/ MatchPreempting \/ PreemptingMatchTimedOut
    \/ ActivateClaim \/ DeactivateClaim \/ ReleaseCurrent \/ ReleasePreempting
    \/ SuspendCommand \/ ContinueCommand \/ Vacate
    \/ GotAlive \/ SendAlive \/ AliveResponse \/ LeaseExpired
    \/ StarterExits \/ SoftkillTimeout \/ SigkillStarter \/ HoldJobCallback

RankSpec == Init /\ [][Handler \/ RankEvent]_vars
==============================================================================
