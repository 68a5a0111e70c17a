---------------------------- MODULE StartdSlotInv ----------------------------
(***************************************************************************)
(* The inductive invariant of StartdSlot: what is true of the slot at every*)
(* point of a handler, not only between two handlers.  It is stated state  *)
(* by state; each conjunct says which claims the slot may hold there and   *)
(* which function may run next.  StartdSlot_proofs proves it inductive.    *)
(***************************************************************************)
EXTENDS StartdSlot

(* A Claim object that was never begun: it has at most a match timer and a *)
(* schedd waiting for the reply.                                           *)
Fresh(c) ==
    /\ c \in Claim
    /\ c.cstate = "UNCLAIMED" /\ c.client
    /\ ~c.leaseT /\ ~c.sendT /\ ~c.aliveSock
    /\ ~c.starter /\ ~c.softT /\ ~c.killT /\ ~c.holdCb /\ ~c.doomed

(* A claim between beginClaim() and its deletion.  The kill timers, the    *)
(* hold message and SIGKILL belong to a starter; a pending hold message is *)
(* guarded by a timer.                                                     *)
Begun(c) ==
    /\ c \in Claim
    /\ c.cstate # "UNCLAIMED" /\ ~c.stream
    /\ c.starter => IsActive(c)
    /\ c.softT \/ c.killT \/ c.holdCb \/ c.doomed => c.starter
    /\ c.holdCb => c.softT \/ c.killT \/ c.doomed

(* Only a starter makes a claim active. *)
Sound(c) == IsActive(c) => c.starter

(* A starter that is sure to be killed. *)
WillDie(c) == c.starter /\ (c.softT \/ c.killT \/ c.doomed)

NoPre == r_pre = NoClaim /\ r_pre_pre = NoClaim

HasPre ==
    /\ Fresh(r_pre)
    /\ IF r_pre.stream THEN Fresh(r_pre_pre) /\ ~r_pre_pre.stream
                       ELSE r_pre_pre = NoClaim

FreeSlot == Fresh(r_cur) /\ NoPre
HeldSlot == Begun(r_cur) /\ HasPre

(* What is left of a claim on the way to Owner. *)
Discarded ==
    /\ NoPre \/ HasPre
    /\ r_cur # NoClaim /\ r_cur.starter => r_cur.doomed

FreeStates == {"owner", "unclaimed", "matched", "drained"}
ClaimedActs == {"idle", "busy", "suspended", "retiring"}

(* The call stack: only backfill parks a set_destination(owner), and a     *)
(* continuation is never pending below another one.                        *)
ControlInv ==
    /\ fn # "except" /\ then # "starterExited"
    /\ fn \in Continuations => then = "ready"
    /\ fn = "leave_preempting" => r_state = "preempting"
    /\ fn = "starterExited" => r_state \in {"claimed", "preempting"}
    /\ fn = "accept" => r_state # "claimed"
    /\ fn = "destOwner" \/ then = "destOwner" =>
          /\ r_state = "backfill" /\ fn \in {"destOwner", "change", "enter"}
          /\ IF fn = "change" THEN to_state = "backfill" /\ to_act = "killing"
                              ELSE r_act = "killing"
    /\ r_state # "backfill" => ~boinc /\ r_destination = "none"

(* Owner is entered with whatever the last claim left, and enter_action    *)
(* replaces it; otherwise a free slot has fresh claim objects only.        *)
FreeInv ==
    r_state \in FreeStates =>
        /\ r_act \in {"idle", "benchmarking", "retiring"}
        /\ IF fn = "enter" /\ r_state = "owner" THEN Discarded
           ELSE FreeSlot /\ (r_cur.stream <=> fn = "accept")
        /\ fn = "change" =>
              /\ to_state \in FreeStates \cup {"backfill", "claimed"}
              /\ to_act \in {"idle", "retiring"}
              /\ to_state \in {"backfill", "claimed"} => to_act = "idle"

(* In Backfill the client exists exactly in Busy and Killing, except while *)
(* change() is on its way; a parked request waits for a destination.       *)
BackfillInv ==
    r_state = "backfill" =>
        /\ r_act \in {"idle", "busy", "killing"} /\ FreeSlot
        /\ fn = "accept" => r_cur.stream /\ ~boinc /\ r_destination = "claimed"
        /\ fn \notin {"accept", "change"} =>
              /\ boinc <=> r_act # "idle"
              /\ r_destination # "none" => r_act = "killing"
        /\ r_cur.stream => r_destination \in {"claimed", "owner"}
        /\ fn = "change" =>
              \/ /\ to_state = "backfill" /\ to_act = "killing"
                 /\ r_act # "idle" /\ boinc
              \/ /\ to_state = "backfill" /\ to_act = "busy"
                 /\ r_act = "idle" /\ boinc /\ r_destination = "none"
              \/ /\ to_state = "backfill" /\ to_act = "idle"
                 /\ r_act # "idle" /\ ~boinc /\ r_destination = "none"
              \/ /\ to_state \in {"owner", "matched", "claimed"} /\ to_act = "idle"
                 /\ ~boinc /\ r_destination \in {"none", to_state}
                 /\ to_state = "claimed" => ~r_cur.stream

(* In Claimed the claim is begun and leased until the slot is told to      *)
(* preempt; a job without a starter is only ever suspended; and Busy never *)
(* survives a reason to retire.                                            *)
ClaimedInv ==
    r_state = "claimed" =>
        /\ r_act \in ClaimedActs
        /\ fn = "enter" /\ statechange =>
              FreeSlot /\ ~r_cur.stream /\ r_act = "idle"
        /\ ~(fn = "enter" /\ statechange) =>
              /\ HeldSlot
              /\ r_act # "suspended" => Sound(r_cur)
              /\ \/ fn = "change" /\ to_state = "preempting"
                 \/ r_cur.leaseT /\ r_cur.client
              /\ r_act = "idle" /\ r_cur.starter => fn = "change" /\ to_act = "busy"
              /\ fn = "starterExited" => ~r_cur.starter
        /\ fn = "change" =>
              \/ /\ to_state = "claimed" /\ to_act \in ClaimedActs
                 /\ to_act = "idle" => ~r_cur.starter
                 /\ to_act = "busy" => r_act # "busy"
              \/ to_state = "preempting" /\ to_act \in {"vacating", "killing"}
        /\ r_act = "busy" /\ fn \in Continuations \ {"starterExited"} =>
              ~InRetirement
        /\ r_act = "busy" /\ fn = "eval" /\ InRetirement => HasPreemptingClaim

(* In Preempting the claim is kept until leave_preempting_state(), and the *)
(* slot comes to rest only if the starter is sure to die.                  *)
PreemptingInv ==
    r_state = "preempting" =>
        /\ r_act \in {"vacating", "killing"}
        /\ fn = "change" => <<to_state, to_act>> \in
              {<<"preempting", "killing">>, <<"claimed", "idle">>, <<"owner", "idle">>}
        /\ CASE fn = "accept" -> FreeSlot /\ r_cur.stream
             [] fn = "change" /\ to_state = "claimed" -> FreeSlot /\ ~r_cur.stream
             [] fn = "change" /\ to_state = "owner" -> Discarded
             [] OTHER ->
                  /\ HeldSlot /\ Sound(r_cur)
                  /\ fn = "leave_preempting" /\ r_cur.starter => r_cur.doomed
                  /\ fn = "starterExited" => ~r_cur.starter
                  /\ fn \notin {"enter", "leave_preempting", "starterExited"} =>
                        WillDie(r_cur)

IInv ==
    /\ TypeOK /\ ControlInv /\ FreeInv /\ BackfillInv /\ ClaimedInv
    /\ PreemptingInv

(* What the ranks rest on.  The waiting claim outranks the one it is to    *)
(* replace for as long as both exist; and a claim that could be activated, *)
(* which gives it a new rank, is on its way out once another waits for it. *)
RankInv ==
    HasPreemptingClaim =>
        /\ r_cur # NoClaim => r_pre.rank >= r_cur.rank
        /\ r_state = "claimed" /\ r_act = "idle" =>
              \/ fn \in {"enter", "eval"}
              \/ fn = "change" /\ to_state = "preempting"
==============================================================================
