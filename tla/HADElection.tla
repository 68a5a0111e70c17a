---------------------------- MODULE HADElection ----------------------------
(***************************************************************************)
(* The election of the active central manager by the condor_had daemons    *)
(* (src/condor_had/StateMachine.cpp).  Each potential central manager runs *)
(* one condor_had; the one in LEADER_STATE has its condor_master run the   *)
(* controllee (the negotiator).                                            *)
(*                                                                         *)
(* Time is counted in ticks.  A send may take two timeouts, connect and    *)
(* startCommand: SendTicks ticks are allowed for the sends to the other    *)
(* hosts of HAD_LIST, one tick for the command to the master.              *)
(* softReconfigure() sets the time between two calls of cycle() to the     *)
(* time all the sends of a call may take, HAD_LIST counted as often as it  *)
(* is in m_otherHadIps; the second it adds for safety is left out, and so  *)
(* is the time for which a receiver is busy with sends of its own.         *)
(***************************************************************************)
EXTENDS Naturals

CONSTANTS N,            \* the number of entries of HAD_LIST
          SendTicks,    \* ticks that one pass over the other hosts of HAD_LIST may take
          Stabilise,    \* ticks without a fault after which one HAD leads
          MaxFaults,    \* bound: faults in one behaviour
          MaxCopies     \* bound: entries of HAD_LIST in m_otherHadIps per host

ASSUME HADAssumption ==
    /\ N \in Nat \ {0}
    /\ SendTicks \in Nat
    /\ Stabilise \in Nat
    /\ MaxFaults \in Nat
    /\ MaxCopies \in Nat \ {0}

VARIABLES
    up,          \* the condor_had process of each host is running
    state,       \* m_state
    calls,       \* m_callsCounter
    timer,       \* ticks until m_stateMachineTimerID fires
    aliveList,   \* receivedAliveList
    idList,      \* receivedIdList
    usePrimary,  \* m_usePrimary
    copies,      \* how many times HAD_LIST was inserted in m_otherHadIps
    negotiator,  \* the master of each host is told to run the controllee
    net,         \* commands sent and not yet received
    side,        \* the part of the network each host can reach
    calm,        \* ticks since the last fault, at most Stabilise
    faults,      \* number of faults so far
    lossy,       \* some command may have been lost in the network
    offLost      \* some CHILD_OFF_FAST was not received by a master

daemonVars == <<up, state, calls, timer, aliveList, idList, usePrimary, copies>>
vars == <<daemonVars, negotiator, net, side, calm, faults, lossy, offLost>>

\* The HAD ids: the index in HAD_LIST in reverse order, so the first host of
\* the list has the highest id.
Hads == 0..(N - 1)
States == {"PRE", "PASSIVE", "ELECTION", "LEADER"}
MESSAGES_PER_INTERVAL_FACTOR == 2

Others(h) == Hads \ {h}
IsPrimary(h) == usePrimary[h] /\ h = N - 1

\* m_hadInterval / MESSAGES_PER_INTERVAL_FACTOR.
CyclePeriod(h) == copies[h] * SendTicks + 1

\* checkList: no id of the list is bigger than mine.
CheckList(h, list) == \A id \in list : id <= h

\* copy is the pass of sendCommandToOthers() over HAD_LIST that the command is
\* sent in; late is 1 when the command to the master is sent first.
Message == [cmd : {"ALIVE", "ID"}, from : Hads, to : Hads, copy : 1..MaxCopies,
            late : {0, 1}, age : Nat]

TypeOK ==
    /\ up \in [Hads -> BOOLEAN]
    /\ state \in [Hads -> States]
    /\ calls \in [Hads -> 0..(MESSAGES_PER_INTERVAL_FACTOR - 1)]
    /\ timer \in [Hads -> Nat]
    /\ aliveList \in [Hads -> SUBSET Hads]
    /\ idList \in [Hads -> SUBSET Hads]
    /\ usePrimary \in [Hads -> BOOLEAN]
    /\ copies \in [Hads -> 1..MaxCopies]
    /\ negotiator \in [Hads -> BOOLEAN]
    /\ net \subseteq Message
    /\ side \in [Hads -> {0, 1}]
    /\ calm \in 0..Stabilise
    /\ faults \in 0..MaxFaults
    /\ lossy \in BOOLEAN
    /\ offLost \in BOOLEAN

\* Some of the hosts are down, the others have just started their HAD, at
\* moments up to one interval apart; the pool agrees on HAD_USE_PRIMARY.
Init ==
    /\ up \in [Hads -> BOOLEAN]
    /\ state = [h \in Hads |-> "PRE"]
    /\ calls = [h \in Hads |-> 0]
    /\ timer \in [Hads -> 0..(MESSAGES_PER_INTERVAL_FACTOR * (SendTicks + 1) - 1)]
    /\ \A h \in Hads : ~up[h] => timer[h] = 0
    /\ \E h \in Hads : timer[h] = 0
    /\ aliveList = [h \in Hads |-> {}]
    /\ idList = [h \in Hads |-> {}]
    /\ usePrimary \in {[h \in Hads |-> b] : b \in BOOLEAN}
    /\ copies = [h \in Hads |-> 1]
    /\ negotiator = [h \in Hads |-> FALSE]
    /\ net = {}
    /\ side = [h \in Hads |-> 0]
    /\ calm = 0
    /\ faults = 0
    /\ lossy = FALSE
    /\ offLost = FALSE

-----------------------------------------------------------------------------
\* One call of cycle()

\* The state step() moves to: leaderYields and candidateYields say whether a
\* higher id in a list makes the HAD give way.
StepTo(h, leaderYields, candidateYields) ==
    CASE state[h] = "PRE" -> "PASSIVE"
      [] state[h] = "PASSIVE" ->
            IF aliveList[h] = {} \/ IsPrimary(h) THEN "ELECTION" ELSE "PASSIVE"
      [] state[h] = "ELECTION" ->
            IF (aliveList[h] # {} /\ ~IsPrimary(h)) \/ candidateYields
            THEN "PASSIVE" ELSE "LEADER"
      [] state[h] = "LEADER" -> IF leaderYields THEN "PASSIVE" ELSE "LEADER"

\* Slip: a leader that gives way to any other leader, whatever its id.
NextStateMeek(h) == StepTo(h, aliveList[h] # {}, ~CheckList(h, idList[h]))

\* Slip: a candidate that does not look at the ids of the other candidates.
NextStateUncontested(h) == StepTo(h, ~CheckList(h, aliveList[h]), FALSE)

\* Slip: a candidate that gives way to any other candidate, whatever its id.
NextStateTimid(h) == StepTo(h, ~CheckList(h, aliveList[h]), idList[h] # {})

\* Slip: a leader that gives way to a candidate of a higher id.
NextStateChallenged(h) ==
    StepTo(h, ~CheckList(h, aliveList[h] \cup idList[h]), ~CheckList(h, idList[h]))

\* A leader looks at the other leaders, a candidate at the other candidates.
NextState(h) == StepTo(h, ~CheckList(h, aliveList[h]), ~CheckList(h, idList[h]))

\* A HAD that enters ELECTION_STATE keeps the ids it has received so far.
KeepsBuffers(h) == state[h] = "PASSIVE" /\ NextState(h) = "ELECTION"

\* The hosts of m_otherHadIps that a HAD can connect to, if they are up.
Peers(h) == {g \in Others(h) : side[g] = side[h]}

\* sendMessages(): what a HAD in state s sends to every entry of m_otherHadIps; a
\* send to a host that is cut off fails.  A HAD that wins an election sends
\* CHILD_ON to its master before its first ALIVE.
Sends(h, s) ==
    IF s \in {"ELECTION", "LEADER"}
    THEN [cmd : {IF s = "LEADER" THEN "ALIVE" ELSE "ID"}, from : {h},
          to : Peers(h), copy : 1..copies[h], age : {0},
          late : {IF s = "LEADER" /\ state[h] = "ELECTION" THEN 1 ELSE 0}]
    ELSE {}

\* Slip: the master is not told that the leadership was given up.
ToMasterOnlyOn(h, s) ==
    negotiator' = [negotiator EXCEPT ![h] =
        IF s = "LEADER" /\ state[h] = "ELECTION" THEN TRUE ELSE negotiator[h]]

\* The master is told when the HAD wins an election (CHILD_ON) and when it
\* gives the leadership up (CHILD_OFF_FAST).
ToMaster(h, s) ==
    negotiator' = [negotiator EXCEPT ![h] =
        IF s = "LEADER" /\ state[h] = "ELECTION" THEN TRUE
        ELSE IF s # "LEADER" /\ state[h] = "LEADER" THEN FALSE
        ELSE negotiator[h]]

CycleDue(h) == up[h] /\ timer[h] = 0

\* cycle() sends one command after the other: the sends of a call are over when
\* the next call is due.
SendsDone(h) == \A m \in net : m.from = h => m.age < CyclePeriod(h)

StepDue(h) == calls[h] = 0

Rearm(h) ==
    /\ timer' = [timer EXCEPT ![h] = CyclePeriod(h)]
    /\ calls' = [calls EXCEPT ![h] = (calls[h] + 1) % MESSAGES_PER_INTERVAL_FACTOR]

\* The part of a step() that does not depend on the master.
Step(h) ==
    /\ CycleDue(h) /\ StepDue(h) /\ SendsDone(h)
    /\ Rearm(h)
    /\ state' = [state EXCEPT ![h] = NextState(h)]
    /\ IF KeepsBuffers(h)
       THEN UNCHANGED <<aliveList, idList>>
       ELSE /\ aliveList' = [aliveList EXCEPT ![h] = {}]
            /\ idList' = [idList EXCEPT ![h] = {}]
    /\ net' = net \cup Sends(h, NextState(h))
    /\ UNCHANGED <<up, usePrimary, copies, side, lossy>>

CycleStep(h) ==
    /\ Step(h)
    /\ ToMaster(h, NextState(h))
    /\ UNCHANGED <<calm, faults, offLost>>

\* The calls of cycle() between two steps only send.
CycleSend(h) ==
    /\ CycleDue(h) /\ ~StepDue(h) /\ SendsDone(h)
    /\ Rearm(h)
    /\ net' = net \cup Sends(h, state[h])
    /\ UNCHANGED <<up, state, aliveList, idList, usePrimary, copies,
                   negotiator, side, calm, faults, lossy, offLost>>

-----------------------------------------------------------------------------
\* Commands and time

\* commandHandlerHad: the sender's id goes to one of the two lists.  A send to
\* a host that is down fails and is not repeated.
Receive(m) ==
    /\ m \in net
    /\ net' = net \ {m}
    /\ IF up[m.to]
       THEN IF m.cmd = "ALIVE"
            THEN /\ aliveList' = [aliveList EXCEPT ![m.to] = @ \cup {m.from}]
                 /\ UNCHANGED idList
            ELSE /\ idList' = [idList EXCEPT ![m.to] = @ \cup {m.from}]
                 /\ UNCHANGED aliveList
       ELSE UNCHANGED <<aliveList, idList>>
    /\ UNCHANGED <<up, state, calls, timer, usePrimary, copies, negotiator,
                   side, calm, faults, lossy, offLost>>

\* Time passes when no timer is due and no send is past its timeouts: one pass
\* over the hosts of HAD_LIST takes SendTicks at most, the command to the master
\* that comes before it one tick.
Tick ==
    /\ \A h \in Hads : ~CycleDue(h)
    /\ \A m \in net : m.age < m.copy * SendTicks + m.late
    /\ timer' = [h \in Hads |-> IF up[h] THEN timer[h] - 1 ELSE 0]
    /\ net' = {[m EXCEPT !.age = @ + 1] : m \in net}
    /\ calm' = IF calm < Stabilise THEN calm + 1 ELSE calm
    /\ UNCHANGED <<up, state, calls, aliveList, idList, usePrimary, copies,
                   negotiator, side, faults, lossy, offLost>>

-----------------------------------------------------------------------------
\* Faults and administration

Fault ==
    /\ faults < MaxFaults
    /\ faults' = faults + 1
    /\ calm' = 0

\* The HAD exits or its host goes down.  An exiting HAD sends CHILD_OFF_FAST
\* from its destructor; the master of a HAD that died kills the controllee.
Crash(h) ==
    /\ Fault
    /\ up[h]
    /\ up' = [up EXCEPT ![h] = FALSE]
    /\ state' = [state EXCEPT ![h] = "PRE"]
    /\ calls' = [calls EXCEPT ![h] = 0]
    /\ timer' = [timer EXCEPT ![h] = 0]
    /\ aliveList' = [aliveList EXCEPT ![h] = {}]
    /\ idList' = [idList EXCEPT ![h] = {}]
    /\ copies' = [copies EXCEPT ![h] = 1]
    /\ negotiator' = [negotiator EXCEPT ![h] = FALSE]
    /\ \E unsent \in SUBSET {m \in net : m.from = h} : net' = net \ unsent
    /\ UNCHANGED <<usePrimary, side, lossy, offLost>>

\* A HAD that gives the leadership up ignores that its master could not be
\* told CHILD_OFF_FAST: the master goes on running the controllee.
ChildOffFails(h) ==
    /\ Fault
    /\ state[h] = "LEADER" /\ NextState(h) # "LEADER"
    /\ Step(h)
    /\ offLost' = TRUE
    /\ UNCHANGED negotiator

\* step() exits the daemon when the master cannot be told CHILD_ON.
ChildOnFails(h) ==
    /\ CycleDue(h) /\ StepDue(h) /\ SendsDone(h)
    /\ state[h] = "ELECTION" /\ NextState(h) = "LEADER"
    /\ Crash(h)

\* The master starts the HAD: init(), reinitialize() with CHILD_OFF_FAST.
Start(h) ==
    /\ Fault
    /\ ~up[h]
    /\ up' = [up EXCEPT ![h] = TRUE]
    /\ UNCHANGED <<state, calls, timer, aliveList, idList, usePrimary, copies,
                   negotiator, net, side, lossy, offLost>>

\* main_config() with another value of HAD_USE_PRIMARY: reinitialize() starts
\* the state machine from scratch, but getHadList() inserts the addresses of
\* HAD_LIST in m_otherHadIps without removing the ones it holds.
Reinitialize(h) ==
    /\ Fault
    /\ up[h] /\ copies[h] < MaxCopies
    /\ state' = [state EXCEPT ![h] = "PRE"]
    /\ calls' = [calls EXCEPT ![h] = 0]
    /\ timer' = [timer EXCEPT ![h] = 0]
    /\ aliveList' = [aliveList EXCEPT ![h] = {}]
    /\ idList' = [idList EXCEPT ![h] = {}]
    /\ negotiator' = [negotiator EXCEPT ![h] = FALSE]
    /\ usePrimary' = [usePrimary EXCEPT ![h] = ~@]
    /\ copies' = [copies EXCEPT ![h] = @ + 1]
    /\ UNCHANGED <<up, net, side, lossy, offLost>>

\* The network splits in two; the commands on their way between the parts are
\* lost.
Partition ==
    /\ Fault
    /\ side' \in [Hads -> {0, 1}] \ {side}
    /\ side'[0] = 0 /\ \E h \in Hads : side'[h] # 0
    /\ net' = {m \in net : side'[m.from] = side'[m.to]}
    /\ lossy' = TRUE
    /\ UNCHANGED <<daemonVars, negotiator, offLost>>

\* A split network is whole again; this is a change, and no further fault.
Repair ==
    /\ \E h \in Hads : side[h] # 0
    /\ side' = [h \in Hads |-> 0]
    /\ calm' = 0
    /\ UNCHANGED <<daemonVars, negotiator, net, faults, lossy, offLost>>

\* A send fails although the peer is there.
Lose(m) ==
    /\ Fault
    /\ m \in net
    /\ net' = net \ {m}
    /\ lossy' = TRUE
    /\ UNCHANGED <<daemonVars, negotiator, side, offLost>>

Daemons ==
    \/ \E h \in Hads : CycleStep(h) \/ CycleSend(h)
    \/ \E m \in net : Receive(m)
    \/ Tick

Failures ==
    \/ \E h \in Hads : Crash(h) \/ ChildOnFails(h) \/ ChildOffFails(h) \/ Start(h)
    \/ Partition
    \/ \E m \in net : Lose(m)

Next == Daemons \/ Failures \/ Repair

Spec == Init /\ [][Next]_vars

\* A pool in which nothing fails and the administrators reconfigure.
SpecReconfigure == Init /\ [][Daemons \/ \E h \in Hads : Reinitialize(h)]_vars

-----------------------------------------------------------------------------
Leaders == {h \in Hads : state[h] = "LEADER"}
Negotiators == {h \in Hads : negotiator[h]}
NoPrimary == \A h \in Hads : ~IsPrimary(h)

\* Without a primary, and as long as no command is lost, at most one
\* negotiator runs, whichever HADs exit or start and whenever: step() makes a
\* HAD lead only after an interval in which it heard neither a leader nor a
\* candidate of a higher id.
OneNegotiator ==
    (~lossy /\ ~offLost /\ NoPrimary) => \A g, h \in Negotiators : g = h

\* What step() and the two lists of ids converge to: Stabilise ticks after the
\* last fault, every part of the network that has a
\* running HAD has exactly one negotiator, the primary's when the primary is
\* in that part.
Stabilises ==
    (calm = Stabilise /\ ~offLost) =>
        \A s \in {side[h] : h \in {g \in Hads : up[g]}} :
            \E l \in Hads :
                /\ {h \in Negotiators : side[h] = s} = {l}
                /\ \A h \in Hads : (up[h] /\ side[h] = s /\ IsPrimary(h)) => l = h

\* The master runs the controllee exactly while its HAD leads, unless a
\* CHILD_OFF_FAST was lost; it always does while its HAD leads.
NegotiatorFollowsLeader ==
    /\ Leaders \subseteq Negotiators
    /\ ~offLost => Negotiators = Leaders

\* Without a primary and without losses a leader keeps the leadership until
\* its HAD exits: in step(), a HAD that comes back with a higher id finds the
\* leader's ALIVE in its list and does not take over.
Incumbent ==
    [][\A h \in Hads :
         (~lossy' /\ NoPrimary /\ up'[h] /\ state[h] = "LEADER")
             => state'[h] = "LEADER"]_vars

\* The first host of HAD_LIST, once it leads, leads until its HAD exits or is
\* reconfigured, whatever the network does: checkList() finds no higher id.
FirstKeepsLeading ==
    [][(state[N - 1] = "LEADER" /\ up'[N - 1] /\ copies'[N - 1] = copies[N - 1])
           => state'[N - 1] = "LEADER"]_vars

\* At most one negotiator runs in a pool in which nothing fails, also after
\* calls of reinitialize(), which is to "init all relevant parameters".
OneNegotiatorWhenReconfigured == NoPrimary => \A g, h \in Negotiators : g = h
=============================================================================
