--------------------------- MODULE HADElectionInv ---------------------------
(***************************************************************************)
(* The inductive invariant behind OneNegotiator.  It says, of every pair   *)
(* of hosts, what one of them knows of the other: the commands a candidate *)
(* or a leader sent are on their way, or noted by the receiver, or were    *)
(* sent before the receiver last cleared its buffers.                      *)
(***************************************************************************)
EXTENDS HADElection

Period == SendTicks + 1

\* Ticks since host h last called cycle(), and since it last called step().
SinceSend(h) == Period - timer[h]
SinceStep(h) == IF calls[h] = 1 THEN Period - timer[h] ELSE 2 * Period - timer[h]

\* Ticks since host h last cleared its buffers, at least: the step that made
\* it a candidate did not.
SinceClear(h) == IF state[h] = "ELECTION" THEN SinceStep(h) + 2 * Period ELSE SinceStep(h)

\* A command c of age a is among the commands ms on their way from g to h.
Sent(c, g, h, a, ms) ==
    \E l \in {0, 1} : [cmd |-> c, from |-> g, to |-> h, copy |-> 1, late |-> l, age |-> a] \in ms

Timing ==
    /\ \A h \in Hads : copies[h] = 1
    /\ \A h \in Hads : state[h] = "PRE" => calls[h] = 0
    /\ \A h \in Hads : state[h] # "PRE" => up[h] /\ timer[h] <= Period
    /\ \A m \in net : m.copy = 1 /\ m.age <= SendTicks + m.late
    /\ \A m \in net : m.cmd = "ID" => m.late = 0

CandidateHeard(g, h) ==
    (state[g] = "ELECTION" /\ state[h] \in {"PASSIVE", "ELECTION"}) =>
        /\ \/ Sent("ID", g, h, SinceSend(g), net)
           \/ g \in idList[h]
           \/ SinceClear(h) <= SinceSend(g)
        /\ calls[g] = 0 => (g \in idList[h] \/ SinceClear(h) <= SinceStep(g))

LeaderHeard(g, h) ==
    /\ (state[g] = "LEADER" /\ state[h] = "PASSIVE") =>
        \/ Sent("ALIVE", g, h, SinceSend(g), net)
        \/ g \in aliveList[h]
        \/ SinceStep(h) <= SinceSend(g)
    /\ (state[g] = "LEADER" /\ state[h] = "ELECTION") =>
        \/ g \in aliveList[h]
        \/ /\ Sent("ALIVE", g, h, SinceSend(g), net)
           /\ (h < g /\ g \in idList[h]) \/ SinceStep(h) <= SinceSend(g) + SendTicks

OneLeader == \A g, h \in Hads : (state[g] = "LEADER" /\ state[h] = "LEADER") => g = h

Pairs ==
    /\ \A h \in Hads : side[h] = 0
    /\ \A g, h \in Hads : g # h => CandidateHeard(g, h) /\ LeaderHeard(g, h)
    /\ OneLeader

\* The strengthening of TypeOK and NegotiatorFollowsLeader that every call of
\* cycle(), every command received and every fault preserves: it relates what
\* step() has seen of the others to what the others have sent.
IInv ==
    /\ TypeOK
    /\ Timing
    /\ NegotiatorFollowsLeader
    /\ (~lossy /\ NoPrimary) => Pairs
\* What a leader may still hear: an ALIVE on its way to a candidate, also one
\* of a leader that has exited since, finds the candidate warned or was sent
\* in the first half of the candidate's interval; none is on its way to a leader.
AliveHeard(m) ==
    m.cmd = "ALIVE" =>
        /\ state[m.to] # "LEADER"
        /\ state[m.to] = "ELECTION" =>
              \/ m.from \in aliveList[m.to]
              \/ m.to < m.from /\ m.from \in idList[m.to]
              \/ SinceStep(m.to) <= m.age + SendTicks

Undisturbed ==
    /\ \A m \in net : AliveHeard(m)
    /\ \A h \in Hads : state[h] = "LEADER" => aliveList[h] = {}

\* The strengthening behind Incumbent: IInv does not speak of the commands of
\* a HAD that no longer leads.
LeaderInv == IInv /\ ((~lossy /\ NoPrimary) => Undisturbed)
=============================================================================
