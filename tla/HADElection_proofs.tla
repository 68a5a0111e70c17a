------------------------- MODULE HADElection_proofs -------------------------
(***************************************************************************)
(* OneNegotiator and Incumbent for every number of hosts and every length  *)
(* of a cycle, from the inductive invariants IInv and LeaderInv, and what  *)
(* a leader may count on.                                                  *)
(***************************************************************************)
EXTENDS HADElectionInv, TLAPS

\* The clauses of step() as facts about the next state.
LEMMA NextStateFacts ==
    ASSUME TypeOK, NEW h \in Hads
    PROVE  /\ NextState(h) \in States
           /\ NextState(h) # "PRE"
           /\ NextState(h) = "LEADER" => state[h] \in {"ELECTION", "LEADER"}
           /\ NextState(h) = "ELECTION" => state[h] = "PASSIVE"
           /\ (NextState(h) = "ELECTION" /\ ~IsPrimary(h)) => aliveList[h] = {}
           /\ (state[h] = "ELECTION" /\ NextState(h) = "LEADER" /\ ~IsPrimary(h))
                  => aliveList[h] = {}
           /\ (state[h] = "ELECTION" /\ NextState(h) = "LEADER") => CheckList(h, idList[h])
           /\ (state[h] = "LEADER" /\ NextState(h) # "LEADER") => ~CheckList(h, aliveList[h])
  <1>1. state[h] \in States
    BY Zenon DEF TypeOK
  <1>2. CASE state[h] = "PRE"
    BY <1>2, Zenon DEF NextState, StepTo, States
  <1>3. CASE state[h] = "PASSIVE"
    BY <1>3, Zenon DEF NextState, StepTo, States
  <1>4. CASE state[h] = "ELECTION"
    BY <1>4, Zenon DEF NextState, StepTo, States
  <1>5. CASE state[h] = "LEADER"
    BY <1>5, Zenon DEF NextState, StepTo, States
  <1> QED BY <1>1, <1>2, <1>3, <1>4, <1>5, Zenon DEF States

\* What a HAD in state s sends reaches the net, one command for each host that
\* is not cut off.
LEMMA SendsFacts ==
    ASSUME TypeOK, NEW h \in Hads, NEW s \in States
    PROVE  /\ Sends(h, s) \subseteq Message
           /\ \A m \in Sends(h, s) : /\ m.age = 0 /\ m.copy \in 1..copies[h] /\ m.from = h
                                     /\ m.cmd = "ID" => m.late = 0
           /\ \A g \in Hads \ {h} : side[g] = side[h] =>
                /\ s = "ELECTION" => Sent("ID", h, g, 0, Sends(h, s))
                /\ s = "LEADER" => Sent("ALIVE", h, g, 0, Sends(h, s))
  <1>1. copies[h] \in 1..MaxCopies
    BY Zenon DEF TypeOK
  <1>2. /\ Sends(h, s) \subseteq Message
        /\ \A m \in Sends(h, s) : /\ m.age = 0 /\ m.copy \in 1..copies[h] /\ m.from = h
                                  /\ m.cmd = "ID" => m.late = 0
    BY <1>1, HADAssumption DEF Sends, Message, Peers, Others
  <1>3. \A g \in Hads \ {h} : side[g] = side[h] =>
            /\ s = "ELECTION" => Sent("ID", h, g, 0, Sends(h, s))
            /\ s = "LEADER" => Sent("ALIVE", h, g, 0, Sends(h, s))
    <2>1. 1 \in 1..copies[h]
      BY <1>1, HADAssumption
    <2>2. CASE s = "ELECTION"
      BY <2>1, <2>2, ZenonT(30) DEF Sends, Peers, Others, Sent
    <2>3. CASE s = "LEADER"
      BY <2>1, <2>3, ZenonT(30) DEF Sends, Peers, Others, Sent
    <2> QED BY <2>2, <2>3, Zenon
  <1> QED BY <1>2, <1>3, Zenon

\* Every action keeps the types.
LEMMA TypeStep ==
    ASSUME TypeOK, Timing, [Next]_vars
    PROVE  TypeOK'
  <1> USE HADAssumption
  <1>1. ASSUME NEW h \in Hads, Step(h)
        PROVE  /\ up' \in [Hads -> BOOLEAN]
               /\ state' \in [Hads -> States]
               /\ calls' \in [Hads -> 0..(MESSAGES_PER_INTERVAL_FACTOR - 1)]
               /\ timer' \in [Hads -> Nat]
               /\ aliveList' \in [Hads -> SUBSET Hads]
               /\ idList' \in [Hads -> SUBSET Hads]
               /\ usePrimary' \in [Hads -> BOOLEAN]
               /\ copies' \in [Hads -> 1..MaxCopies]
               /\ net' \subseteq Message
               /\ side' \in [Hads -> {0, 1}]
               /\ lossy' \in BOOLEAN
    <2>1. NextState(h) \in States
      BY NextStateFacts, Zenon
    <2>2. CyclePeriod(h) \in Nat
      BY DEF CyclePeriod, Timing, TypeOK
    <2>3. net' \subseteq Message
      BY <1>1, <2>1, SendsFacts, Zenon DEF Step, TypeOK
    <2>4. calls' \in [Hads -> 0..(MESSAGES_PER_INTERVAL_FACTOR - 1)]
      BY <1>1 DEF Step, Rearm, TypeOK, MESSAGES_PER_INTERVAL_FACTOR
    <2> QED BY <1>1, <2>1, <2>2, <2>3, <2>4, Zenon DEF Step, Rearm, TypeOK
  <1>2. ASSUME NEW h \in Hads, CycleStep(h) PROVE TypeOK'
    BY <1>1, <1>2, Zenon DEF CycleStep, ToMaster, TypeOK
  <1>3. ASSUME NEW h \in Hads, CycleSend(h) PROVE TypeOK'
    <2>1. CyclePeriod(h) \in Nat
      BY DEF CyclePeriod, Timing, TypeOK
    <2>2. net' \subseteq Message
      BY <1>3, SendsFacts, Zenon DEF CycleSend, TypeOK
    <2>3. calls' \in [Hads -> 0..(MESSAGES_PER_INTERVAL_FACTOR - 1)]
      BY <1>3 DEF CycleSend, Rearm, TypeOK, MESSAGES_PER_INTERVAL_FACTOR
    <2> QED BY <1>3, <2>1, <2>2, <2>3, Zenon DEF CycleSend, Rearm, TypeOK
  <1>4. ASSUME NEW m \in net, Receive(m) PROVE TypeOK'
    <2>1. m.from \in Hads /\ m.to \in Hads
      BY Zenon DEF TypeOK, Message
    <2> QED BY <1>4, <2>1 DEF Receive, TypeOK
  <1>5. CASE Tick
    <2>1. timer' \in [Hads -> Nat]
      BY <1>5, SMTT(30) DEF Tick, CycleDue, TypeOK
    <2>2. net' \subseteq Message
      BY <1>5 DEF Tick, TypeOK, Message
    <2> QED BY <1>5, <2>1, <2>2 DEF Tick, TypeOK
  <1>6. ASSUME NEW h \in Hads, Crash(h) PROVE TypeOK'
    BY <1>6 DEF Crash, Fault, TypeOK, States, MESSAGES_PER_INTERVAL_FACTOR
  <1>7. ASSUME NEW h \in Hads, ChildOffFails(h) PROVE TypeOK'
    BY <1>1, <1>7 DEF ChildOffFails, Fault, TypeOK
  <1>8. ASSUME NEW h \in Hads, Start(h) PROVE TypeOK'
    BY <1>8 DEF Start, Fault, TypeOK
  <1>9. CASE Partition
    BY <1>9 DEF Partition, Fault, TypeOK, daemonVars
  <1>12. CASE Repair
    BY <1>12 DEF Repair, TypeOK, daemonVars
  <1>10. ASSUME NEW m \in net, Lose(m) PROVE TypeOK'
    BY <1>10 DEF Lose, Fault, TypeOK, daemonVars
  <1>11. CASE UNCHANGED vars
    BY <1>11, Zenon DEF vars, daemonVars, TypeOK
  <1> QED BY <1>2, <1>3, <1>4, <1>5, <1>6, <1>7, <1>8, <1>9, <1>10, <1>11, <1>12, Zenon
          DEF Next, Daemons, Failures, ChildOnFails

\* Every action keeps the ranges of the timers and of the ages of commands.
LEMMA TimingStep ==
    ASSUME TypeOK, Timing, [Next]_vars
    PROVE  Timing'
  <1> USE HADAssumption
  <1>0. \A h \in Hads : CyclePeriod(h) = Period /\ \A c \in 1..copies[h] : c = 1
    BY DEF Timing, CyclePeriod, Period
  <1>1. ASSUME NEW h \in Hads, Step(h) PROVE Timing'
    <2>1. NextState(h) \in States /\ NextState(h) # "PRE"
      BY NextStateFacts, Zenon
    <2>2. \A m \in Sends(h, NextState(h)) : m.copy = 1 /\ m.age = 0 /\ (m.cmd = "ID" => m.late = 0)
      <3>1. \A m \in Sends(h, NextState(h)) : /\ m.copy \in 1..copies[h] /\ m.age = 0
                                              /\ m.cmd = "ID" => m.late = 0
        BY <2>1, SendsFacts
      <3> QED BY <1>0, <3>1, Zenon
    <2>3. \A m \in net' : /\ m.copy = 1 /\ m.age <= SendTicks + m.late
                          /\ m.cmd = "ID" => m.late = 0
      BY <1>1, <2>1, <2>2, SendsFacts DEF Step, Timing, Message
    <2>4. \A g \in Hads : state'[g] # "PRE" => up'[g] /\ timer'[g] <= Period
      BY <1>0, <1>1 DEF Step, Rearm, CycleDue, Timing, TypeOK, Period
    <2>5. \A g \in Hads : state'[g] = "PRE" => calls'[g] = 0
      BY <1>1, <2>1, Zenon DEF Step, Rearm, Timing, TypeOK
    <2>6. copies' = copies
      BY <1>1, Zenon DEF Step
    <2> QED BY <2>3, <2>4, <2>5, <2>6, Zenon DEF Timing, Period
  <1>2. ASSUME NEW h \in Hads, CycleSend(h) PROVE Timing'
    <2>0. state[h] \in States /\ state[h] # "PRE"
      BY <1>2, Zenon DEF TypeOK, Timing, CycleSend, StepDue
    <2>2. \A m \in Sends(h, state[h]) : m.copy = 1 /\ m.age = 0 /\ (m.cmd = "ID" => m.late = 0)
      <3>1. \A m \in Sends(h, state[h]) : /\ m.copy \in 1..copies[h] /\ m.age = 0
                                          /\ m.cmd = "ID" => m.late = 0
        BY <2>0, SendsFacts
      <3> QED BY <1>0, <3>1, Zenon
    <2>3. \A m \in net' : /\ m.copy = 1 /\ m.age <= SendTicks + m.late
                          /\ m.cmd = "ID" => m.late = 0
      BY <1>2, <2>0, <2>2, SendsFacts DEF CycleSend, Timing, Message
    <2>4. \A g \in Hads : state'[g] # "PRE" => up'[g] /\ timer'[g] <= Period
      BY <1>0, <1>2 DEF CycleSend, Rearm, Timing, TypeOK, Period
    <2>5. \A g \in Hads : state'[g] = "PRE" => calls'[g] = 0
      BY <1>2, <2>0, Zenon DEF CycleSend, Rearm, Timing, TypeOK
    <2>6. copies' = copies
      BY <1>2, Zenon DEF CycleSend
    <2> QED BY <2>3, <2>4, <2>5, <2>6, Zenon DEF Timing, Period
  <1>3. ASSUME NEW m \in net, Receive(m) PROVE Timing'
    BY <1>3, Zenon DEF Receive, Timing, Period
  <1>4. CASE Tick
    <2>1. \A m \in net' : /\ m.copy = 1 /\ m.age <= SendTicks + m.late
                          /\ m.cmd = "ID" => m.late = 0
      <3>1. \A m \in net : /\ m.copy = 1 /\ m.age < SendTicks + m.late
                           /\ m.age \in Nat /\ m.late \in Nat
                           /\ m.cmd = "ID" => m.late = 0
        BY <1>4 DEF Tick, Timing, TypeOK, Message
      <3>2. ASSUME NEW m \in net, NEW k, k = [m EXCEPT !.age = @ + 1]
            PROVE  /\ k.copy = 1 /\ k.age <= SendTicks + k.late
                   /\ k.cmd = "ID" => k.late = 0
        <4>1. m \in Message
          BY Zenon DEF TypeOK
        <4>2. /\ k.copy = m.copy /\ k.age = m.age + 1 /\ k.late = m.late /\ k.cmd = m.cmd
          BY <3>2, <4>1, Zenon DEF Message
        <4>3. m.age + 1 <= SendTicks + m.late
          BY <3>1
        <4> QED BY <3>1, <4>2, <4>3, Zenon
      <3> QED BY <1>4, <3>2, Zenon DEF Tick
    <2>2. \A g \in Hads : state[g] # "PRE" => timer'[g] <= Period
      BY <1>4 DEF Tick, CycleDue, Timing, TypeOK, Period
    <2>3. UNCHANGED <<up, state, calls, copies>>
      BY <1>4, Zenon DEF Tick
    <2> QED BY <2>1, <2>2, <2>3, Zenon DEF Timing, Period
  <1>5. ASSUME NEW h \in Hads, Crash(h) PROVE Timing'
    BY <1>5, Zenon DEF Crash, Timing, TypeOK, Period
  <1>6. ASSUME NEW h \in Hads, Start(h) PROVE Timing'
    BY <1>6, Zenon DEF Start, Timing, TypeOK, Period
  <1>7. CASE Partition \/ Repair
    BY <1>7, Zenon DEF Partition, Repair, Timing, Period, daemonVars
  <1>8. ASSUME NEW m \in net, Lose(m) PROVE Timing'
    BY <1>8, Zenon DEF Lose, Timing, Period, daemonVars
  <1>9. CASE UNCHANGED vars
    BY <1>9, Zenon DEF vars, daemonVars, Timing, Period
  <1> QED BY <1>1, <1>2, <1>3, <1>4, <1>5, <1>6, <1>7, <1>8, <1>9, Zenon
          DEF Next, Daemons, Failures, CycleStep, ChildOffFails, ChildOnFails

\* Every action keeps the master of a host in line with its HAD.
LEMMA NegotiatorStep ==
    ASSUME TypeOK, Timing, NegotiatorFollowsLeader, [Next]_vars
    PROVE  NegotiatorFollowsLeader'
  <1> USE DEF NegotiatorFollowsLeader, Leaders, Negotiators
  <1>1. ASSUME NEW h \in Hads, CycleStep(h) PROVE NegotiatorFollowsLeader'
    <2>1. /\ state' = [state EXCEPT ![h] = NextState(h)]
          /\ ToMaster(h, NextState(h))
          /\ offLost' = offLost
      BY <1>1, Zenon DEF CycleStep, Step
    <2>2. NextState(h) = "LEADER" => state[h] \in {"ELECTION", "LEADER"}
      BY NextStateFacts, Zenon
    <2>3. negotiator'[h] = (IF NextState(h) = "LEADER" /\ state[h] = "ELECTION" THEN TRUE
                            ELSE IF NextState(h) # "LEADER" /\ state[h] = "LEADER" THEN FALSE
                            ELSE negotiator[h])
      BY <2>1, Zenon DEF ToMaster, TypeOK
    <2>4. state'[h] = NextState(h)
      BY <2>1, Zenon DEF TypeOK
    <2>5. \A g \in Hads : g # h => state'[g] = state[g] /\ negotiator'[g] = negotiator[g]
      BY <2>1, Zenon DEF TypeOK, ToMaster
    <2>6. Leaders' \subseteq Negotiators'
      BY <2>2, <2>3, <2>4, <2>5, ZenonT(60)
    <2>7. ~offLost => Negotiators' \subseteq Leaders'
      BY <2>2, <2>3, <2>4, <2>5, ZenonT(60)
    <2> QED BY <2>1, <2>6, <2>7, Zenon
  <1>2. ASSUME NEW h \in Hads, ChildOffFails(h) PROVE NegotiatorFollowsLeader'
    <2>1. state'[h] # "LEADER" /\ (\A g \in Hads : g # h => state'[g] = state[g])
      BY <1>2, Zenon DEF ChildOffFails, Step, TypeOK
    <2> QED BY <1>2, <2>1, Zenon DEF ChildOffFails
  <1>3. ASSUME NEW h \in Hads, Crash(h) PROVE NegotiatorFollowsLeader'
    <2>1. /\ state'[h] = "PRE" /\ negotiator'[h] = FALSE
          /\ \A g \in Hads : g # h => state'[g] = state[g] /\ negotiator'[g] = negotiator[g]
          /\ offLost' = offLost
      BY <1>3, Zenon DEF Crash, TypeOK
    <2> QED BY <2>1, ZenonT(60)
  <1>4. CASE UNCHANGED <<state, negotiator, offLost>>
    BY <1>4, Zenon
  <1>5. \/ UNCHANGED <<state, negotiator, offLost>>
        \/ \E h \in Hads : CycleStep(h) \/ ChildOffFails(h) \/ Crash(h)
    BY Zenon DEF Next, Daemons, Failures, CycleSend, Receive, Tick, ChildOnFails, Start, Partition,
           Repair, Lose, vars, daemonVars
  <1> QED BY <1>1, <1>2, <1>3, <1>4, <1>5, Zenon

-----------------------------------------------------------------------------
\* What one host knows of another

\* The clocks of a HAD that has left PRE_STATE.
LEMMA ClockFacts ==
    ASSUME TypeOK, Timing, NEW h \in Hads, state[h] # "PRE"
    PROVE  /\ SinceSend(h) \in 0..Period
           /\ SinceStep(h) \in Nat /\ SinceSend(h) <= SinceStep(h)
           /\ SinceStep(h) <= 2 * Period
           /\ SinceClear(h) \in Nat /\ SinceStep(h) <= SinceClear(h)
           /\ calls[h] \in {0, 1}
  BY HADAssumption
     DEF TypeOK, Timing, SinceSend, SinceStep, SinceClear, Period, MESSAGES_PER_INTERVAL_FACTOR

\* A command is on its way among more commands too.
LEMMA SentMore ==
    ASSUME NEW c, NEW g, NEW h, NEW a, NEW S, NEW T, S \subseteq T, Sent(c, g, h, a, S)
    PROVE  Sent(c, g, h, a, T)
  BY Zenon DEF Sent

\* An ID is received in the time one pass over the hosts may take.
LEMMA IdArrives ==
    ASSUME Timing, NEW g, NEW h, NEW a \in Nat, Sent("ID", g, h, a, net)
    PROVE  a <= SendTicks
  BY HADAssumption DEF Timing, Sent

\* No command of the last call of cycle() is on its way at the next one.
LEMMA OldSendsArrived ==
    ASSUME Timing, NEW x \in Hads, SendsDone(x), NEW c, NEW g
    PROVE  ~Sent(c, x, g, Period, net)
  <1>1. CyclePeriod(x) = Period /\ Period \in Nat
    BY HADAssumption DEF Timing, CyclePeriod, Period
  <1>2. ~(Period < Period)
    BY <1>1
  <1> QED BY <1>1, <1>2, Zenon DEF SendsDone, Sent

\* A call of cycle() with a step.
LEMMA StepPairs ==
    ASSUME TypeOK, Timing, Pairs, NoPrimary, NEW x \in Hads, Step(x), TypeOK', Timing'
    PROVE  Pairs'
  <1> USE HADAssumption
  <1> DEFINE s == NextState(x)
  <1>1. /\ timer[x] = 0 /\ calls[x] = 0 /\ timer'[x] = Period /\ calls'[x] = 1
        /\ state'[x] = s
        /\ \A g \in Hads : g # x => /\ timer'[g] = timer[g] /\ calls'[g] = calls[g]
                                   /\ state'[g] = state[g]
                                   /\ aliveList'[g] = aliveList[g] /\ idList'[g] = idList[g]
    <2>1. CyclePeriod(x) = Period
      BY DEF Timing, CyclePeriod, Period
    <2> QED BY <2>1 DEF Step, Rearm, CycleDue, StepDue, TypeOK, MESSAGES_PER_INTERVAL_FACTOR
  <1>2. /\ net \subseteq net'
        /\ \A g \in Hads \ {x} : s = "ELECTION" => Sent("ID", x, g, 0, net')
        /\ \A g \in Hads \ {x} : s = "LEADER" => Sent("ALIVE", x, g, 0, net')
    <2>1. net \subseteq net' /\ Sends(x, s) \subseteq net'
      BY Zenon DEF Step
    <2>2. s \in States
      BY NextStateFacts, Zenon
    <2>3. \A g \in Hads \ {x} : side[g] = side[x]
      BY Zenon DEF Pairs
    <2> HIDE DEF s
    <2> QED BY <2>1, <2>2, <2>3, SendsFacts, SentMore, Zenon
  <1>3. s = "ELECTION" => aliveList'[x] = aliveList[x] /\ idList'[x] = idList[x]
    BY NextStateFacts, Zenon DEF Step, KeepsBuffers
  <1>4. side' = side
    BY Zenon DEF Step
  <1>5. /\ s \in {"PASSIVE", "ELECTION", "LEADER"}
        /\ s = "LEADER" => state[x] \in {"ELECTION", "LEADER"}
        /\ s = "ELECTION" => state[x] = "PASSIVE" /\ aliveList[x] = {}
        /\ (s = "LEADER" /\ state[x] = "ELECTION")
              => aliveList[x] = {} /\ \A id \in idList[x] : id <= x
    BY NextStateFacts, Zenon DEF NoPrimary, States, CheckList
  <1>6. SinceSend(x)' = 0 /\ SinceStep(x)' = 0
    BY <1>1 DEF SinceSend, SinceStep, Period
  <1>7. state[x] # "PRE" => SinceSend(x) = Period /\ SinceStep(x) = 2 * Period
    BY <1>1 DEF SinceSend, SinceStep, Period
  <1>8. \A g \in Hads : g # x => /\ SinceSend(g)' = SinceSend(g)
                               /\ SinceStep(g)' = SinceStep(g)
                               /\ SinceClear(g)' = SinceClear(g)
    BY <1>1, Zenon DEF SinceSend, SinceStep, SinceClear, Period
  <1>9. Period = SendTicks + 1 /\ Period' = Period
    BY Zenon DEF Period
  <1>10. ASSUME NEW g \in Hads, g # x PROVE CandidateHeard(x, g)'
    BY <1>1, <1>2, <1>6, <1>10 DEF CandidateHeard
  <1>11. ASSUME NEW g \in Hads, g # x PROVE CandidateHeard(g, x)'
    <2> SUFFICES ASSUME state'[g] = "ELECTION", state'[x] \in {"PASSIVE", "ELECTION"}
                 PROVE  /\ \/ Sent("ID", g, x, SinceSend(g)', net')
                           \/ g \in idList'[x]
                           \/ SinceClear(x)' <= SinceSend(g)'
                        /\ calls'[g] = 0 => (g \in idList'[x] \/ SinceClear(x)' <= SinceStep(g)')
      BY Zenon DEF CandidateHeard, Sent
    <2>0. state[g] = "ELECTION" /\ SinceSend(g) \in Nat /\ SinceStep(g) \in Nat
      BY <1>1, <1>11, ClockFacts
    <2>1. CASE s = "PASSIVE"
      <3>1. SinceClear(x)' = 0
        BY <1>1, <1>6, <2>1, Zenon DEF SinceClear
      <3> QED BY <1>8, <1>11, <2>0, <3>1
    <2>2. CASE s = "ELECTION"
      <3>1. SinceClear(x)' = SinceClear(x)
        BY <1>1, <1>5, <1>6, <1>7, <1>9, <2>2, SMTT(30) DEF SinceClear
      <3>2. CandidateHeard(g, x)
        BY <1>11, Zenon DEF Pairs
      <3>3. \A a : Sent("ID", g, x, a, net) => Sent("ID", g, x, a, net')
        BY <1>2, SentMore, Zenon
      <3> QED BY <1>1, <1>3, <1>5, <1>8, <1>11, <2>0, <2>2, <3>1, <3>2, <3>3, Zenon DEF CandidateHeard
    <2> QED BY <1>1, <2>1, <2>2, Zenon
  <1>12. ASSUME NEW g \in Hads, g # x PROVE LeaderHeard(g, x)'
    <2>0. ASSUME state[g] = "LEADER" PROVE SinceSend(g) \in 0..Period
      BY <2>0, ClockFacts, Zenon
    <2>1. ASSUME state'[g] = "LEADER", s = "PASSIVE" PROVE SinceStep(x)' <= SinceSend(g)'
      BY <1>1, <1>6, <1>8, <1>9, <1>12, <2>0, <2>1
    <2>2. ASSUME state'[g] = "LEADER", s = "ELECTION"
          PROVE  /\ Sent("ALIVE", g, x, SinceSend(g)', net')
                 /\ SinceStep(x)' <= SinceSend(g)' + SendTicks
      <3>1. state[g] = "LEADER" /\ state[x] = "PASSIVE" /\ aliveList[x] = {}
        BY <1>1, <1>5, <1>12, <2>2, Zenon
      <3>2. ~(SinceStep(x) <= SinceSend(g))
        BY <1>7, <1>9, <2>0, <3>1
      <3>3. LeaderHeard(g, x)
        BY <1>12, Zenon DEF Pairs
      <3>4. Sent("ALIVE", g, x, SinceSend(g), net)
        BY <3>1, <3>2, <3>3, Zenon DEF LeaderHeard
      <3>5. Sent("ALIVE", g, x, SinceSend(g)', net')
        BY <1>2, <1>8, <1>12, <3>4, SentMore, Zenon
      <3>6. SinceStep(x)' <= SinceSend(g)' + SendTicks
        BY <1>6, <1>8, <1>9, <1>12, <2>0, <3>1
      <3> QED BY <3>5, <3>6
    <2> QED BY <1>1, <2>1, <2>2, Zenon DEF LeaderHeard, Sent
  <1>13. ASSUME NEW g \in Hads, g # x, s = "LEADER", state[x] = "ELECTION"
         PROVE  state[g] # "LEADER"
    <2> SUFFICES ASSUME state[g] = "LEADER" PROVE FALSE
      BY Zenon
    <2>1. SinceSend(g) \in 0..Period /\ SinceStep(x) = 2 * Period
      BY <1>7, <1>13, ClockFacts, Zenon
    <2>2. LeaderHeard(g, x)
      BY <1>13, Zenon DEF Pairs
    <2>3. /\ Sent("ALIVE", g, x, SinceSend(g), net)
          /\ (x < g /\ g \in idList[x]) \/ SinceStep(x) <= SinceSend(g) + SendTicks
      BY <1>5, <1>13, <2>2, Zenon DEF LeaderHeard
    <2>4. ~(SinceStep(x) <= SinceSend(g) + SendTicks)
      BY <1>9, <2>1
    <2>5. g <= x /\ g \in Nat /\ x \in Nat
      BY <1>5, <1>13, <2>3, <2>4 DEF Hads
    <2> QED BY <2>3, <2>4, <2>5
  <1>14. ASSUME NEW g \in Hads, g # x PROVE LeaderHeard(x, g)'
    <2>1. ASSUME s = "LEADER", state'[g] = "ELECTION"
          PROVE  \/ x \in aliveList'[g]
                 \/ /\ Sent("ALIVE", x, g, 0, net')
                    /\ (g < x /\ x \in idList'[g]) \/ SinceStep(g)' <= SendTicks
      <3>0. state[g] = "ELECTION" /\ SinceSend(g) \in 0..Period /\ SinceClear(g) \in Nat
            /\ SinceStep(g) \in Nat /\ calls[g] \in {0, 1}
        BY <1>1, <1>14, <2>1, ClockFacts, Zenon
      <3>1. CASE state[x] = "LEADER"
        <4>1. LeaderHeard(x, g) /\ SinceSend(x) = Period
          BY <1>7, <1>14, <3>1, Zenon DEF Pairs
        <4>2. ~Sent("ALIVE", x, g, Period, net)
          BY OldSendsArrived, Zenon DEF Step
        <4>3. x \in aliveList[g]
          BY <3>0, <3>1, <4>1, <4>2, Zenon DEF LeaderHeard
        <4> QED BY <1>1, <1>14, <4>3, Zenon
      <3>2. CASE state[x] = "ELECTION" /\ g < x
        <4>1. CandidateHeard(x, g) /\ SinceSend(x) = Period
          BY <1>7, <1>14, <3>2, Zenon DEF Pairs
        <4>2. ~Sent("ID", x, g, Period, net)
          BY OldSendsArrived, Zenon DEF Step
        <4>3. ~(SinceClear(g) <= Period)
          BY <1>9, <3>0 DEF SinceClear
        <4>4. x \in idList[g]
          BY <3>0, <3>2, <4>1, <4>2, <4>3, Zenon DEF CandidateHeard
        <4> QED BY <1>1, <1>2, <1>14, <2>1, <3>2, <4>4, Zenon
      <3>3. CASE state[x] = "ELECTION" /\ ~(g < x)
        <4>1. CandidateHeard(g, x) /\ g \notin idList[x]
          BY <1>5, <1>14, <2>1, <3>3 DEF Pairs, Hads
        <4>2. SinceClear(x) = 4 * Period
          BY <1>7, <1>9, <3>3 DEF SinceClear
        <4>3. SinceStep(g) <= 2 * Period /\ Period > 0
          BY <1>9, <3>0, ClockFacts
        <4>4. ~(SinceClear(x) <= SinceStep(g)) /\ ~(SinceClear(x) <= SinceSend(g))
          BY <1>9, <3>0, <4>2, <4>3
        <4>5. calls[g] = 1 /\ Sent("ID", g, x, SinceSend(g), net)
          BY <3>0, <3>3, <4>1, <4>4, Zenon DEF CandidateHeard
        <4>6. SinceStep(g) = SinceSend(g)
          BY <4>5, Zenon DEF SinceStep, SinceSend
        <4>7. SinceSend(g) <= SendTicks
          BY <1>9, <3>0, <4>5, IdArrives
        <4> QED BY <1>2, <1>8, <1>14, <2>1, <4>6, <4>7, Zenon
      <3> QED BY <1>5, <2>1, <3>1, <3>2, <3>3, Zenon
    <2>2. SinceSend(x)' = 0 /\ SinceStep(g)' = SinceStep(g)
      BY <1>6, <1>8, <1>14, Zenon
    <2>3. s = "LEADER" => Sent("ALIVE", x, g, SinceSend(x)', net')
      BY <1>2, <1>14, <2>2, Zenon
    <2>4. ASSUME s = "LEADER", state'[g] = "ELECTION"
          PROVE  \/ x \in aliveList'[g]
                 \/ (g < x /\ x \in idList'[g]) \/ SinceStep(g)' <= SinceSend(x)' + SendTicks
      <3>1. SinceSend(x)' + SendTicks = SendTicks
        BY <2>2
      <3> QED BY <2>1, <2>4, <3>1, Zenon
    <2>5. Sent("ALIVE", x, g, SinceSend(x), net)' <=> Sent("ALIVE", x, g, SinceSend(x)', net')
      BY Zenon DEF Sent
    <2> QED BY <1>1, <2>3, <2>4, <2>5, Zenon DEF LeaderHeard
  <1>15. ASSUME NEW g \in Hads, NEW h \in Hads, g # x, h # x, g # h
         PROVE  CandidateHeard(g, h)' /\ LeaderHeard(g, h)'
    <2>1. CandidateHeard(g, h) /\ LeaderHeard(g, h)
      BY <1>15, Zenon DEF Pairs
    <2>2. CandidateHeard(g, h)'
      BY <1>1, <1>2, <1>8, <1>15, <2>1, Zenon DEF CandidateHeard, Sent
    <2>3. LeaderHeard(g, h)'
      BY <1>1, <1>2, <1>8, <1>15, <2>1, Zenon DEF LeaderHeard, Sent
    <2> QED BY <2>2, <2>3, Zenon
  <1>16. OneLeader'
    <2> SUFFICES ASSUME NEW g \in Hads, NEW h \in Hads,
                        state'[g] = "LEADER", state'[h] = "LEADER", g # h
                 PROVE  FALSE
      BY Zenon DEF OneLeader
    <2>1. OneLeader
      BY Zenon DEF Pairs
    <2> QED BY <1>1, <1>5, <1>13, <2>1, Zenon DEF OneLeader
  <1>17. \A h \in Hads : side'[h] = 0
    BY <1>4, Zenon DEF Pairs
  <1> QED BY <1>10, <1>11, <1>12, <1>14, <1>15, <1>16, <1>17 DEF Pairs

\* A call of cycle() that only sends.
LEMMA SendPairs ==
    ASSUME TypeOK, Timing, Pairs, NEW x \in Hads, CycleSend(x), TypeOK', Timing'
    PROVE  Pairs'
  <1> USE HADAssumption
  <1>1. /\ timer[x] = 0 /\ calls[x] = 1 /\ timer'[x] = Period /\ calls'[x] = 0
        /\ \A g \in Hads : g # x => timer'[g] = timer[g] /\ calls'[g] = calls[g]
        /\ UNCHANGED <<state, aliveList, idList, side>>
    <2>1. CyclePeriod(x) = Period
      <3>1. copies[x] = 1
        BY Zenon DEF Timing
      <3> QED BY <3>1 DEF CyclePeriod, Period
    <2> QED BY <2>1 DEF CycleSend, Rearm, CycleDue, StepDue, TypeOK, MESSAGES_PER_INTERVAL_FACTOR
  <1>2. /\ net \subseteq net'
        /\ \A g \in Hads \ {x} : state[x] = "ELECTION" => Sent("ID", x, g, 0, net')
        /\ \A g \in Hads \ {x} : state[x] = "LEADER" => Sent("ALIVE", x, g, 0, net')
    <2>1. net \subseteq net' /\ Sends(x, state[x]) \subseteq net'
      BY Zenon DEF CycleSend
    <2>2. state[x] \in States /\ \A g \in Hads \ {x} : side[g] = side[x]
      BY Zenon DEF TypeOK, Pairs
    <2> QED BY <2>1, <2>2, SendsFacts, SentMore, Zenon
  <1>3. /\ SinceSend(x) = Period /\ SinceSend(x)' = 0
        /\ SinceStep(x) = Period /\ SinceStep(x)' = Period
        /\ SinceClear(x)' = SinceClear(x)
        /\ Period = SendTicks + 1 /\ Period' = Period
    BY <1>1, SMTT(30) DEF SinceSend, SinceStep, SinceClear, Period
  <1>4. \A g \in Hads : g # x => /\ SinceSend(g)' = SinceSend(g)
                               /\ SinceStep(g)' = SinceStep(g)
                               /\ SinceClear(g)' = SinceClear(g)
    BY <1>1, Zenon DEF SinceSend, SinceStep, SinceClear, Period
  <1>5. ASSUME NEW g \in Hads, g # x PROVE CandidateHeard(x, g)' /\ LeaderHeard(x, g)'
    <2>1. CandidateHeard(x, g) /\ LeaderHeard(x, g)
      BY <1>5, Zenon DEF Pairs
    <2>2. \A c : ~Sent(c, x, g, Period, net)
      BY OldSendsArrived, Zenon DEF CycleSend
    <2>3. CandidateHeard(x, g)'
      BY <1>1, <1>2, <1>3, <1>4, <1>5, <2>1, <2>2, Zenon DEF CandidateHeard, Sent
    <2>4. LeaderHeard(x, g)'
      BY <1>1, <1>2, <1>3, <1>4, <1>5, <2>1, <2>2, Zenon DEF LeaderHeard, Sent
    <2> QED BY <2>3, <2>4, Zenon
  <1>6. ASSUME NEW g \in Hads, NEW h \in Hads, g # x, g # h
        PROVE  CandidateHeard(g, h)' /\ LeaderHeard(g, h)'
    <2>1. CandidateHeard(g, h) /\ LeaderHeard(g, h)
      BY <1>6, Zenon DEF Pairs
    <2>2. SinceStep(h)' = SinceStep(h) /\ SinceClear(h)' = SinceClear(h)
      BY <1>3, <1>4, Zenon
    <2>3. CandidateHeard(g, h)'
      BY <1>1, <1>2, <1>4, <1>6, <2>1, <2>2, Zenon DEF CandidateHeard, Sent
    <2>4. LeaderHeard(g, h)'
      BY <1>1, <1>2, <1>4, <1>6, <2>1, <2>2, Zenon DEF LeaderHeard, Sent
    <2> QED BY <2>3, <2>4, Zenon
  <1>7. OneLeader' /\ \A h \in Hads : side'[h] = 0
    BY <1>1, Zenon DEF Pairs, OneLeader
  <1> QED BY <1>5, <1>6, <1>7, Zenon DEF Pairs

\* A command is received: its sender is noted, if it has any news of it.
LEMMA ReceivePairs ==
    ASSUME TypeOK, Timing, Pairs, NEW m \in net, Receive(m), TypeOK', Timing'
    PROVE  Pairs'
  <1> USE HADAssumption
  <1>1. UNCHANGED <<up, state, calls, timer, side>> /\ net' = net \ {m}
    BY DEF Receive
  <1>2. m.from \in Hads /\ m.to \in Hads
    BY Zenon DEF TypeOK, Message
  <1>3. \A g \in Hads : aliveList[g] \subseteq aliveList'[g] /\ idList[g] \subseteq idList'[g]
    BY <1>2, SMTT(30) DEF Receive, TypeOK
  <1>4. ASSUME NEW g \in Hads, NEW h \in Hads, state[h] # "PRE", m.cmd = "ID", m.from = g, m.to = h
        PROVE  g \in idList'[h]
    <2>1. m.cmd = "ID" /\ m.from = g /\ m.to = h
      BY <1>4, Zenon
    <2>2. up[m.to]
      BY <1>4, <2>1, Zenon DEF Timing
    <2>3. idList' = [idList EXCEPT ![m.to] = @ \cup {m.from}]
      BY <2>1, <2>2, Zenon DEF Receive
    <2>4. idList \in [Hads -> SUBSET Hads]
      BY Zenon DEF TypeOK
    <2> QED BY <1>2, <2>1, <2>3, <2>4, Zenon
  <1>5. ASSUME NEW g \in Hads, NEW h \in Hads, state[h] # "PRE", m.cmd = "ALIVE", m.from = g, m.to = h
        PROVE  g \in aliveList'[h]
    <2>1. m.cmd = "ALIVE" /\ m.from = g /\ m.to = h
      BY <1>5, Zenon
    <2>2. up[m.to]
      BY <1>5, <2>1, Zenon DEF Timing
    <2>3. aliveList' = [aliveList EXCEPT ![m.to] = @ \cup {m.from}]
      BY <2>1, <2>2, Zenon DEF Receive
    <2>4. aliveList \in [Hads -> SUBSET Hads]
      BY Zenon DEF TypeOK
    <2> QED BY <1>2, <2>1, <2>3, <2>4, Zenon
  <1>6. \A g \in Hads : /\ SinceSend(g)' = SinceSend(g)
                       /\ SinceStep(g)' = SinceStep(g)
                       /\ SinceClear(g)' = SinceClear(g)
    BY <1>1, Zenon DEF SinceSend, SinceStep, SinceClear, Period
  <1>7. ASSUME NEW g \in Hads, NEW h \in Hads, g # h
        PROVE  CandidateHeard(g, h)' /\ LeaderHeard(g, h)'
    <2>1. CandidateHeard(g, h) /\ LeaderHeard(g, h)
      BY <1>7, Zenon DEF Pairs
    <2>2. (state[h] # "PRE" /\ Sent("ID", g, h, SinceSend(g), net))
             => Sent("ID", g, h, SinceSend(g), net') \/ g \in idList'[h]
      <3> SUFFICES ASSUME state[h] # "PRE", NEW l \in {0, 1},
                          [cmd |-> "ID", from |-> g, to |-> h, copy |-> 1, late |-> l,
                           age |-> SinceSend(g)] \in net
                   PROVE  Sent("ID", g, h, SinceSend(g), net') \/ g \in idList'[h]
        BY Zenon DEF Sent
      <3> DEFINE k == [cmd |-> "ID", from |-> g, to |-> h, copy |-> 1, late |-> l, age |-> SinceSend(g)]
      <3>1. CASE m = k
        BY <1>4, <1>7, <3>1, Zenon
      <3>2. CASE m # k
        BY <1>1, <3>2, Zenon DEF Sent
      <3> QED BY <3>1, <3>2, Zenon
    <2>3. (state[h] # "PRE" /\ Sent("ALIVE", g, h, SinceSend(g), net))
             => Sent("ALIVE", g, h, SinceSend(g), net') \/ g \in aliveList'[h]
      <3> SUFFICES ASSUME state[h] # "PRE", NEW l \in {0, 1},
                          [cmd |-> "ALIVE", from |-> g, to |-> h, copy |-> 1, late |-> l,
                           age |-> SinceSend(g)] \in net
                   PROVE  Sent("ALIVE", g, h, SinceSend(g), net') \/ g \in aliveList'[h]
        BY Zenon DEF Sent
      <3> DEFINE k == [cmd |-> "ALIVE", from |-> g, to |-> h, copy |-> 1, late |-> l, age |-> SinceSend(g)]
      <3>1. CASE m = k
        BY <1>5, <1>7, <3>1, Zenon
      <3>2. CASE m # k
        BY <1>1, <3>2, Zenon DEF Sent
      <3> QED BY <3>1, <3>2, Zenon
    <2>4. CandidateHeard(g, h)'
      BY <1>1, <1>3, <1>6, <2>1, <2>2, Zenon DEF CandidateHeard, Sent
    <2>5. LeaderHeard(g, h)'
      BY <1>1, <1>3, <1>6, <2>1, <2>3, Zenon DEF LeaderHeard, Sent
    <2> QED BY <2>4, <2>5, Zenon
  <1>8. OneLeader' /\ \A h \in Hads : side'[h] = 0
    BY <1>1, Zenon DEF Pairs, OneLeader
  <1> QED BY <1>7, <1>8, Zenon DEF Pairs

\* A tick: all clocks of running HADs, and all ages, advance together.
LEMMA TickPairs ==
    ASSUME TypeOK, Timing, Pairs, Tick, TypeOK', Timing'
    PROVE  Pairs'
  <1> USE HADAssumption
  <1>1. UNCHANGED <<up, state, calls, aliveList, idList, side>>
    BY Zenon DEF Tick
  <1>2. \A g \in Hads : state[g] # "PRE" => timer'[g] = timer[g] - 1
    BY Zenon DEF Tick, Timing, TypeOK
  <1>3. ASSUME NEW g \in Hads, state[g] # "PRE"
        PROVE  /\ SinceSend(g)' = SinceSend(g) + 1
               /\ SinceStep(g)' = SinceStep(g) + 1
               /\ SinceClear(g)' = SinceClear(g) + 1
    BY <1>1, <1>2, <1>3, SMTT(30) DEF SinceSend, SinceStep, SinceClear, Period, TypeOK
  <1>4. ASSUME NEW c, NEW g, NEW h, NEW a \in Nat, Sent(c, g, h, a, net)
        PROVE  Sent(c, g, h, a + 1, net')
    <2> DEFINE M(l, b) == [cmd |-> c, from |-> g, to |-> h, copy |-> 1, late |-> l, age |-> b]
    <2>1. PICK l \in {0, 1} : M(l, a) \in net
      BY <1>4, Zenon DEF Sent
    <2>2. [M(l, a) EXCEPT !.age = @ + 1] = M(l, a + 1)
      OBVIOUS
    <2>3. M(l, a + 1) \in net'
      BY <2>1, <2>2, Zenon DEF Tick
    <2> QED BY <2>3, Zenon DEF Sent
  <1>5. ASSUME NEW g \in Hads, NEW h \in Hads, g # h
        PROVE  CandidateHeard(g, h)' /\ LeaderHeard(g, h)'
    <2> SUFFICES ASSUME state[g] # "PRE", state[h] # "PRE"
                 PROVE  CandidateHeard(g, h)' /\ LeaderHeard(g, h)'
      BY <1>1, Zenon DEF CandidateHeard, LeaderHeard
    <2>1. CandidateHeard(g, h) /\ LeaderHeard(g, h)
      BY <1>5, Zenon DEF Pairs
    <2>2. /\ SinceSend(g) \in Nat /\ SinceStep(g) \in Nat
          /\ SinceStep(h) \in Nat /\ SinceClear(h) \in Nat
      BY ClockFacts
    <2>3. \A c : Sent(c, g, h, SinceSend(g), net) => Sent(c, g, h, SinceSend(g)', net')
      BY <1>3, <1>4, <2>2, Zenon
    <2>4. /\ SinceSend(g)' = SinceSend(g) + 1 /\ SinceStep(g)' = SinceStep(g) + 1
          /\ SinceStep(h)' = SinceStep(h) + 1 /\ SinceClear(h)' = SinceClear(h) + 1
      BY <1>3, Zenon
    <2>5. /\ SinceClear(h) <= SinceSend(g) => SinceClear(h)' <= SinceSend(g)'
          /\ SinceClear(h) <= SinceStep(g) => SinceClear(h)' <= SinceStep(g)'
          /\ SinceStep(h) <= SinceSend(g) => SinceStep(h)' <= SinceSend(g)'
          /\ SinceStep(h) <= SinceSend(g) + SendTicks
                => SinceStep(h)' <= SinceSend(g)' + SendTicks
      BY <2>2, <2>4
    <2>6. /\ state' = state /\ calls' = calls
          /\ aliveList' = aliveList /\ idList' = idList
      BY <1>1, Zenon
    <2>7. CandidateHeard(g, h)'
      BY <2>1, <2>3, <2>5, <2>6, Zenon DEF CandidateHeard
    <2>8. LeaderHeard(g, h)'
      BY <2>1, <2>3, <2>5, <2>6, Zenon DEF LeaderHeard
    <2> QED BY <2>7, <2>8, Zenon
  <1>6. OneLeader' /\ \A h \in Hads : side'[h] = 0
    BY <1>1, Zenon DEF Pairs, OneLeader
  <1> QED BY <1>5, <1>6, Zenon DEF Pairs

\* A HAD that exits or starts is in PRE_STATE and claims nothing.
LEMMA RestartPairs ==
    ASSUME TypeOK, Timing, Pairs, NEW x \in Hads, Crash(x) \/ Start(x), TypeOK', Timing'
    PROVE  Pairs'
  <1> USE HADAssumption
  <1>0. Start(x) => state[x] = "PRE"
    BY Zenon DEF Start, Timing
  <1>1. /\ state'[x] = "PRE" /\ side' = side
        /\ \A g \in Hads : g # x => /\ timer'[g] = timer[g] /\ calls'[g] = calls[g]
                                   /\ state'[g] = state[g]
                                   /\ aliveList'[g] = aliveList[g] /\ idList'[g] = idList[g]
    BY <1>0, SMTT(30) DEF Crash, Start, TypeOK
  <1>2. \A m \in net : m.from # x => m \in net'
    BY Zenon DEF Crash, Start
  <1>3. ASSUME NEW g \in Hads, NEW h \in Hads, g # h
        PROVE  CandidateHeard(g, h)' /\ LeaderHeard(g, h)'
    <2>1. CASE g = x \/ h = x
      BY <1>1, <2>1, Zenon DEF CandidateHeard, LeaderHeard
    <2>2. CASE g # x /\ h # x
      <3>1. CandidateHeard(g, h) /\ LeaderHeard(g, h)
        BY <1>3, Zenon DEF Pairs
      <3>2. /\ SinceSend(g)' = SinceSend(g) /\ SinceStep(g)' = SinceStep(g)
            /\ SinceStep(h)' = SinceStep(h) /\ SinceClear(h)' = SinceClear(h)
        BY <1>1, <2>2, Zenon DEF SinceSend, SinceStep, SinceClear, Period
      <3>3. \A c : Sent(c, g, h, SinceSend(g), net) => Sent(c, g, h, SinceSend(g), net')
        BY <1>2, <2>2, Zenon DEF Sent
      <3>4. CandidateHeard(g, h)'
        BY <1>1, <2>2, <3>1, <3>2, <3>3, Zenon DEF CandidateHeard, Sent
      <3>5. LeaderHeard(g, h)'
        BY <1>1, <2>2, <3>1, <3>2, <3>3, Zenon DEF LeaderHeard, Sent
      <3> QED BY <3>4, <3>5, Zenon
    <2> QED BY <2>1, <2>2, Zenon
  <1>4. OneLeader' /\ \A h \in Hads : side'[h] = 0
    <2>1. \A g \in Hads : state'[g] = "LEADER" => state[g] = "LEADER"
      BY <1>1, Zenon
    <2>2. OneLeader'
      BY <2>1, Zenon DEF Pairs, OneLeader
    <2>3. \A h \in Hads : side'[h] = 0
      BY <1>1, Zenon DEF Pairs
    <2> QED BY <2>2, <2>3, Zenon
  <1> QED BY <1>3, <1>4, Zenon DEF Pairs

-----------------------------------------------------------------------------
\* The pool starts in the invariant.
LEMMA InitIInv == Init => IInv
  <1> SUFFICES ASSUME Init PROVE IInv
    BY Zenon
  <1> USE HADAssumption
  <1>1. TypeOK
    <2>1. timer \in [Hads -> Nat]
      BY DEF Init, MESSAGES_PER_INTERVAL_FACTOR
    <2>2. usePrimary \in [Hads -> BOOLEAN]
      BY Zenon DEF Init
    <2>3. /\ state \in [Hads -> States]
          /\ calls \in [Hads -> 0..(MESSAGES_PER_INTERVAL_FACTOR - 1)]
          /\ copies \in [Hads -> 1..MaxCopies]
      BY DEF Init, States, MESSAGES_PER_INTERVAL_FACTOR
    <2>4. /\ up \in [Hads -> BOOLEAN]
          /\ aliveList \in [Hads -> SUBSET Hads]
          /\ idList \in [Hads -> SUBSET Hads]
          /\ negotiator \in [Hads -> BOOLEAN]
          /\ net \subseteq Message
          /\ side \in [Hads -> {0, 1}]
      BY Zenon DEF Init
    <2>5. calm \in 0..Stabilise /\ faults \in 0..MaxFaults
      BY DEF Init
    <2>6. lossy \in BOOLEAN /\ offLost \in BOOLEAN
      BY ZenonT(60) DEF Init
    <2> QED BY <2>1, <2>2, <2>3, <2>4, <2>5, <2>6, Zenon DEF TypeOK
  <1>2. Timing
    BY Zenon DEF Init, Timing
  <1>3. NegotiatorFollowsLeader
    BY Zenon DEF Init, NegotiatorFollowsLeader, Leaders, Negotiators
  <1>4. Pairs
    BY Zenon DEF Init, Pairs, CandidateHeard, LeaderHeard, OneLeader
  <1> QED BY <1>1, <1>2, <1>3, <1>4, Zenon DEF IInv

\* Every action keeps the invariant.
LEMMA NextIInv == IInv /\ [Next]_vars => IInv'
  <1> SUFFICES ASSUME IInv, [Next]_vars PROVE IInv'
    BY Zenon
  <1>1. TypeOK' /\ Timing' /\ NegotiatorFollowsLeader'
    BY TypeStep, TimingStep, NegotiatorStep, Zenon DEF IInv
  <1>2. ASSUME ~lossy', NoPrimary' PROVE Pairs'
    <2>1. ~lossy /\ usePrimary' = usePrimary
      BY <1>2, Zenon DEF Next, Daemons, Failures, CycleStep, Step, CycleSend, Receive, Tick, Crash, ChildOnFails,
                  ChildOffFails, Start, Partition, Repair, Lose, vars, daemonVars, IInv, TypeOK
    <2>2. NoPrimary /\ Pairs /\ TypeOK /\ Timing
      BY <1>2, <2>1, Zenon DEF NoPrimary, IsPrimary, IInv
    <2>3. CASE UNCHANGED vars
      <3>1. /\ state' = state /\ calls' = calls /\ timer' = timer /\ net' = net
            /\ aliveList' = aliveList /\ idList' = idList /\ side' = side
        BY <2>3, Zenon DEF vars, daemonVars
      <3>2. ASSUME NEW g \in Hads, NEW h \in Hads
            PROVE  /\ CandidateHeard(g, h)' <=> CandidateHeard(g, h)
                   /\ LeaderHeard(g, h)' <=> LeaderHeard(g, h)
        <4>1. /\ SinceSend(g)' = SinceSend(g) /\ SinceStep(g)' = SinceStep(g)
              /\ SinceStep(h)' = SinceStep(h) /\ SinceClear(h)' = SinceClear(h)
          BY <3>1, Zenon DEF SinceSend, SinceStep, SinceClear
        <4> QED BY <3>1, <4>1, Zenon DEF CandidateHeard, LeaderHeard
      <3>3. OneLeader' <=> OneLeader
        BY <3>1, Zenon DEF OneLeader
      <3> QED BY <2>2, <3>1, <3>2, <3>3, Zenon DEF Pairs
    <2>4. CASE Next
      <3>1. \/ \E x \in Hads : Step(x) \/ CycleSend(x) \/ Crash(x) \/ Start(x)
            \/ \E m \in net : Receive(m)
            \/ Tick
        BY <1>2, <2>2, <2>4, Zenon DEF Next, Daemons, Failures, CycleStep, ChildOnFails, ChildOffFails,
                                      Partition, Repair, Lose, Pairs
      <3> QED BY <1>1, <2>2, <3>1, StepPairs, SendPairs, ReceivePairs, TickPairs, RestartPairs, Zenon
    <2> QED BY <2>3, <2>4, Zenon
  <1> QED BY <1>1, <1>2, Zenon DEF IInv

\* The invariant holds in every state of every behaviour.
LEMMA Invariance == Spec => []IInv
  <1> QED BY InitIInv, NextIInv, PTL DEF Spec

\* However many hosts HAD_LIST names, however long a cycle is and whenever
\* HADs exit and start: without a primary, and as long as no command is lost,
\* the masters of a pool never run two negotiators.
THEOREM OnlyOneNegotiator == Spec => []OneNegotiator
  <1>1. IInv => OneNegotiator
    BY Zenon DEF IInv, OneNegotiator, NegotiatorFollowsLeader, Negotiators, Leaders, Pairs, OneLeader
  <1> QED BY <1>1, Invariance, PTL

\* The master of every host runs the controllee while its HAD leads, and no
\* longer unless a CHILD_OFF_FAST was lost.
THEOREM MasterFollowsHAD == Spec => []NegotiatorFollowsLeader
  <1>1. IInv => NegotiatorFollowsLeader
    BY Zenon DEF IInv
  <1> QED BY <1>1, Invariance, PTL

\* The state of every HAD has its type in every state of every behaviour.
THEOREM HADTypes == Spec => []TypeOK
  <1>1. IInv => TypeOK
    BY Zenon DEF IInv
  <1> QED BY <1>1, Invariance, PTL

\* No command of another HAD, late, lost or reordered, makes the first host of
\* HAD_LIST give up the leadership: no id is higher than its own.
THEOREM FirstLeads == Spec => FirstKeepsLeading
  <1> DEFINE f == N - 1
             A == (state[f] = "LEADER" /\ up'[f] /\ copies'[f] = copies[f]) => state'[f] = "LEADER"
  <1>1. IInv /\ [Next]_vars => [A]_vars
    <2> SUFFICES ASSUME IInv, Next, state[f] = "LEADER", up'[f] PROVE state'[f] = "LEADER"
      BY Zenon
    <2> USE HADAssumption
    <2>1. f \in Hads /\ TypeOK
      BY DEF Hads, IInv
    <2>2. NextState(f) = "LEADER"
      <3>1. \A id \in aliveList[f] : id <= f
        BY <2>1 DEF TypeOK, Hads
      <3>2. CheckList(f, aliveList[f])
        BY <3>1, Zenon DEF CheckList
      <3>3. (state[f] = "LEADER" /\ NextState(f) # "LEADER") => ~CheckList(f, aliveList[f])
        <4> HIDE DEF f
        <4> QED BY <2>1, NextStateFacts, Zenon
      <3> QED BY <3>2, <3>3, Zenon
    <2>3. ASSUME NEW h \in Hads, Step(h) PROVE state'[f] = "LEADER"
      BY <2>1, <2>2, <2>3, Zenon DEF Step, TypeOK
    <2>4. ASSUME NEW h \in Hads, Crash(h) PROVE state'[f] = "LEADER"
      BY <2>1, <2>4, Zenon DEF Crash, TypeOK
    <2> QED BY <2>3, <2>4, Zenon DEF Next, Daemons, Failures, CycleStep, CycleSend, Receive, Tick, ChildOnFails,
                ChildOffFails, Start, Partition, Repair, Lose, daemonVars
  <1> QED BY <1>1, Invariance, PTL DEF Spec, FirstKeepsLeading
-----------------------------------------------------------------------------
\* A new ALIVE comes from a leader and has just been sent: it is the command
\* that LeaderHeard speaks of, and no leader receives one.
LEMMA NewAlive ==
    ASSUME TypeOK', Pairs', NEW m, m \in net', m.cmd = "ALIVE",
           m.from \in Hads, m.to \in Hads, m.from # m.to, m.age = 0,
           state'[m.from] = "LEADER", SinceSend(m.from)' = 0
    PROVE  AliveHeard(m)'
  <1>1. state'[m.to] # "LEADER"
    BY Zenon DEF Pairs, OneLeader
  <1>2. LeaderHeard(m.from, m.to)'
    BY Zenon DEF Pairs
  <1>3. ASSUME state'[m.to] = "ELECTION"
        PROVE  \/ m.from \in aliveList'[m.to]
               \/ m.to < m.from /\ m.from \in idList'[m.to]
               \/ SinceStep(m.to)' <= m.age + SendTicks
    BY <1>2, <1>3, Zenon DEF LeaderHeard
  <1> QED BY <1>1, <1>3, Zenon DEF AliveHeard

\* A call of cycle() with a step: a candidate that wins has no ALIVE to come,
\* as those on their way were sent too late in its interval to be unheard of.
LEMMA StepUndisturbed ==
    ASSUME TypeOK, Timing, Pairs, NoPrimary, Undisturbed, NEW x \in Hads, Step(x),
           TypeOK', Timing', Pairs'
    PROVE  Undisturbed'
  <1> USE HADAssumption
  <1>1. /\ timer[x] = 0 /\ calls[x] = 0 /\ timer'[x] = Period /\ calls'[x] = 1
        /\ state'[x] = NextState(x)
        /\ \A g \in Hads : g # x => /\ timer'[g] = timer[g] /\ calls'[g] = calls[g]
                                   /\ state'[g] = state[g]
                                   /\ aliveList'[g] = aliveList[g] /\ idList'[g] = idList[g]
    <2>1. CyclePeriod(x) = Period
      BY DEF Timing, CyclePeriod, Period
    <2> QED BY <2>1 DEF Step, Rearm, CycleDue, StepDue, TypeOK, MESSAGES_PER_INTERVAL_FACTOR
  <1>2. SinceSend(x)' = 0 /\ SinceStep(x)' = 0
    BY <1>1 DEF SinceSend, SinceStep, Period
  <1>3. SinceStep(x) = 2 * Period
    BY <1>1 DEF SinceStep, Period
  <1>4. \A g \in Hads : g # x => SinceStep(g)' = SinceStep(g)
    BY <1>1, Zenon DEF SinceStep, Period
  <1>5. ASSUME NEW m \in net PROVE AliveHeard(m)'
    <2> SUFFICES ASSUME m.cmd = "ALIVE" PROVE AliveHeard(m)'
      BY Zenon DEF AliveHeard
    <2>1. m.from \in Hads /\ m.to \in Hads /\ m.age \in Nat /\ m.age <= SendTicks + 1
      BY HADAssumption DEF TypeOK, Timing, Message
    <2>2. AliveHeard(m)
      BY Zenon DEF Undisturbed
    <2>3. CASE m.to # x
      BY <1>1, <1>4, <2>1, <2>2, <2>3, Zenon DEF AliveHeard
    <2>4. CASE m.to = x
      <3>1. ASSUME NextState(x) = "LEADER" PROVE FALSE
        <4>1. state[x] # "LEADER"
          BY <2>2, <2>4, Zenon DEF AliveHeard
        <4>2. state[x] = "ELECTION" /\ aliveList[x] = {} /\ CheckList(x, idList[x])
          BY <3>1, <4>1, NextStateFacts, Zenon DEF NoPrimary
        <4>3. ~(SinceStep(x) <= m.age + SendTicks)
          BY <1>3, <2>1 DEF Period
        <4>4. x < m.from /\ m.from \in idList[x]
          BY <2>2, <2>4, <4>2, <4>3, Zenon DEF AliveHeard
        <4> QED BY <2>1, <4>2, <4>4 DEF CheckList, Hads
      <3>2. SinceStep(x)' <= m.age + SendTicks
        BY <1>2, <2>1
      <3> QED BY <1>1, <2>4, <3>1, <3>2, Zenon DEF AliveHeard
    <2> QED BY <2>3, <2>4, Zenon
  <1>6. ASSUME NEW m \in net', m \notin net PROVE AliveHeard(m)'
    <2> SUFFICES ASSUME m.cmd = "ALIVE" PROVE AliveHeard(m)'
      BY Zenon DEF AliveHeard
    <2>1. m \in Sends(x, NextState(x))
      BY <1>6, Zenon DEF Step
    <2>2. NextState(x) = "LEADER" /\ m.from = x /\ m.to \in Others(x) /\ m.age = 0
      BY <2>1, Zenon DEF Sends, Peers
    <2>3. m.from # m.to /\ m.from \in Hads /\ m.to \in Hads
      BY <2>2, Zenon DEF Others
    <2>4. state'[m.from] = "LEADER" /\ SinceSend(m.from)' = 0
      BY <1>1, <1>2, <2>2, Zenon
    <2> QED BY <2>2, <2>3, <2>4, NewAlive, Zenon
  <1>7. ASSUME NEW h \in Hads, state'[h] = "LEADER" PROVE aliveList'[h] = {}
    <2>1. CASE h # x
      BY <1>1, <1>7, <2>1 DEF Undisturbed
    <2>2. CASE h = x
      <3>1. ~KeepsBuffers(x)
        BY <1>1, <1>7, <2>2 DEF KeepsBuffers
      <3> QED BY <2>2, <3>1, Zenon DEF Step, TypeOK
    <2> QED BY <2>1, <2>2, Zenon
  <1> QED BY <1>5, <1>6, <1>7, Zenon DEF Undisturbed

\* A call of cycle() that only sends.
LEMMA SendUndisturbed ==
    ASSUME TypeOK, Timing, Undisturbed, NEW x \in Hads, CycleSend(x), TypeOK', Timing', Pairs'
    PROVE  Undisturbed'
  <1> USE HADAssumption
  <1>1. /\ timer[x] = 0 /\ calls[x] = 1 /\ timer'[x] = Period /\ calls'[x] = 0
        /\ \A g \in Hads : g # x => timer'[g] = timer[g] /\ calls'[g] = calls[g]
        /\ UNCHANGED <<state, aliveList, idList>>
    <2>1. copies[x] = 1
      BY Zenon DEF Timing
    <2>2. CyclePeriod(x) = Period
      BY <2>1 DEF CyclePeriod, Period
    <2> QED BY <2>2 DEF CycleSend, Rearm, CycleDue, StepDue, TypeOK, MESSAGES_PER_INTERVAL_FACTOR
  <1>2. SinceSend(x)' = 0
    BY <1>1 DEF SinceSend, Period
  <1>3. \A g \in Hads : SinceStep(g)' = SinceStep(g)
    BY <1>1 DEF SinceStep, Period
  <1>4. ASSUME NEW m \in net PROVE AliveHeard(m)'
    <2>1. m.to \in Hads /\ AliveHeard(m)
      BY Zenon DEF TypeOK, Message, Undisturbed
    <2> QED BY <1>1, <1>3, <2>1, Zenon DEF AliveHeard
  <1>5. ASSUME NEW m \in net', m \notin net PROVE AliveHeard(m)'
    <2> SUFFICES ASSUME m.cmd = "ALIVE" PROVE AliveHeard(m)'
      BY Zenon DEF AliveHeard
    <2>1. m \in Sends(x, state[x])
      BY <1>5, Zenon DEF CycleSend
    <2>2. state[x] = "LEADER" /\ m.from = x /\ m.to \in Others(x) /\ m.age = 0
      BY <2>1, Zenon DEF Sends, Peers
    <2>3. m.from # m.to /\ m.from \in Hads /\ m.to \in Hads
      BY <2>2, Zenon DEF Others
    <2>4. state'[m.from] = "LEADER" /\ SinceSend(m.from)' = 0
      BY <1>1, <1>2, <2>2, Zenon
    <2> QED BY <2>2, <2>3, <2>4, NewAlive, Zenon
  <1> QED BY <1>1, <1>4, <1>5, Zenon DEF Undisturbed

\* A command is received: an ALIVE, by no leader.
LEMMA ReceiveUndisturbed ==
    ASSUME TypeOK, Undisturbed, NEW m \in net, Receive(m)
    PROVE  Undisturbed'
  <1>1. UNCHANGED <<state, calls, timer>> /\ net' = net \ {m}
    BY DEF Receive
  <1>2. m.from \in Hads /\ m.to \in Hads
    BY Zenon DEF TypeOK, Message
  <1>3. \A g \in Hads : aliveList[g] \subseteq aliveList'[g] /\ idList[g] \subseteq idList'[g]
    BY <1>2, SMTT(30) DEF Receive, TypeOK
  <1>4. \A g \in Hads : SinceStep(g)' = SinceStep(g)
    BY <1>1, Zenon DEF SinceStep
  <1>5. ASSUME NEW k \in net' PROVE AliveHeard(k)'
    <2>1. k \in net /\ k.to \in Hads /\ AliveHeard(k)
      BY <1>1, Zenon DEF TypeOK, Message, Undisturbed
    <2>2. aliveList[k.to] \subseteq aliveList'[k.to] /\ idList[k.to] \subseteq idList'[k.to]
      BY <1>3, <2>1, Zenon
    <2> QED BY <1>1, <1>4, <2>1, <2>2, Zenon DEF AliveHeard
  <1>6. ASSUME NEW h \in Hads, state'[h] = "LEADER" PROVE aliveList'[h] = {}
    <2>1. state[h] = "LEADER" /\ aliveList[h] = {}
      BY <1>1, <1>6, Zenon DEF Undisturbed
    <2>2. CASE m.cmd = "ALIVE"
      <3>1. m.to # h
        BY <2>1, <2>2, Zenon DEF Undisturbed, AliveHeard
      <3> QED BY <1>2, <2>1, <3>1, Zenon DEF Receive, TypeOK
    <2>3. CASE m.cmd # "ALIVE"
      BY <2>1, <2>3, Zenon DEF Receive
    <2> QED BY <2>2, <2>3, Zenon
  <1> QED BY <1>5, <1>6, Zenon DEF Undisturbed

\* A tick: the age of every command and the clock of its receiver advance.
LEMMA TickUndisturbed ==
    ASSUME TypeOK, Timing, Undisturbed, Tick
    PROVE  Undisturbed'
  <1> USE HADAssumption
  <1>1. UNCHANGED <<state, calls, aliveList, idList>>
    BY Zenon DEF Tick
  <1>2. \A h \in Hads : state[h] = "LEADER" => aliveList'[h] = {}
    BY <1>1, Zenon DEF Undisturbed
  <1>3. \A h \in Hads : state[h] = "ELECTION" => SinceStep(h) \in Nat
    BY ClockFacts, Zenon
  <1>4. ASSUME NEW k \in net' PROVE AliveHeard(k)'
    <2>1. PICK m \in net : k = [m EXCEPT !.age = @ + 1]
      BY Zenon DEF Tick
    <2>2. m \in Message
      BY Zenon DEF TypeOK
    <2>3. /\ k.cmd = m.cmd /\ k.from = m.from /\ k.to = m.to /\ k.age = m.age + 1
          /\ m.age \in Nat /\ m.to \in Hads
      BY <2>1, <2>2, Zenon DEF Message
    <2>4. AliveHeard(m)
      BY Zenon DEF Undisturbed
    <2>5. ASSUME state[m.to] = "ELECTION", SinceStep(m.to) <= m.age + SendTicks
          PROVE  SinceStep(m.to)' <= k.age + SendTicks
      <3>1. timer'[m.to] = timer[m.to] - 1
        BY <2>3, <2>5, Zenon DEF Tick, Timing, TypeOK
      <3>2. timer[m.to] \in Nat
        BY <2>3, Zenon DEF TypeOK
      <3>3. SinceStep(m.to)' = SinceStep(m.to) + 1
        BY <1>1, <3>1, <3>2, SMTT(30) DEF SinceStep, Period
      <3>4. SinceStep(m.to) \in Nat
        BY <1>3, <2>3, <2>5, Zenon
      <3> QED BY <2>3, <2>5, <3>3, <3>4
    <2> QED BY <1>1, <2>3, <2>4, <2>5, Zenon DEF AliveHeard
  <1> QED BY <1>1, <1>2, <1>4, Zenon DEF Undisturbed

\* A HAD that exits or starts is no leader and no candidate.
LEMMA RestartUndisturbed ==
    ASSUME TypeOK, Timing, Undisturbed, NEW x \in Hads, Crash(x) \/ Start(x)
    PROVE  Undisturbed'
  <1>0. Start(x) => state[x] = "PRE"
    BY Zenon DEF Start, Timing
  <1>1. /\ state'[x] = "PRE" /\ net' \subseteq net
        /\ \A g \in Hads : g # x => /\ timer'[g] = timer[g] /\ calls'[g] = calls[g]
                                   /\ state'[g] = state[g]
                                   /\ aliveList'[g] = aliveList[g] /\ idList'[g] = idList[g]
    BY <1>0, SMTT(30) DEF Crash, Start, TypeOK
  <1>2. \A g \in Hads : g # x => SinceStep(g)' = SinceStep(g)
    BY <1>1 DEF SinceStep
  <1>3. ASSUME NEW m \in net' PROVE AliveHeard(m)'
    <2>1. m \in net /\ m.to \in Hads /\ AliveHeard(m)
      BY <1>1, Zenon DEF TypeOK, Message, Undisturbed
    <2>2. CASE m.to = x
      BY <1>1, <2>2, Zenon DEF AliveHeard
    <2>3. CASE m.to # x
      BY <1>1, <1>2, <2>1, <2>3, Zenon DEF AliveHeard
    <2> QED BY <2>2, <2>3, Zenon
  <1>4. ASSUME NEW h \in Hads, state'[h] = "LEADER" PROVE aliveList'[h] = {}
    BY <1>1, <1>4, Zenon DEF Undisturbed
  <1> QED BY <1>3, <1>4, Zenon DEF Undisturbed

\* The pool starts in the invariant of the leader, and every action keeps it.
LEMMA InitLeaderInv == Init => LeaderInv
  <1> SUFFICES ASSUME Init PROVE Undisturbed
    BY InitIInv, Zenon DEF LeaderInv
  <1> QED BY Zenon DEF Init, Undisturbed

\* Every step keeps the invariant of a leader that nobody disturbs.
LEMMA NextLeaderInv == LeaderInv /\ [Next]_vars => LeaderInv'
  <1> SUFFICES ASSUME LeaderInv, [Next]_vars PROVE LeaderInv'
    BY Zenon
  <1>1. IInv /\ IInv'
    BY NextIInv, Zenon DEF LeaderInv
  <1>2. ASSUME ~lossy', NoPrimary' PROVE Undisturbed'
    <2>1. ~lossy /\ usePrimary' = usePrimary
      BY <1>1, <1>2, Zenon DEF Next, Daemons, Failures, CycleStep, Step, CycleSend, Receive, Tick, Crash, ChildOnFails,
                  ChildOffFails, Start, Partition, Repair, Lose, vars, daemonVars, IInv, TypeOK
    <2>2. NoPrimary /\ Undisturbed
      BY <1>2, <2>1, Zenon DEF NoPrimary, IsPrimary, LeaderInv
    <2>3. TypeOK /\ Timing /\ Pairs /\ TypeOK' /\ Timing' /\ Pairs'
      BY <1>1, <1>2, <2>1, <2>2, Zenon DEF IInv
    <2>4. CASE UNCHANGED vars
      <3>1. /\ state' = state /\ calls' = calls /\ timer' = timer /\ net' = net
            /\ aliveList' = aliveList /\ idList' = idList
        BY <2>4, Zenon DEF vars, daemonVars
      <3>2. ASSUME NEW m \in net PROVE AliveHeard(m)'
        <4>1. AliveHeard(m) /\ SinceStep(m.to)' = SinceStep(m.to)
          BY <2>2, <3>1, Zenon DEF SinceStep, Undisturbed
        <4> QED BY <3>1, <4>1, Zenon DEF AliveHeard
      <3> QED BY <2>2, <3>1, <3>2, Zenon DEF Undisturbed
    <2>5. CASE Next
      <3>1. \/ \E x \in Hads : Step(x) \/ CycleSend(x) \/ Crash(x) \/ Start(x)
            \/ \E m \in net : Receive(m)
            \/ Tick
        BY <1>2, <2>3, <2>5, Zenon DEF Next, Daemons, Failures, CycleStep, ChildOnFails, ChildOffFails,
                                      Partition, Repair, Lose, Pairs
      <3> QED BY <2>2, <2>3, <3>1, StepUndisturbed, SendUndisturbed, ReceiveUndisturbed,
                 TickUndisturbed, RestartUndisturbed, Zenon
    <2> QED BY <2>4, <2>5, Zenon
  <1> QED BY <1>1, <1>2, Zenon DEF LeaderInv

\* However many hosts HAD_LIST names and whenever HADs exit and start: without
\* a primary and without losses no step() makes a leader give way, not even to
\* the delayed ALIVE of a leader that has exited.
THEOREM LeaderStays == Spec => Incumbent
  <1> DEFINE A == \A h \in Hads : (~lossy' /\ NoPrimary /\ up'[h] /\ state[h] = "LEADER")
                                      => state'[h] = "LEADER"
  <1>1. LeaderInv /\ [Next]_vars => [A]_vars
    <2> SUFFICES ASSUME LeaderInv, Next, NEW h \in Hads, ~lossy', NoPrimary, up'[h],
                        state[h] = "LEADER"
                 PROVE  state'[h] = "LEADER"
      BY Zenon
    <2>1. ~lossy /\ TypeOK
      BY Zenon DEF Next, Daemons, Failures, CycleStep, Step, CycleSend, Receive, Tick, Crash, ChildOnFails,
             ChildOffFails, Start, Partition, Repair, Lose, LeaderInv, IInv, TypeOK
    <2>2. aliveList[h] = {}
      BY <2>1, Zenon DEF LeaderInv, Undisturbed
    <2>3. NextState(h) = "LEADER"
      BY <2>1, <2>2, NextStateFacts, Zenon DEF CheckList
    <2>4. ASSUME NEW g \in Hads, Step(g) PROVE state'[h] = "LEADER"
      BY <2>1, <2>3, <2>4, Zenon DEF Step, TypeOK
    <2>5. ASSUME NEW g \in Hads, Crash(g) PROVE state'[h] = "LEADER"
      BY <2>1, <2>5, Zenon DEF Crash, TypeOK
    <2> QED BY <2>4, <2>5, Zenon DEF Next, Daemons, Failures, CycleStep, CycleSend, Receive, Tick, ChildOnFails,
                ChildOffFails, Start, Partition, Repair, Lose, daemonVars
  <1>2. LeaderInv /\ [Next]_vars => LeaderInv'
    BY NextLeaderInv, Zenon
  <1> QED BY <1>1, <1>2, InitLeaderInv, PTL DEF Spec, Incumbent
=============================================================================
