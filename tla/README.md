# A verification of HTCondor in TLA+

This directory models parts of HTCondor (the `src/` tree of this repository)
in TLA+, checks them with TLC on small instances, and proves the most important
properties with TLAPS for every value of the constants.

Sources are named below relative to `src/`, e.g. `condor_startd.V6/ResState.cpp`;
the manual is under `doc/`.

## 1. The system and its parts

HTCondor is a set of single-threaded daemons on top of DaemonCore (a select
loop that serves sockets, timers, signals and child exits one at a time).

| part | what it does | here |
| --- | --- | --- |
| `condor_startd` | owns a machine's *slots*; each slot is a state machine (Owner, Unclaimed, Matched, Claimed, Preempting, Backfill, Drained) with activities, up to three `Claim` objects and a `Starter` | `StartdClaim`, `StartdSlot` |
| `condor_starter`, `condor_shadow` | run the job and its agent on the submit side | the starter appears as a process that obeys, ignores or loses signals |
| `condor_schedd` | job queue (on the ClassAd log), match records, shadows | commands that reach the startd |
| ClassAd log | persistent table of ads of the job queue, the accountant and others | `LogRecords`, `ClassAdLog`, `DurableTable` |
| `condor_had` | leader election of the central manager | `HADElection` |
| `condor_dagman` | runs the nodes of a DAG as jobs, and recovers from its job log | `Dag`, `DAGMan` |
| DaemonCore timers | the timer list of every daemon | `TimerManager` |
| `condor_negotiator`, `condor_collector` | matchmaking, the ad table | MATCH_INFO at the startd |
| `condor_master`, procd, CCB, lease manager, transfer queue, HAD replication, user log | supervision, process families, connection brokering, leases | not modelled, see section 8 |
| grid manager, file transfer, CEDAR, security, ClassAd language, tools | I/O, external services, expression evaluation | not modelled |

`PROJECT.json` lists every part with its status and the reason.

How the parts of the slot interact: the negotiator's MATCH_INFO and the schedd's
REQUEST_CLAIM, ACTIVATE_CLAIM, DEACTIVATE_CLAIM, RELEASE_CLAIM, ALIVE,
SUSPEND/CONTINUE_CLAIM arrive as commands (`command.cpp`); the machine's policy
is evaluated on a poll timer (`ResState::eval`); the starter's exit arrives at a
reaper; leases, matches and kill escalation are timers; draining and shutdown
come from administrators. Each handler ends in `ResState::change`, which calls
`leave_action`, `enter_action` and `eval`, and those may call `change` again.

The four other models stand beside the slot: every daemon keeps its timers in
one `TimerManager`; the schedd's queue and the accountant's table are
`ClassAdLog`s; a `condor_had` on each central manager decides whose master runs
the negotiator; `condor_dagman` is a client of the schedd that submits jobs and
follows their event log.

## 2. Modules

| module | content |
| --- | --- |
| `StartdClaim` | the `Claim` and `Starter` objects as records; the methods that change them as operators |
| `StartdSlot` | one static slot: state, actions, properties, fairness |
| `StartdSlotInv` | the inductive invariants `IInv` and `RankInv` |
| `MCStartdSlot`, `MCStartdSlotLive` | instances for TLC |
| `StartdSlotHandlers_proofs` | lemmas on the claim operators; `IInv` is preserved by the steps inside a handler |
| `StartdSlotEvents_proofs` | `IInv` is preserved by every event |
| `StartdSlot_proofs` | the theorems |
| `LogRecords` | the log's records, what they do to the table, replay and look-through, as operators |
| `ClassAdLog` | the log of one daemon: buffer, file, transactions, rotation, crashes |
| `DurableTable` | what the log promises: the abstract specification, with the table's operations as parameters |
| `ClassAdLogInv` | the inductive invariants `LogInv` and `LookupInv` |
| `MCClassAdLog` | instances for TLC |
| `LogRecords_proofs` | induction over a sequence; lemmas on replay, rotation and the look through a transaction |
| `ClassAdLog_proofs` | the theorems on the log, the refinement of `DurableTable` among them |
| `HADElection` | the HADs of a pool: states, buffers, cycles, commands, faults |
| `HADElectionInv` | the inductive invariants behind `OneNegotiator` and `Incumbent` |
| `MCHADElection` | instances for TLC |
| `HADElection_proofs` | lemmas and theorems of the election |
| `Dag` | the `Dag` object of `condor_dagman` as a record, its methods as operators |
| `DAGMan` | `condor_dagman`, the jobs it submitted and their log: actions and properties |
| `DAGManInv` | the inductive invariant of `condor_dagman` |
| `MCDAGMan` | small DAGs for TLC |
| `DAGMan_proofs` | every method of `Dag` keeps the object sound; the theorems on `condor_dagman` |
| `TimerManager` | the timer list, the methods that change it and `Timeout()` |
| `TimerManagerInv` | the inductive invariant of the timer list |
| `MCTimerManager` | instance for TLC |
| `TimerManager_proofs` | lemmas on the linked list (what walking, removing and inserting do) and the theorems on the timers |

Definitions whose comment begins with *Slip* are deliberately wrong variants of
the definition that follows them. No specification uses them; replacing the
definition by its slip shows that a property can tell the difference.

### How StartdSlot corresponds to the code

*State.* `r_state`, `r_act`, `r_destination`, `r_act_was_benchmark` are the
members of `ResState`; `r_cur`, `r_pre`, `r_pre_pre`, `m_bUserSuspended` those of
`Resource`; `rstate` of `Reqexp`; `draining...`, `is_shutting_down` of `ResMgr`;
`boinc` says that the backfill manager has a client for the slot. A claim record
has the fields the control reads: its `ClaimState`, the pending request stream,
a BOOLEAN for each registered timer, and the flags of the starter.

*Control.* A handler runs to its end before the next event, but inside it
`change`, `enter_action` and `eval` call each other. Nearly all these calls are
tail calls. The stack is therefore two registers: `fn`, the function about to run
(with its arguments `to_state`, `to_act`, `statechange`), and `then`, what the
outermost caller still does after the call returns. `fn = "ready"` is the select
loop. Events (`Event`) are enabled only there; all other steps (`Handler`) finish
a handler. An `EXCEPT` or a failed `ASSERT` leads to `fn = "except"`.

*Actions.* `ChangeNothing`, `ChangeAborted`, `ChangeMade` are `ResState::change`
with `leave_action`; the `Enter...` actions are the cases of `enter_action`; the
`Eval...` ones those of `eval`; `LeavePreempting` is `leave_preempting_state`;
`AcceptClaim` is `accept_request_claim`; `SetUnavail`, `SetUserSuspended`,
`SetDestOwner`, `StarterGone` are what callers do after `change` returned. Each
event is one command handler, timer handler or reaper, with all its early
returns.

*Nondeterminism.* Each policy expression may give any result; each signal may
fail; a connection may break while the startd replies; the hold message to the
starter may be answered, fail or get no answer.

*Abstractions.* One static slot. Claim ids are roles: a command "for the current
claim" is one whose id equals that of `r_cur` when it arrives. Two policy
expressions evaluated in one handler are independent. `claimWorklifeExpired`,
the benchmark results and the progress of other slots under draining are
nondeterministic. When draining is cancelled its two qualifiers are reset; the
code leaves them stale, and nothing reads them then. `killpg` is the flag `doomed`,
"SIGKILL was sent to the family". The bounce between START_BACKFILL looks in
the first benchmark evaluation is one look.

*Left out of the slot.* COD claims, work-fetch hooks, partitionable and dynamic slots
with consumption policies, paired slots, VM universe, hibernation, `swap_claims`,
the backfill manager's deletion at reconfiguration and its other slots.

### How ClassAdLog corresponds to the code

*State.* `table`, `txn` are `table` and `active_transaction`; `buf` is the stdio
buffer of `log_fp`, `file` what was written of the log, `synced` how many of its
records are on disk; `tmp` is `<log>.tmp`; `old` is the file a rename replaced,
until the directory is synced; `must` is `requires_successful_cleaning`. `mode`
is where the daemon is: down, in the constructor (`cleaning`), between calls
(`open`), before the fsync of a durable change (`forcing`), in `TruncLog`
(`logstate`, `closed`, `renamed`), or refusing the log (`stuck`).

*Actions.* One for each public operation that changes state; `TruncLog` and a
durable commit are cut where a crash makes a difference. `Recover` is the constructor up to
its rotation. `ProcessDies` also stands for every `EXCEPT` after a failed write,
flush or fsync. When stdio writes its buffer on its own, whole or in part, only
a crash can tell, so the crash chooses how much was written, to the middle of a
record.

*Data.* An ad has one attribute; sequence numbers and historical copies carry no
number. Clients create ads they do not have and change those they have, as
the schedd and the accountant do.

*Assumptions made explicit.* `Faults` and `Recreates` say what may happen.
The passing runs assume that no temporary file of an unfinished rotation is
around at the next one, that a rename is on disk before a daemon that died
right after it has restarted, that nondurable writes succeed, and that no transaction recreates an ad it
destroyed. Section 5 shows what each assumption hides.

*Left out of the log.* Handing the active transaction from one client of
the schedd to another (`getActiveTransaction`), local backups of transactions,
collections, plugins, read-only opening.

### How HADElection corresponds to the code

*State.* `state`, `calls`, `aliveList`, `idList`, `usePrimary` are `m_state`,
`m_callsCounter`, `receivedAliveList`, `receivedIdList`, `m_usePrimary` of each
host; `timer` counts down to the next `cycle()`; `copies` says how often
`getHadList` has inserted `HAD_LIST` in `m_otherHadIps`; `negotiator` is what the
master was last told. `net` holds the commands on their way, `side` the part of
the network of each host.

*Actions.* `CycleStep` is a `cycle()` that calls `step()`, `CycleSend` one that
only sends; `Receive` is `commandHandlerHad`; `Start`, `Crash` and
`Reinitialize` are the start of the daemon, its end, and `reinitialize` after a change of
the configuration (only in `SpecReconfigure`, where nothing else goes wrong); `ChildOnFails` and `ChildOffFails` are the two answers of
`step()` to a master that cannot be reached. `Lose`, `Partition` and `Repair` are the network's. A partition drops the commands on their way across the
cut, and a send across it fails (`Peers`); a repair may come at any time after it and does not count as a fault.

*Time.* `softReconfigure` chooses the time between two cycles as the time all
sends of a cycle may take with both timeouts. In the model one pass over the other
hosts of `HAD_LIST` may take `SendTicks` ticks, and the command to the master one; a HAD that
wins sends `CHILD_ON` first, so its first `ALIVE` may be one tick later than the others (`late`, `Tick`). A
cycle begins after the sends of the one before (`SendsDone`). Within that, commands arrive in any order and at any time.
Two things are left out: the second of safety that `softReconfigure` adds, without which events of two hosts may
fall on the same tick, in either order; and the time for which a receiver is busy with sends of its own and
leaves a command in its socket.

*Left out of the election.* Commands to the replication daemon, the ad for the
collector, stand-alone mode.

### How DAGMan corresponds to the code

*State.* `dag` is the `Dag` object with its jobs and script queues: a record
with a field for each member that the control reads. `log` is the default node
log, `pos` the reader's place in it, `queue` the clusters in the schedd. `pc` is
where `condor_event_timer` is: between two calls (`wait`), in `SubmitReadyJobs`
(`submit`), in `ProcessLogEvents` (`read`), or in `Bootstrap` in recovery mode
(`recover`); or how `condor_dagman` ended. `finished` remembers the nodes that
were ever done.

*Actions.* The methods of `Dag` call each other, so `Dag.tla` has them as operators that are composed,
one per method; `d.dead` is an `EXCEPT` or a failed `ASSERT`, and `ForEach` a loop over nodes. In `DAGMan`,
`SubmitSucceeds` and `SubmitFails` are one turn of `SubmitReadyJobs`,
`ReadEvent` is `ProcessOneEvent` with the checks of `CheckEvents`, `FinishTimer`
the rest of `condor_event_timer`; `PreScriptExits` and `PostScriptExits` are the
reapers, which run between two calls of the timer. Jobs write their events at
any time, also while the log is read. A `Crash` loses the `Dag` object; the
next `condor_dagman` reads the log from its beginning while the old jobs run on.

*Defaults.* `DAGMAN_ALLOW_EVENTS`, `DAGMAN_RETRY_SUBMIT_FIRST`,
`DAGMAN_RETRY_NODE_FIRST` and `DAGMAN_ABORT_ON_SCARY_SUBMIT` have their default
values. `condor_submit` and the submit events it causes are one step.

*Left out of DAGMan.* The halt file, the FINAL node, ABORT-DAG-ON, UNLESS-EXIT,
holds, NOOP nodes, sub-DAGs and splices, Stork, several log files, categories,
priorities, the delay after a failed submission, the submissions per
interval, the writing of rescue DAGs, and scripts that cannot be spawned (see the end of
section 5).

### How TimerManager corresponds to the code

*State.* `list` has `timer_list`, `list_tail` and the `next` pointers; `timer`
the `when`, `period` and `period_started` of each timer; `alive` says which are not
deleted. `in_timeout`, `did_reset`, `did_cancel` are the members; `pc` says
whether the daemon is in `select()` or serving commands (`select`), in the loop
of `Timeout()`, or in a handler. `wake` is what bounds the `select()`.

*Actions.* `NewTimer`, `ResetTimer`, `ResetTimerPeriod`, `CancelTimer`,
`CancelAllTimers` may be called by the handler of a timer and between two
`Timeout()`s. `Timeout()` is cut at the calls of handlers: `StartTimeout`,
`CallHandler`, `HandlerReturns`, `EndTimeout`.

*Left out of the timers.* Timers with a timeslice, a clock that is set back,
`TimerManager::Start`, which no daemon uses, and a `Timeout()` called from a
handler, which returns without a change.

## 3. Runs

| run | module, cfg | asks | result |
| --- | --- | --- | --- |
| `slot` | `MCStartdSlot` | `NoExcept`, `ClaimsMatchState`, `LeaseWhileClaimed`, `PreemptingWillEnd`, `PendingRequestProgresses`, `BackfillExcludesJob`, `BusyNotRetired`, `StarterNeverAbandoned`, and the inductive invariant `IInv`, which implies the other invariants of section 6, with one rank, backfill and alives sent by the schedd | holds, 1.1 million states |
| `slot_ranks` | `MCStartdSlotRanks.cfg` | `PreemptingRankSuffices` with two ranks, the events of `RankEvent` and alives sent by the startd | holds, 855,000 states |
| `slot_live` | `MCStartdSlotLive` | `PreemptingEnds`, `PreemptingRequestAnswered` under fairness | holds, 94,000 states |
| `log` | `MCClassAdLog` | `NeverUnrecoverable`, `AppendsToSoundLog`, `LookupIsStrict` with two keys | holds, 659,000 states |
| `log_durable` | `MCClassAdLogDurable.cfg` | `ImplementsDurableTable`: the log refines `DurableTable`, with `safe` mapped to the tables that a crash now can leave | holds, 11,000 states |
| `had` | `MCHADElection` | `OneNegotiator`, `Stabilises`, `NegotiatorFollowsLeader`, `Incumbent`, `FirstKeepsLeading` for three hosts, any one fault and the repair of a split (`SettledSpec`) | holds, 3.8 million states |
| `dag` | `MCDAGMan` | `NeverExcepts`, `ParentsFirst`, `DoneStaysDone`, `OneCluster`, `AttemptsBounded`, `CountersAgree`, `EndsWell`, `NeverStuck`, `NoRerun` for single jobs and two crashes | holds, 416,000 states |
| `dag_cluster` | `MCDAGManCluster.cfg` | `NeverExcepts`, `PostAfterCluster`, `CountersAgree`, `MaxJobsKept` with a cluster of two jobs, an eviction or duplicated event, and a crash | holds, 1.2 million states |
| `timers` | `MCTimerManager` | `NeverExcepts`, `ListSound`, `NoOversleep`, `NoOvertaking`, `TimeoutReturns` | holds, 72,000 states |
| `log_stale_tmp`, `had_reconfig`, `dag_preskip` | `*_stale_tmp.cfg`, `*_reconfig.cfg`, `*_preskip.cfg` | what a comment says | violated, see section 5 |

*Bounds.* The slot's state is finite once the ranks are: no other bound is
needed. The control compares ranks only with `>` and `>=`, between at most two
claims at a time, so two ranks show every case; the other properties do not
mention ranks and use one. Backfill, startd-sent alives
and a second rank multiply the states, so the first run has backfill and the second one the
alives and the ranks, with the events that bear on a rank (`RankEvent`); the proofs of section 6
cover every combination. The liveness
run has the events of a claim's life, preemption and draining.

`MaxRecords` bounds what log, buffer and transaction hold together; rotation
makes room again, so behaviours are not bounded. Seven records are the header, two single operations and a
transaction of two, or a transaction of four: enough for a transaction that is torn between two
keys, behind earlier records. The refinement is slow to evaluate and uses one key and six records:
creating an ad and setting its attribute in one transaction already tells a torn
transaction from a whole one.

The election is unbounded in time; `MaxFaults` bounds the faults of a behaviour.
Two leaders need two hosts, and a third one shows that what one of them has
heard does not help another. The run repairs a split when its parts have settled, which is when they have
leaders of their own. Three hosts with one fault and a repair at any time (`Spec`, 7.2 million states)
and two hosts with three faults hold as well. `Stabilise` is the time after which
`Stabilises` asks for one negotiator. The run uses 18 ticks, four and a half intervals, and that is the least bound
that holds: with 17 a single fault breaks it, and without any fault 17 is the least. The manual's
formula (`doc/admin-man/ha.tex:336`) gives about three intervals. The model does not refute it, since a tick
is half the time between two cycles and a delay of part of one counts as a whole one; the run shows that there is a bound, not
the manual's.

The DAGs have two parents and a child; between them the nodes have a PRE script,
a PRE_SKIP, a POST script and a retry, and every throttle is at a value that is
reached. Crashes and retries are in the run of single jobs, evictions and duplicated events in the
run with a cluster: all together grow too fast. Behaviours are finite, since retries, crashes and mishaps are bounded, so
`NeverStuck` is the liveness statement: where nothing more can come from jobs and scripts,
`condor_dagman` submits or exits. The cluster's DAG with `MaxJobs = 2` (11 million states),
and retries of POST nodes with two crashes and a mishap, hold as well.
The DAGs leave out four combinations of features for which the code fails these
properties; section 5 lists them, so the two runs say nothing of DAGs that use them.

Three timers are needed for a list with an inner element, and `MaxFires` has the code's
value; asking for a timer at once, every second or never gives every
order of times with two values of the clock. A clock of three values holds as well
(215,000 states).

*Deadlock* is checked for the log, the election and the timers. It is not for the slot, where
`CheckFree` ends in `fn = "exited"`, nor for `condor_dagman`, which exits.

## 4. Fairness

`Fairness` in `StartdSlot` assumes: a handler runs to its end (`WF(Handler)`, one
thread); a timer that stays registered fires, however many commands arrive in between
(`SF` on `SoftkillTimeout`, `SigkillStarter`, `Poll`: DaemonCore serves timers on
every turn of its loop); and a process that was sent SIGKILL is reaped (`SF` on the
exit of a doomed starter). No fairness is assumed of schedds, of
starters that were only asked to exit, or of the hold message's answer. Nor is it assumed that retirement ends:
it is measured by the time the job runs (`getJobTotalRunTime`), which stops while the job is suspended, and a peaceful retirement has no end.
`PreemptingRequestAnswered` therefore has an alternative, `HoldsOut`: from some time on the claim before the request
is active for ever and, whenever no handler runs, retiring or suspended. What the run
excludes is a request that waits for ever while that claim is idle, busy, killed or gone. An active claim need not have
a starter: `condor_suspend` on an idle claim makes it count as suspended, and it holds out as a job does.

`FairSpec` in `TimerManager` assumes that the loop of `Timeout()` goes on and that a handler
returns. It does not assume which methods a handler calls: it may reset its
timer to zero each time.

## 5. Disagreements between the code and what is said about it

Three are runs with the single property named; `PROJECT.json` quotes the line.

| run | property | what happens |
| --- | --- | --- |
| `log_stale_tmp` | `AppendsToSoundLog` | `<log>.tmp` left by an unfinished rotation is overwritten, not truncated: its tail becomes part of the next log |
| `had_reconfig` | `OneNegotiatorWhenReconfigured` | each hard reconfiguration inserts `HAD_LIST` again in the list of peers, which stretches the HAD's cycle until a peer hears nothing for two intervals and leads as well; five reconfigurations do |
| `dag_preskip` | `SkipIDsFresh` | recovery starts the IDs of PRE_SKIP events at zero again; the second node with an ID fails an `ASSERT`, also in every later recovery |

The following properties are defined in the modules and fail as well; each can be
seen by making it the only property of a cfg like that of the run named
(`MatchTimerOnlyMatched` and `BusyHasStarter` are invariants; `HasBackfill = FALSE` makes it quick).

| property, as in run | what happens |
| --- | --- |
| `MatchTimerOnlyMatched`, `slot` | a MATCH_INFO that arrives after the REQUEST_CLAIM it announces arms a match timer that later fires in Claimed; `match_timed_out` (`claim.cpp:611`) says this "kept happening, and we couldn't figure out why" |
| `BusyHasStarter`, `slot` | suspend and continue of an idle claim end in Claimed/Busy without a starter (`doc/admin-man/policy.tex:670`) |
| `SuspendedByPolicyCanContinue`, `slot` | the flag of `condor_suspend` survives its claim; a later suspension by policy ignores CONTINUE (`policy.tex:1156`) |
| `ClaimEndNotified`, `slot` | if the soft kill cannot be sent the claim ends without a message to its schedd (`policy.tex:1270`) |
| `ShutdownBeginsNoClaim`, `slot` | a request waiting to preempt is accepted during shutdown (`startd_main.cpp:724`, `:732`) |
| `AppendsToSoundLog`, `log` with `SpecDiskFull` | a nondurable commit whose write fails is played and not reported (`log_transaction.cpp`, rule 4 before `Commit`) |
| `ImplementsDurableTable`, `log_durable` with `"lost_rename"` in `Faults` | after a crash between the rename and the directory's fsync nothing syncs the directory, and changes forced later can vanish with the rename |
| `LookupIsStrict`, `log` with `Recreates = TRUE` | `ExamineTransaction` does not forget at a destroy the attribute it has found |

In the slot, too, a match timer that expires in Preempting restores the advertised
Requirements, and the end of the vacating time kills the starter hard without
entering the Killing activity.

In `condor_dagman`, changing the constants of the DAG shows more. None of the first four
combinations is in a passing run:

- *A cluster of several jobs with RETRY and without POST.* `ProcessJobProcEnd` restarts the
  node at the first proc that fails, while others are queued; the next
  one restarts it again and `SubmitReadyJobs` meets a node that is "not STATUS_READY"
  (`NeverExcepts`). The manual says "Retry is implemented on nodes, not parts of a
  node" (`doc/user-man/dagman.tex:1000`).
- *A cluster without RETRY and POST* whose first proc fails and whose last one succeeds is
  never counted as failed, and the DAG ends in "no cycle found; unknown error
  condition" (`EndsWell`); `dagman_main.cpp:1539` says that "at least one job
  failed, or a cycle exists".
- *PRE, POST and RETRY together.* The POST script of an attempt whose PRE script
  failed writes its event with the CondorID of the attempt before. `CheckPostTerm` counts a second
  event, it is ignored, and the node stays in POSTRUN (`NeverStuck`).
- *PRE_SKIP and RETRY together.* A late duplicate of an end event is looked up when the
  node has the ID of its PRE_SKIP event, and `FindNodeByEventID` EXCEPTs (`NeverExcepts`).
- *Submission retries.* `_submitTries` is never reset, so a retry has only the submit attempts that
  the attempts before it left.

Not modelled, but met when reading: a script that cannot be spawned is reaped inside
`ScriptQ::Run`, after which no `RunWaitingScript` follows, so scripts put off by
`maxpre` or `maxpost` wait until another script of the kind ends, and for ever if
there is none (the comment at `scriptQ.cpp:110` says that the code prevents such a hang); `MAX_FIRES_PER_TIMEOUT` is 3, so the check for a clock that
was set back, made "every 10 times we loop" of one `Timeout()`, is never made; the comment
before `Timeout()` exchanges the results for an empty list and for a call from a
handler; `ResetTimerPeriod` from the timer's own handler would make it due at once
(no caller does that); and `isHardConfigurationNeeded` compares the list of HADs with itself.

## 6. Proofs

`StartdSlot_proofs` proves, for every set of ranks and both settings of
`StartdSendsAlives` and `HasBackfill`:

| theorem | property |
| --- | --- |
| `SlotInvariant` | `[]IInv` |
| `TypeCorrect` | `[]TypeOK` |
| `NeverExcepts` | `[]NoExcept` |
| `ClaimsAlwaysMatch` | `[]ClaimsMatchState` |
| `AlwaysLeased` | `[]LeaseWhileClaimed` |
| `PreemptingIsBounded` | `[]PreemptingWillEnd` |
| `StartersInUse` | `[]StarterOnlyInUse` |
| `ParkedRequests` | `[](PendingRequestProgresses /\ DestinationOnlyWhileKilling)` |
| `BackfillExclusive` | `[]BackfillExcludesJob` |
| `RetirementTakesEffect` | `[]BusyNotRetired` |
| `StartersReaped` | `StarterNeverAbandoned` |
| `PreemptionByRank` | `[]PreemptingRankSuffices` |

*Assumptions*: the ranks are a nonempty set of integers, the two settings are
Booleans, and `NoClaim` (a null pointer) is not a claim.

*Argument.* The properties speak of the moments between handlers and are not
inductive: a handler passes through states in which, say, the claim of an
Owner slot still has a starter. `IInv` says what is true at every point of a
handler: which functions may run (`ControlInv`), and, state by state, which claim
objects exist there and where a pending `change` may go (`FreeInv`,
`BackfillInv`, `ClaimedInv`, `PreemptingInv`). A claim is either `Fresh` (never
begun) or `Begun`; `Begun` ties timers, hold message and SIGKILL to a starter
and a pending hold message to a timer; `WillDie` is the promise kept in
Preempting. The first lemmas of `StartdSlotHandlers_proofs` show once what each claim operator does to
these predicates; the handlers' and events' lemmas then treat them as opaque.
The events share four step lemmas, one per kind of slot. For the ranks `RankInv` is added: an
activation gives the current claim a new rank, so that the waiting claim still outranks it
needs that a claim which could be activated is already on its way out.

`HADElection_proofs` proves, for every number of hosts, time of a send and number of faults:

| theorem | property |
| --- | --- |
| `OnlyOneNegotiator` | `[]OneNegotiator` |
| `MasterFollowsHAD` | `[]NegotiatorFollowsLeader` |
| `HADTypes` | `[]TypeOK` |
| `FirstLeads` | `FirstKeepsLeading` |
| `LeaderStays` | `Incumbent` |

*Assumptions*: `HADAssumption`, that there is a host and the bounds are natural numbers;
and, in the model itself, the bound on a command's delay. Nobody reconfigures (`Spec`).

*Argument.* That two HADs do not both lead cannot be seen from their states: it
depends on what each has heard. `IInv` (in `HADElectionInv`) therefore speaks of
pairs. `CandidateHeard(g, h)`: the id command that candidate `g` sent in its last
cycle is still on its way to `h`, or is in `h`'s list, or was sent before `h` last cleared
its lists; and once `g` is about to step again its command has arrived. `LeaderHeard` says the same of a leader's
ALIVE. `Timing` relates ages of commands to timers. Of two candidates, the one with the lower id has then
heard of the other before it may lead; the early return of `step()` in the passive state that keeps the lists is not needed for it.
With a lost command or a primary the invariant claims nothing of pairs: two negotiators may then overlap
until the protocol has settled again (`ha.tex:244`, `:254`), a time that `Stabilises` bounds. TLC checked `IInv` and `LeaderInv` for two hosts
and three faults, and three hosts and one. A leader steps back only when it hears an ALIVE of a higher id; `LeaderInv`
adds that none is on its way to it, from a HAD that has stopped leading either.

`TimerManager_proofs` proves, for every number of timers, set of requests, range of the clock and
value of `MAX_FIRES_PER_TIMEOUT`:

| theorem | property |
| --- | --- |
| `Invariance` | `[]IInv` (of `TimerManagerInv`) |
| `ListSoundHolds` | `[]ListSound` |
| `NoOversleepHolds` | `[]NoOversleep` |
| `NoOvertakingHolds` | `NoOvertaking` |
| `NeverExceptsHolds` | `[]NeverExcepts` |

*Assumptions*: `TimerAssumption`, that the bounds are natural numbers and the requests lie in them.

*Argument.* The code follows `next` pointers; `IInv` says that there is an order `o` of `n`
distinct timers (`Chain`) of which head, tail and pointers are the links, that it is sorted, and that it holds
the live timers, but for one that its own handler has cancelled. The lemmas show that a walk
along a chain meets `o[1]`, `o[2]`, ... and stops (no walk is longer than the number of timers, by a pigeonhole argument),
that `RemoveTimer` gives the chain without one element, and that `InsertTimer`
gives a sorted chain with the new one behind all that are not later. From then on only `o` is
spoken of. `RoundRobin` is what `NoOvertaking` needs besides: a timer that fired while `t` was due is behind
`t` once its handler has returned, unless it is gone. TLC checked `IInv` on the instance of the run.

`ClassAdLog_proofs` proves, for every finite set of keys, set of ads and length of the log:

| theorem | property | provided |
| --- | --- | --- |
| `LogInvariance` | `[]LogInv` | no stale `<log>.tmp` |
| `LogIsSound` | `[](TypeOK /\ NeverUnrecoverable /\ AppendsToSoundLog)` | no stale `<log>.tmp` |
| `LookupsAreStrict` | `[]LookupIsStrict` | the same, and nobody recreates an ad in the transaction that destroyed it |
| `LogImplementsDurableTable` | `ImplementsDurableTable` | no stale `<log>.tmp`, and a rename is on disk before a restart |

*Assumptions*: the keys are a finite set and `NoAd` is not an ad (`KeysAssumption`, `NoAdAssumption`), and the
types of the other constants. The conditions in the last column are hypotheses of the theorems, and
section 5 has a counterexample without each of them.

*Argument.* `LogInv` relates the disk to the memory at every cut of `TruncLog` and of a commit: of all that
is written or buffered, at most the last record is torn; it replays to `table`; and if its end
cannot be appended to, the constructor still owes a rotation (`must`). For the
file that a rename replaced only the first is known. `LookupInv` compares what `ExamineTransaction` and
`AdExistsInTableOrTransaction` say of each key with the ad that the commit would leave; `LookupIsStrict` alone
does not say enough of a transaction to be kept by its next operation. For the refinement, a flush,
a fsync and a rename may only drop tables from `safe`, a commit adds one, and a crash leaves a cut of what was
written, torn or whole, whose replay is in `safe`; a transaction adds one table and not one for each of its records, because
replay plays nothing before the end of it.

These lemmas need induction over a sequence. The library's induction theorems cannot be used
(their predicate is an operator), but induction over a *set* of numbers can be stated without one:
`LeastNat` and `Induction` in `LogRecords_proofs` are proved from the finiteness of intervals. `Iterates`
derives from them that a step function can be iterated along a sequence, and `Agree` that two such iterations are equal;
thus each fold (`PlayAll`, replay, `ExamineTransaction`, the ads that rotation writes) is
shown to be the run of its step, and appending a record to be one more step. The walk along the timer list
uses `LeastNat` in the same way, and so do the loops over nodes in `DAGMan_proofs`.

`DAGMan_proofs` proves, for every DAG (also one with cycles), every choice of scripts, retries, cluster
sizes and throttles, and any number of crashes, evictions and duplicated events:

| theorem | property |
| --- | --- |
| `DagInvariance` | `[]IInv` (of `DAGManInv`) |
| `SubmitsParentsFirst` | `[]ParentsFirst`: no job is in the schedd whose node has a parent that was never done |
| `SuccessMeansAllDone` | `[]SuccessIsComplete`: `condor_dagman` reports success only when every node was done; a part of `EndsWell` |

*Assumptions*: `DagAssumption` and `ProcsAssumption`, the types of what the DAG file says.

*Argument.* Both are kept across a crash, after which another `Dag` object is built from the log, and
also when that replay goes wrong, as it does for the combinations in section 5. The invariant therefore
does not say what the object should contain, only that it takes no node for done that is not in `finished`
(`Sound`): a parent that a node does not wait for is in `finished`; a node in the ready queue or with a PRE script
waits for nobody; `_numNodesDone` counts nodes of `finished`. There is one lemma for each method of `Dag`. `TerminateJob`
is the one that strikes a parent from its children's lists, and it is
only called for a node that is then done (`Kept`). `Bootstrap`, the end of recovery and the release of children are loops over
nodes, each of whose turns keeps the object sound; `StaysInside` makes that a fact of the loop, by induction. TLC checked `IInv` on the
instance of `dag_cluster`.

## 7. Only model-checked

By TLC on the instances of section 3 only:

- Liveness (`PreemptingEnds`, `PreemptingRequestAnswered`, `TimeoutReturns`), which the prover does
  not reach.
- `Stabilises` of the election. Its bound, 18 ticks, was found on three hosts and is not derived from the
  code, so there is nothing to prove for every number of hosts.
- Of `condor_dagman`: `NeverExcepts`, `DoneStaysDone`, `NoRerun`, `OneCluster`, `AttemptsBounded`, `CountersAgree`, `PostAfterCluster`,
  `MaxJobsKept`, `NeverStuck`, and `EndsWell` but for `SuccessIsComplete`. They say that the recovered object is the one
  that was lost, not only that it is sound. An inductive invariant would have to say that replaying any
  log that a run can leave gives back what `condor_dagman` had in memory, with retries, scripts and
  duplicated events; and it is false for the combinations of section 5, which the theorem would have to exclude.
- What section 5 shows to fail without the conditions of section 6.

## 8. Not modelled

`PROJECT.json` gives the reason for each part. Most of the source is not control that a
small model could hold: vendored and generated code, portability layers, byte-level I/O
and cryptography (CEDAR, file transfer, security sessions), drivers of external services
(grid manager, GAHPs), front ends, and the ClassAd language, whose results the models
take as nondeterministic. What remains and could be modelled, in the order of use:

1. The schedd's side of a claim (match record, shadow, lease), composed with the slot;
   the exchange of active transactions between the schedd's clients, on the ClassAd log.
2. HAD replication: versions, upload and download around an election.
3. Draining over several slots; COD claims; dynamic slots.
4. CCB, lease manager, transfer queue, the master's restart policy, process families, rotation of the user log.
5. In `condor_dagman`: halting, the FINAL node, ABORT-DAG-ON, rescue DAGs.
6. Proofs: that `condor_dagman`'s recovery restores what was lost, and the refinement of 1.
