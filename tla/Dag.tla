-------------------------------- MODULE Dag --------------------------------
(***************************************************************************)
(* The DAG as condor_dagman holds it in memory (src/condor_dagman/dag.cpp, *)
(* job.cpp, scriptQ.cpp), and what its methods do to it.  A method is an   *)
(* operator from the value d of the Dag object to its next value, so that  *)
(* methods that call each other are composed.                              *)
(***************************************************************************)
EXTENDS Integers, Sequences, FiniteSets

CONSTANTS NumNodes,      \* nodes are numbered in the order of the DAG file
          Parents,       \* Q_PARENTS of each node
          PreScripts,    \* nodes with a PRE script
          PreSkips,      \* nodes with a PRE_SKIP value
          PostScripts,   \* nodes with a POST script
          RetryMax,      \* GetRetryMax() of each node
          PreDone,       \* nodes marked DONE in the DAG file
          AlwaysRunPost, \* DAGMAN_ALWAYS_RUN_POST
          MaxJobs,       \* _maxJobsSubmitted, 0 when there is no limit
          MaxIdle,       \* _maxIdleJobProcs, 0 when there is no limit
          MaxScripts,    \* _maxPreScripts and _maxPostScripts, 0 likewise
          MaxSubmitAttempts   \* DAGMAN_MAX_SUBMIT_ATTEMPTS

Nodes == 1..NumNodes
Children(n) == {m \in Nodes : n \in Parents[m]}

ASSUME DagAssumption ==
    /\ NumNodes \in Nat
    /\ Parents \in [Nodes -> SUBSET Nodes]
    /\ RetryMax \in [Nodes -> Nat]
    /\ PreDone \in SUBSET Nodes

\* A loop over the nodes in S, in their order: Step(d, n) for one after the
\* other, each intermediate value computed once.
ForEach(Step(_, _), start, S) ==
    LET f[n \in 0..NumNodes] ==
            IF n = 0 THEN start
            ELSE CHOOSE d \in {IF n \in S THEN Step(e, n) ELSE e : e \in {f[n - 1]}} : TRUE
    IN  f[NumNodes]

\* The status of a node; READY nodes may still wait for parents.
Statuses == {"READY", "PRERUN", "SUBMITTED", "POSTRUN", "DONE", "ERROR"}

\* CondorIDs: 0 is _defaultCondorId, c > 0 a cluster, -s the sub-process id of
\* an event that condor_dagman made up.
NoID == 0

\* An EXCEPT() or a failed ASSERT().
Except(d) == [d EXCEPT !.dead = TRUE]

\* The objects made by the parser, before Bootstrap().
NewDag ==
    [status    |-> [n \in Nodes |-> IF n \in PreDone THEN "DONE" ELSE "READY"],
     waiting   |-> Parents,
     retries   |-> [n \in Nodes |-> 0],
     tries     |-> [n \in Nodes |-> 0],
     procs     |-> [n \in Nodes |-> 0],
     id        |-> [n \in Nodes |-> NoID],
     preDone   |-> {},
     idle      |-> {},
     counted   |-> {},
     hash      |-> {},
     readyQ    |-> << >>,
     running   |-> [k \in {"PRE", "POST"} |-> {}],
     deferred  |-> [k \in {"PRE", "POST"} |-> << >>],
     jobs      |-> 0,
     done      |-> 0,
     failed    |-> 0,
     preRun    |-> 0,
     postRun   |-> 0,
     idleProcs |-> 0,
     fakeID    |-> 0,
     dead      |-> FALSE]

-----------------------------------------------------------------------------
\* Scripts and the ready queue

\* ScriptQ::Run, for a DAG that is not halted and a script that can be spawned.
RunScript(d, k, n) ==
    IF MaxScripts # 0 /\ Cardinality(d.running[k]) >= MaxScripts
    THEN [d EXCEPT !.deferred[k] = Append(@, n)]
    ELSE [d EXCEPT !.running[k] = @ \cup {n}]

\* Slip: a script that was put off is not run when another one ends.
LeaveWaitingScript(d, k) == d

\* ScriptQ::RunWaitingScript.
RunWaitingScript(d, k) ==
    IF d.deferred[k] = << >> THEN d
    ELSE RunScript([d EXCEPT !.deferred[k] = Tail(@)], k, Head(d.deferred[k]))

\* StartNode: the PRE script first, unless it is done.
StartNode(d, n) ==
    IF d.status[n] # "READY" \/ d.waiting[n] # {} THEN Except(d)
    ELSE IF n \in PreScripts /\ n \notin d.preDone
         THEN RunScript([d EXCEPT !.status[n] = "PRERUN", !.preRun = @ + 1], "PRE", n)
         ELSE [d EXCEPT !.readyQ = Append(@, n)]

\* RunPostScript.
RunPostScript(d, n) ==
    RunScript([d EXCEPT !.status[n] = "POSTRUN", !.postRun = @ + 1], "POST", n)

\* Slip: a node that is done releases its children, whatever else they wait for.
ReleaseChildren(d, n, later) ==
    LET Release(e, c) ==
            LET f == [e EXCEPT !.waiting[c] = {}]
            IN  IF f.status[c] = "READY" /\ ~later THEN StartNode(f, c) ELSE f
        Done == [d EXCEPT !.status[n] = "DONE",
                          !.done = IF n \in d.counted THEN @ ELSE @ + 1,
                          !.counted = @ \cup {n}]
    IN  ForEach(Release, Done, Children(n))

\* Slip: the children start also while the log is being recovered.
TerminateAndStart(d, n, later) ==
    LET Release(e, c) ==
            LET f == [e EXCEPT !.waiting[c] = @ \ {n}]
            IN  IF f.status[c] = "READY" /\ f.waiting[c] = {} THEN StartNode(f, c) ELSE f
        Done == [d EXCEPT !.status[n] = "DONE",
                          !.done = IF n \in d.counted THEN @ ELSE @ + 1,
                          !.counted = @ \cup {n}]
    IN  ForEach(Release, Done, Children(n))

\* TerminateJob: the node is done; children that wait for nobody else start,
\* but in recovery mode and in Bootstrap() they are left for later.
TerminateJob(d, n, later) ==
    LET Release(e, c) ==
            LET f == [e EXCEPT !.waiting[c] = @ \ {n}]
            IN  IF f.status[c] = "READY" /\ f.waiting[c] = {} /\ ~later
                THEN StartNode(f, c) ELSE f
        Done == [d EXCEPT !.status[n] = "DONE",
                          !.done = IF n \in d.counted THEN @ ELSE @ + 1,
                          !.counted = @ \cup {n}]
    IN  ForEach(Release, Done, Children(n))

\* Slip: in recovery mode the node keeps the CondorID of its last attempt.
RestartKeepsID(d, n, recovery) ==
    LET Again == [d EXCEPT !.status[n] = "READY", !.retries[n] = @ + 1,
                           !.preDone = @ \ {n}]
    IN  IF d.status[n] # "ERROR" \/ Again.retries[n] > RetryMax[n] THEN Except(d)
        ELSE IF ~recovery THEN StartNode(Again, n) ELSE Again

\* Slip: retries found in the log are not counted.
RestartForgetsRetries(d, n, recovery) ==
    LET Again == [d EXCEPT !.status[n] = "READY", !.preDone = @ \ {n},
                           !.retries[n] = IF recovery THEN @ ELSE @ + 1]
    IN  IF d.status[n] # "ERROR" \/ Again.retries[n] > RetryMax[n] THEN Except(d)
        ELSE IF ~recovery THEN StartNode(Again, n)
        ELSE [Again EXCEPT !.hash = @ \ {<<d.id[n], n>>}, !.id[n] = NoID]

\* RestartNode: in recovery mode the retry is looked for in the log.
RestartNode(d, n, recovery) ==
    LET Again == [d EXCEPT !.status[n] = "READY", !.retries[n] = @ + 1,
                           !.preDone = @ \ {n}]
    IN  IF d.status[n] # "ERROR" \/ Again.retries[n] > RetryMax[n] THEN Except(d)
        ELSE IF ~recovery THEN StartNode(Again, n)
        ELSE IF d.id[n] # NoID /\ <<d.id[n], n>> \notin d.hash THEN Except(d)
        ELSE [Again EXCEPT !.hash = @ \ {<<d.id[n], n>>}, !.id[n] = NoID]

\* Slip: the node that failed for good is not counted.
FailUncounted(d, n, recovery) ==
    LET Failed == [d EXCEPT !.status[n] = "ERROR"]
    IN  IF d.retries[n] < RetryMax[n] THEN RestartNode(Failed, n, recovery) ELSE Failed

\* A node fails: it is retried, or counted as failed.
FailNode(d, n, recovery) ==
    LET Failed == [d EXCEPT !.status[n] = "ERROR"]
    IN  IF d.retries[n] < RetryMax[n] THEN RestartNode(Failed, n, recovery)
        ELSE [Failed EXCEPT !.failed = @ + 1]

-----------------------------------------------------------------------------
\* Events of the job log

\* Slip: the count of submitted nodes goes down with every proc.
DecrementEveryProc(d, n) ==
    IF d.procs[n] < 1 \/ d.jobs < 1 THEN Except(d)
    ELSE [d EXCEPT !.procs[n] = @ - 1, !.jobs = @ - 1]

\* DecrementJobCounts.
DecrementJobCounts(d, n) ==
    LET e == [d EXCEPT !.procs[n] = @ - 1]
    IN  IF e.procs[n] < 0 \/ (e.procs[n] = 0 /\ e.jobs < 1) THEN Except(d)
        ELSE IF e.procs[n] = 0 THEN [e EXCEPT !.jobs = @ - 1] ELSE e

\* The consistency check at the end of the two methods on idle jobs.
CheckIdle(d) == IF d.idleProcs > 0 /\ d.jobs < 1 THEN [d EXCEPT !.idleProcs = 0] ELSE d

ProcessIsIdleEvent(d, n) ==
    CheckIdle(IF n \notin d.idle /\ d.status[n] = "SUBMITTED"
              THEN [d EXCEPT !.idle = @ \cup {n}, !.idleProcs = @ + 1] ELSE d)

ProcessNotIdleEvent(d, n) ==
    CheckIdle(IF n \in d.idle /\ d.status[n] = "SUBMITTED"
              THEN [d EXCEPT !.idle = @ \ {n}, !.idleProcs = @ - 1] ELSE d)

\* Slip: the POST script does not wait for the other procs.
ProcEndRunsPost(d, n, recovery, failed) ==
    IF n \in PostScripts
    THEN IF recovery THEN [d EXCEPT !.status[n] = "POSTRUN", !.postRun = @ + 1]
         ELSE RunPostScript(d, n)
    ELSE IF failed
    THEN IF d.retries[n] < RetryMax[n] THEN RestartNode(d, n, recovery)
         ELSE [d EXCEPT !.failed = @ + 1]
    ELSE TerminateJob(d, n, recovery)

\* ProcessJobProcEnd, d the DAG after DecrementJobCounts().
ProcessJobProcEnd(d, n, recovery, failed) ==
    IF failed /\ n \notin PostScripts
    THEN IF d.retries[n] < RetryMax[n] THEN RestartNode(d, n, recovery)
         ELSE IF d.procs[n] = 0 THEN [d EXCEPT !.failed = @ + 1] ELSE d
    ELSE IF d.procs[n] # 0 THEN d
    ELSE IF n \in PostScripts
         THEN IF recovery THEN [d EXCEPT !.status[n] = "POSTRUN", !.postRun = @ + 1]
              ELSE RunPostScript(d, n)
    ELSE IF d.status[n] # "ERROR" THEN TerminateJob(d, n, recovery) ELSE d

\* The first proc of a cluster to fail makes the node fail and has the rest of
\* the cluster removed.
FailsFirst(d, n, ok) == ~ok /\ d.status[n] # "ERROR"
RemovesCluster(d, n, ok) == FailsFirst(d, n, ok) /\ d.procs[n] > 1

\* ProcessTerminatedEvent, and ProcessAbortEvent when ok is FALSE.
ProcessEndEvent(d, n, recovery, ok) ==
    LET e == DecrementJobCounts(ProcessNotIdleEvent(d, n), n)
        f == IF FailsFirst(e, n, ok) THEN [e EXCEPT !.status[n] = "ERROR"] ELSE e
    IN  IF e.dead THEN e ELSE ProcessJobProcEnd(f, n, recovery, ~ok)

\* Slip: the count of nodes in POSTRUN does not go down.
PostTermUncounted(d, n, recovery, ok) ==
    IF d.status[n] # "POSTRUN" /\ ~recovery THEN Except(d)
    ELSE IF ok THEN TerminateJob(d, n, recovery)
    ELSE FailNode(d, n, recovery)

ProcessPostTermEvent(d, n, recovery, ok) ==
    LET e == IF d.status[n] = "POSTRUN" THEN [d EXCEPT !.postRun = @ - 1] ELSE d
    IN  IF d.status[n] # "POSTRUN" /\ ~recovery THEN Except(d)
        ELSE IF ok THEN TerminateJob(e, n, recovery)
        ELSE FailNode(e, n, recovery)

\* The event's CondorID becomes the node's (LogEventNodeLookup).
Identify(d, n, id) ==
    IF \E m \in Nodes \ {n} : <<id, m>> \in d.hash THEN Except(d)
    ELSE [d EXCEPT !.id[n] = id, !.hash = @ \cup {<<id, n>>}]

\* Slip: in recovery mode the node does not become SUBMITTED.
SubmitEventKeepsReady(d, n, id, recovery) ==
    LET e == [Identify(d, n, id) EXCEPT !.procs[n] = @ + 1]
    IN  ProcessIsIdleEvent(IF recovery /\ e.procs[n] = 1 THEN [e EXCEPT !.jobs = @ + 1] ELSE e, n)

\* Slip: submissions found in the log are not counted.
SubmitEventUncounted(d, n, id, recovery) ==
    LET e == [Identify(d, n, id) EXCEPT !.procs[n] = @ + 1]
    IN  ProcessIsIdleEvent(IF recovery THEN [e EXCEPT !.status[n] = "SUBMITTED"] ELSE e, n)

\* ProcessSubmitEvent for an event that SanityCheckSubmitEvent() accepts.
ProcessSubmitEvent(d, n, id, recovery) ==
    LET e == [Identify(d, n, id) EXCEPT !.procs[n] = @ + 1]
        f == IF recovery
             THEN [e EXCEPT !.jobs = IF e.procs[n] = 1 THEN @ + 1 ELSE @,
                            !.status[n] = "SUBMITTED"]
             ELSE e
    IN  ProcessIsIdleEvent(f, n)

\* A PRE script asked for the rest of the node to be skipped.
ProcessPreSkipEvent(d, n, id, recovery) ==
    LET e == TerminateJob(Identify(d, n, id), n, recovery)
    IN  IF recovery THEN e ELSE [e EXCEPT !.preRun = @ - 1]

-----------------------------------------------------------------------------
\* Reapers

\* PreScriptReaper, then the next waiting script.
PreScriptReaper(d, n, result) ==
    LET e == [d EXCEPT !.running["PRE"] = @ \ {n}, !.preDone = @ \cup {n},
                       !.preRun = @ - 1]
        f == CASE result = "skip" ->
                    [e EXCEPT !.fakeID = @ + 1, !.id[n] = -(d.fakeID + 1), !.preRun = @ + 1]
               [] result = "fail" /\ AlwaysRunPost /\ n \in PostScripts -> RunPostScript(e, n)
               [] result = "fail" /\ ~(AlwaysRunPost /\ n \in PostScripts) -> FailNode(e, n, FALSE)
               [] result = "ok" ->
                    [e EXCEPT !.status[n] = "READY", !.readyQ = Append(@, n)]
    IN  RunWaitingScript(IF d.status[n] # "PRERUN" THEN Except(d) ELSE f, "PRE")

\* PostScriptReaper; the outcome is handled when its event is read.
PostScriptReaper(d, n) ==
    IF d.status[n] # "POSTRUN" THEN Except(d)
    ELSE RunWaitingScript([d EXCEPT !.running["POST"] = @ \ {n}], "POST")

-----------------------------------------------------------------------------
\* Submission

\* SubmitReadyJobs goes on with the loop.
MaySubmit(d) ==
    /\ d.readyQ # << >>
    /\ MaxJobs = 0 \/ d.jobs < MaxJobs
    /\ MaxIdle = 0 \/ d.idleProcs < MaxIdle

\* The node is taken off the queue and SubmitNodeJob() forgets the CondorID of
\* its last attempt.
Dequeue(d) ==
    LET n == Head(d.readyQ)
        e == [d EXCEPT !.readyQ = Tail(@), !.tries[n] = @ + 1,
                       !.hash = @ \ {<<d.id[n], n>>}, !.id[n] = NoID]
    IN  IF d.status[n] # "READY" \/ (d.id[n] # NoID /\ <<d.id[n], n>> \notin d.hash)
        THEN Except(d) ELSE e

ProcessSuccessfulSubmit(d, n, cluster) ==
    [d EXCEPT !.status[n] = "SUBMITTED", !.jobs = @ + 1, !.id[n] = cluster,
              !.hash = @ \cup {<<cluster, n>>}]

\* Out of attempts, the node's retries are short-circuited.
ProcessFailedSubmit(d, n) ==
    LET e == [d EXCEPT !.retries[n] = RetryMax[n]]
    IN  IF d.tries[n] < MaxSubmitAttempts THEN [d EXCEPT !.readyQ = <<n>> \o @]
        ELSE IF n \in PostScripts THEN RunPostScript(e, n)
        ELSE FailNode(e, n, FALSE)

-----------------------------------------------------------------------------
\* Bootstrap and the end of the DAG

\* Every node that is ready and waits for nobody starts.
StartReadyNodes(d) ==
    LET Start(e, n) == IF e.status[n] = "READY" /\ e.waiting[n] = {} THEN StartNode(e, n) ELSE e
    IN  ForEach(Start, d, Nodes)

\* The nodes marked DONE release their children.
PreCompleted ==
    ForEach(LAMBDA d, n : TerminateJob(d, n, TRUE), NewDag, PreDone)

\* The end of recovery mode: POST scripts whose end is not in the log are run.
FinishRecovery(d) ==
    LET Post(e, n) == IF e.status[n] = "POSTRUN" THEN RunScript(e, "POST", n) ELSE e
    IN  StartReadyNodes(ForEach(Post, [d EXCEPT !.fakeID = 0], Nodes))

\* What condor_event_timer and main_shutdown_rescue() take for the end.
FinishedRunning(d) == d.jobs = 0 /\ d.readyQ = << >> /\ d.preRun + d.postRun = 0
DoneSuccess(d) == FinishedRunning(d) /\ d.done = NumNodes
DoneFailed(d) == FinishedRunning(d) /\ d.failed > 0
=============================================================================
