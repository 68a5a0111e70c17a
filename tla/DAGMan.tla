------------------------------- MODULE DAGMan -------------------------------
(***************************************************************************)
(* condor_dagman running a DAG: its timer, its reapers, the job log it     *)
(* follows, the jobs in the schedd's queue, and the recovery from the job  *)
(* log after condor_dagman died (dag.cpp, dagman_main.cpp).                *)
(***************************************************************************)
EXTENDS Dag

CONSTANTS Procs,          \* number of procs in the cluster of each node
          MaxCrashes,     \* bound: times condor_dagman dies
          MaxMishaps      \* bound: evictions of jobs and end events written twice

ASSUME ProcsAssumption == Procs \in [Nodes -> Nat]

VARIABLES
    pc,         \* wait, submit, read, recover: what condor_dagman does; else how it ended
    dag,        \* the Dag object
    log,        \* the default node log
    pos,        \* events read
    queue,      \* the clusters of the DAG in the schedd, by cluster id
    removed,    \* clusters for which condor_rm was run
    finished,   \* nodes that were DONE at some time
    budget      \* crashes, and evictions or duplicated events, so far

vars == <<pc, dag, log, pos, queue, removed, finished, budget>>
dagman == <<pc, dag, pos, finished>>

Working == pc \in {"wait", "submit", "read", "recover"} /\ ~dag.dead

Write(type, id, proc, node, ok) ==
    Append(log, [type |-> type, id |-> id, proc |-> proc, node |-> node, ok |-> ok])

\* The next value of the Dag object, and the nodes it has done.
Becomes(d) ==
    /\ dag' = d
    /\ finished' = finished \cup {n \in Nodes : d.status[n] = "DONE"}

Init ==
    /\ pc = "wait"
    /\ dag = StartReadyNodes(PreCompleted)
    /\ log = << >>
    /\ pos = 0
    /\ queue = << >>
    /\ removed = {}
    /\ finished = PreDone
    /\ budget = [crashes |-> 0, mishaps |-> 0]

-----------------------------------------------------------------------------
\* condor_event_timer: submit, then read the log, then see whether it is over

\* condor_submit puts the cluster in the queue and its events in the log.
SubmitSucceeds ==
    /\ Working /\ pc \in {"wait", "submit"}
    /\ MaySubmit(dag)
    /\ LET n == Head(dag.readyQ)
           c == Len(queue) + 1
           d == Dequeue(dag)
       IN  /\ pc' = "submit"
           /\ IF d.dead THEN Becomes(d) /\ UNCHANGED <<log, queue>>
              ELSE /\ Becomes(ProcessSuccessfulSubmit(d, n, c))
                   /\ queue' = Append(queue, [node |-> n, proc |-> [p \in 1..Procs[n] |-> "idle"]])
                   /\ log' = log \o [p \in 1..Procs[n] |->
                        [type |-> "SUBMIT", id |-> c, proc |-> p, node |-> n, ok |-> TRUE]]
    /\ UNCHANGED <<pos, removed, budget>>

\* A failed submission ends the loop of SubmitReadyJobs().
SubmitFails ==
    /\ Working /\ pc \in {"wait", "submit"}
    /\ MaySubmit(dag)
    /\ LET d == Dequeue(dag)
       IN  ~d.dead /\ Becomes(ProcessFailedSubmit(d, Head(dag.readyQ)))
    /\ pc' = "read"
    /\ UNCHANGED <<log, pos, queue, removed, budget>>

\* Calls of the timer that find nothing to do are left out.
StartReading ==
    /\ Working /\ pc \in {"wait", "submit"}
    /\ ~MaySubmit(dag)
    /\ pc = "submit" \/ pos < Len(log) \/ FinishedRunning(dag)
    /\ pc' = "read"
    /\ UNCHANGED <<dag, log, pos, queue, removed, finished, budget>>

\* LogEventNodeLookup: submit and PRE_SKIP events name their node; other events
\* are looked up by their CondorID, but for the POST script of a node whose
\* job could not be submitted.
EventNodes(e) ==
    IF e.type \in {"SUBMIT", "PRESKIP"} \/ (e.type = "POST" /\ e.id = NoID)
    THEN {e.node}
    ELSE {n \in Nodes : <<e.id, n>> \in dag.hash}

\* FindNodeByEventID: the node has another CondorID by now.
Mistaken(e, n) ==
    e.type \notin {"SUBMIT", "PRESKIP"} /\ e.id # NoID /\ dag.id[n] \notin {e.id, NoID}

\* CheckEvents with the default DAGMAN_ALLOW_EVENTS: how often an event of this
\* type was read for the proc, and whether the event is to be ignored.
Count(e, type) ==
    Cardinality({i \in 1..(pos + 1) :
        log[i].type = type /\ log[i].id = e.id /\ log[i].proc = e.proc})

\* Slip: no event is bad.
NoBadEvent(e) == FALSE

BadEvent(e) ==
    \/ e.type = "END" /\ (Count(e, "END") # 1 \/ Count(e, "POST") # 0)
    \/ e.type = "POST" /\ e.id # NoID /\ Count(e, "POST") > 1

\* SanityCheckSubmitEvent fails: DAGMan aborts (DAGMAN_ABORT_ON_SCARY_SUBMIT).
ScarySubmit(e) == e.type = "SUBMIT" /\ dag.id[e.node] \notin {NoID, e.id}

Process(e, n, recovery) ==
    CASE e.type = "SUBMIT" -> ProcessSubmitEvent(dag, n, e.id, recovery)
      [] e.type = "EXECUTE" -> ProcessNotIdleEvent(dag, n)
      [] e.type = "EVICTED" -> ProcessIsIdleEvent(dag, n)
      [] e.type = "END" -> ProcessEndEvent(dag, n, recovery, e.ok)
      [] e.type = "POST" -> ProcessPostTermEvent(dag, n, recovery, e.ok)
      [] e.type = "PRESKIP" -> ProcessPreSkipEvent(dag, n, e.id, recovery)

\* ProcessOneEvent.
ReadEvent ==
    /\ Working /\ pc \in {"read", "recover"}
    /\ pos < Len(log)
    /\ pos' = pos + 1
    /\ LET e == log[pos + 1]
           ns == EventNodes(e)
           n == CHOOSE m \in ns : TRUE
       IN  CASE ns = {} \/ (~Mistaken(e, n) /\ BadEvent(e)) ->
                    UNCHANGED <<pc, dag, removed, finished>>
             [] ns # {} /\ Mistaken(e, n) ->
                    Becomes(Except(dag)) /\ UNCHANGED <<pc, removed>>
             [] ns # {} /\ ScarySubmit(e) ->
                    /\ pc' = "bad event"
                    /\ removed' = removed \cup {dag.id[m] : m \in {m \in Nodes : dag.id[m] > 0}}
                    /\ UNCHANGED <<dag, finished>>
             [] ns # {} /\ e.type = "SUBMIT" /\ ~ScarySubmit(e) /\ dag.waiting[n] # {} ->
                    pc' = "unfinished parents" /\ UNCHANGED <<dag, removed, finished>>
             [] OTHER ->
                    /\ Becomes(Process(e, n, pc = "recover"))
                    /\ removed' = IF e.type = "END" /\ RemovesCluster(dag, n, e.ok)
                                  THEN removed \cup {dag.id[n]} ELSE removed
                    /\ UNCHANGED pc
    /\ UNCHANGED <<log, queue, budget>>

\* The rest of condor_event_timer, when the log has been read.
FinishTimer ==
    /\ Working /\ pc = "read" /\ pos = Len(log)
    /\ IF dag.done + dag.failed > NumNodes
       THEN Becomes(Except(dag)) /\ UNCHANGED pc
       ELSE /\ pc' = CASE DoneSuccess(dag) -> "success"
                       [] ~DoneSuccess(dag) /\ DoneFailed(dag) -> "failed"
                       [] ~DoneSuccess(dag) /\ ~DoneFailed(dag) /\ FinishedRunning(dag) -> "unknown error"
                       [] OTHER -> "wait"
            /\ UNCHANGED <<dag, finished>>
    /\ UNCHANGED <<log, pos, queue, removed, budget>>

-----------------------------------------------------------------------------
\* Reapers run between two calls of the timer

PreScriptExits(n, result) ==
    /\ Working /\ pc = "wait"
    /\ n \in dag.running["PRE"]
    /\ result = "skip" => n \in PreSkips
    /\ Becomes(PreScriptReaper(dag, n, result))
    /\ log' = IF result = "skip" THEN Write("PRESKIP", -(dag.fakeID + 1), 0, n, TRUE) ELSE log
    /\ UNCHANGED <<pc, pos, queue, removed, budget>>

\* The event is written for the first proc of the cluster.
PostScriptExits(n, ok) ==
    /\ Working /\ pc = "wait"
    /\ n \in dag.running["POST"]
    /\ Becomes(PostScriptReaper(dag, n))
    /\ log' = Write("POST", dag.id[n], 1, n, ok)
    /\ UNCHANGED <<pc, pos, queue, removed, budget>>

-----------------------------------------------------------------------------
\* The schedd and the jobs

Spend(what, limit) ==
    budget[what] < limit /\ budget' = [budget EXCEPT ![what] = @ + 1]

Running(c, p) == queue[c].proc[p] = "running"

Execute(c, p) ==
    /\ queue[c].proc[p] = "idle"
    /\ queue' = [queue EXCEPT ![c].proc[p] = "running"]
    /\ log' = Write("EXECUTE", c, p, queue[c].node, TRUE)
    /\ UNCHANGED <<dagman, removed, budget>>

Evict(c, p) ==
    /\ Running(c, p)
    /\ Spend("mishaps", MaxMishaps)
    /\ queue' = [queue EXCEPT ![c].proc[p] = "idle"]
    /\ log' = Write("EVICTED", c, p, queue[c].node, TRUE)
    /\ UNCHANGED <<dagman, removed>>

\* A job terminates, or is aborted, also when idle, after a condor_rm.
End(c, p, ok) ==
    /\ Running(c, p) \/ (queue[c].proc[p] = "idle" /\ c \in removed /\ ~ok)
    /\ queue' = [queue EXCEPT ![c].proc[p] = "gone"]
    /\ log' = Write("END", c, p, queue[c].node, ok)
    /\ UNCHANGED <<dagman, removed, budget>>

\* The schedd writes a second end event for a job.
DuplicateEnd(c, p) ==
    /\ queue[c].proc[p] = "gone"
    /\ Spend("mishaps", MaxMishaps)
    /\ log' = Write("END", c, p, queue[c].node, FALSE)
    /\ UNCHANGED <<dagman, queue, removed>>

-----------------------------------------------------------------------------
\* condor_dagman dies, and the schedd starts it again: the lock file of the
\* first one makes it read the log from the start.
Crash ==
    /\ pc \in {"wait", "submit", "read", "recover"}
    /\ Spend("crashes", MaxCrashes)
    /\ pc' = "recover"
    /\ dag' = PreCompleted
    /\ pos' = 0
    /\ UNCHANGED <<log, queue, removed, finished>>

\* Slip: recovery ends before the whole log is read.
EndRecoveryEarly ==
    /\ Working /\ pc = "recover"
    /\ pc' = "wait"
    /\ Becomes(FinishRecovery(dag))
    /\ UNCHANGED <<log, pos, queue, removed, budget>>

\* The end of Bootstrap() in recovery mode.
EndRecovery ==
    /\ Working /\ pc = "recover" /\ pos = Len(log)
    /\ pc' = "wait"
    /\ Becomes(FinishRecovery(dag))
    /\ UNCHANGED <<log, pos, queue, removed, budget>>

DagmanStep ==
    \/ SubmitSucceeds \/ SubmitFails \/ StartReading \/ ReadEvent \/ FinishTimer
    \/ EndRecovery
    \/ \E n \in Nodes :
         \/ \E result \in {"ok", "fail", "skip"} : PreScriptExits(n, result)
         \/ \E ok \in BOOLEAN : PostScriptExits(n, ok)

JobStep ==
    \E c \in DOMAIN queue : \E p \in DOMAIN queue[c].proc :
        \/ Execute(c, p) \/ Evict(c, p) \/ DuplicateEnd(c, p)
        \/ \E ok \in BOOLEAN : End(c, p, ok)

Next == DagmanStep \/ JobStep \/ Crash

Spec == Init /\ [][Next]_vars

-----------------------------------------------------------------------------
\* Properties

\* A job of the cluster is still in the queue.
Live(c) == \E p \in DOMAIN queue[c].proc : queue[c].proc[p] # "gone"
With(s) == {n \in Nodes : dag.status[n] = s}

\* No EXCEPT() and no ASSERT() of the code is reached, whatever the order of
\* the events of the log, and also when the log is read again by recovery; nor
\* is the DAG aborted because recovery takes the log for one that violates the
\* DAG semantics (ProcessSubmitEvent) or that names another job of the node
\* (SanityCheckSubmitEvent).
NeverExcepts == ~dag.dead /\ pc \notin {"unfinished parents", "bad event"}

\* A node is submitted only when all its parents are done (StartNode,
\* TerminateJob).
ParentsFirst == \A c \in DOMAIN queue : Parents[queue[c].node] \subseteq finished

\* Reading the log again finds exactly the nodes that were done before
\* condor_dagman died (Bootstrap in recovery mode).
DoneStaysDone == pc # "recover" => With("DONE") = finished

\* A node that is done is not submitted again, by any condor_dagman.
NoRerun == [][\A c \in DOMAIN queue' \ DOMAIN queue : queue'[c].node \notin finished]_queue

\* Two clusters of one node are never in the queue together, though a
\* condor_dagman that died leaves its jobs in the queue.
OneCluster ==
    \A b, c \in DOMAIN queue : (b # c /\ Live(b) /\ Live(c)) => queue[b].node # queue[c].node

\* A node is submitted at most once for each of its retries, and once more:
\* the retries made before condor_dagman died count (RestartNode in recovery).
AttemptsBounded ==
    \A n \in Nodes : Cardinality({c \in DOMAIN queue : queue[c].node = n}) <= RetryMax[n] + 1

\* The counters that throttles and the end of the DAG are decided by agree with
\* the states of the nodes they count.
CountersAgree ==
    /\ dag.jobs = Cardinality({n \in Nodes : dag.status[n] = "SUBMITTED" \/ dag.procs[n] > 0})
    /\ dag.done = Cardinality(With("DONE"))
    /\ dag.failed = Cardinality({n \in With("ERROR") : dag.procs[n] = 0})
    /\ dag.preRun = Cardinality(With("PRERUN"))
    /\ dag.postRun = Cardinality(With("POSTRUN"))
    /\ dag.idleProcs = Cardinality(dag.idle)

\* The queue never holds more than maxjobs clusters of the DAG, those of an
\* earlier condor_dagman included (SubmitReadyJobs, ProcessSuccessfulSubmit).
MaxJobsKept == MaxJobs # 0 => Cardinality({c \in DOMAIN queue : Live(c)}) <= MaxJobs

\* condor_dagman exits with success only when all nodes are done (DoneSuccess).
SuccessIsComplete == pc = "success" => finished = Nodes

\* condor_dagman exits with success when all nodes are done, with failure only
\* when every other node failed or has a parent that is not done, and in both
\* cases leaves no job in the queue; in a DAG without a cycle its branch "no
\* cycle found; unknown error condition" is dead (condor_event_timer).
EndsWell ==
    /\ pc # "unknown error"
    /\ SuccessIsComplete
    /\ pc = "failed" => \A n \in Nodes \ finished :
            n \in With("ERROR") \/ ~(Parents[n] \subseteq finished)
    /\ pc \in {"success", "failed"} => \A c \in DOMAIN queue : ~Live(c)

\* The DAG never hangs: when no job is left in the queue, no script runs and
\* the log is read, there is a node to submit or condor_dagman is about to exit.
NeverStuck ==
    (/\ pc = "wait" /\ pos = Len(log)
     /\ \A c \in DOMAIN queue : ~Live(c)
     /\ dag.running["PRE"] \cup dag.running["POST"] = {})
       => MaySubmit(dag) \/ FinishedRunning(dag)

\* The POST script of a node runs only when no job of its cluster is in the
\* queue, also when it is run again after recovery (ProcessJobProcEnd).
PostAfterCluster ==
    \A n \in dag.running["POST"] : \A c \in DOMAIN queue : queue[c].node = n => ~Live(c)

\* The events that condor_dagman makes up have IDs of their own:
\* ProcessSubmitEvent keeps the greatest one that recovery reads "so we can
\* start out at the next value instead of zero".
SkipIDsFresh ==
    \A i, j \in DOMAIN log :
        (i # j /\ log[i].type = "PRESKIP" /\ log[j].type = "PRESKIP") => log[i].id # log[j].id
=============================================================================
