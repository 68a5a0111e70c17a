----------------------------- MODULE DAGManInv ------------------------------
(***************************************************************************)
(* The inductive invariant behind the theorems of DAGMan_proofs.           *)
(***************************************************************************)
EXTENDS DAGMan

\* The values of the Dag object.
Scripts == {"PRE", "POST"}
Dags ==
    [status : [Nodes -> Statuses], waiting : [Nodes -> SUBSET Nodes],
     retries : [Nodes -> Int], tries : [Nodes -> Int], procs : [Nodes -> Int],
     id : [Nodes -> Int], preDone : SUBSET Nodes, idle : SUBSET Nodes,
     counted : SUBSET Nodes, hash : SUBSET (Int \X Nodes), readyQ : Seq(Nodes),
     running : [Scripts -> SUBSET Nodes], deferred : [Scripts -> Seq(Nodes)],
     jobs : Int, done : Int, failed : Int, preRun : Int, postRun : Int,
     idleProcs : Int, fakeID : Int, dead : BOOLEAN]

\* The nodes a Dag object has done.
Done(d) == {n \in Nodes : d.status[n] = "DONE"}

\* A Dag object that takes no node for done that is not in F: a parent that a
\* node no longer waits for is in F, a node that is queued for submission or
\* whose PRE script runs waits for nobody, and _numNodesDone counts nodes in F.
Sound(F) ==
    {d \in Dags :
        /\ \A n \in Nodes : Parents[n] \ d.waiting[n] \subseteq F
        /\ \A i \in 1..Len(d.readyQ) : d.waiting[d.readyQ[i]] = {}
        /\ \A n \in Nodes : d.status[n] = "PRERUN" => d.waiting[n] = {}
        /\ d.counted \subseteq F
        /\ d.done = Cardinality(d.counted)}

\* What is written in the log, and the clusters in the queue.
Events ==
    [type : {"SUBMIT", "EXECUTE", "EVICTED", "END", "POST", "PRESKIP"},
     id : Int, proc : Nat, node : Nodes, ok : BOOLEAN]
Clusters ==
    [node : Nodes, proc : UNION {[1..Procs[n] -> {"idle", "running", "gone"}] : n \in Nodes}]

TypeOK ==
    /\ dag \in Dags
    /\ log \in Seq(Events)
    /\ pos \in Nat
    /\ queue \in Seq(Clusters)
    /\ finished \in SUBSET Nodes

\* The inductive invariant.
IInv ==
    /\ TypeOK
    /\ dag \in Sound(finished)
    /\ PreDone \subseteq finished
    /\ ParentsFirst
    /\ SuccessIsComplete
=============================================================================
