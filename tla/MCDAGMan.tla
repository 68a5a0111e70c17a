------------------------------ MODULE MCDAGMan ------------------------------
(***************************************************************************)
(* Small DAGs for condor_dagman.                                           *)
(***************************************************************************)
EXTENDS DAGMan

\* Nodes 1 and 2 are the parents of node 3.
MCParents == <<{}, {}, {1, 2}>>

\* Nodes 2 and 3 are retried once; each node is one job.
MCRetries == <<0, 1, 1>>
MCSingle == <<1, 1, 1>>

\* Node 2 is retried once; node 3 is a cluster of two jobs.
MCClusterRetries == <<0, 1, 0>>
MCCluster == <<1, 1, 2>>

\* Two nodes that do not depend on each other, never retried.
MCApart == <<{}, {}>>
MCNoRetries == <<0, 0>>
MCTwoJobs == <<1, 1>>
=============================================================================
