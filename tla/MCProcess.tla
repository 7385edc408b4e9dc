------------------------------ MODULE MCProcess ------------------------------
(***************************************************************************)
(* What surrounds the requests: the life of a process, the lock of the     *)
(* maintenance, and the files of the SQLite store.  None of the three      *)
(* looks at the state of another, so that a behaviour takes the steps of   *)
(* one of them.                                                            *)
(***************************************************************************)
EXTENDS Process, ClusterLock, SQLiteFiles, TLC

CONSTANTS plain, tunnel, refresh, i1, i2, l1, l2

MCSkew == i1 :> 0 @@ i2 :> 1

VARIABLE part

MCInit ==
    /\ ProcessInit /\ ClusterInit /\ FilesInit
    /\ part \in {"process", "cluster", "files"}

MCNext ==
    /\ UNCHANGED part
    /\ \/ part = "process" /\ ProcessNext /\ UNCHANGED <<clusterVars, filesVars>>
       \/ part = "cluster" /\ ClusterNext /\ UNCHANGED <<processVars, filesVars>>
       \/ part = "files" /\ FilesNext /\ UNCHANGED <<processVars, clusterVars>>

MCVars == <<processVars, clusterVars, filesVars, part>>

InProcess(A) == part = "process" /\ A /\ UNCHANGED <<clusterVars, filesVars, part>>

InCluster(A) == part = "cluster" /\ A /\ UNCHANGED <<processVars, filesVars, part>>

(* ProcessFairness and ClusterFairness, each in its part. *)
MCSpec ==
    /\ MCInit /\ [][MCNext]_MCVars
    /\ WF_processVars(InProcess(MainStep)) /\ WF_processVars(InProcess(ProcessTick))
    /\ WF_processVars(InProcess(Probe))
    /\ WF_clusterVars(InCluster(ClusterTick))
    /\ \A i \in Member :
           /\ WF_clusterVars(InCluster(Maintain(i)))
           /\ SF_clusterVars(InCluster(Takes(i)))
           /\ SF_clusterVars(InCluster(Elected(i)))
           /\ SF_clusterVars(InCluster(Deletes(i)))
=============================================================================
