----------------------------- MODULE ClusterLock -----------------------------
(***************************************************************************)
(* The lock that elects the instance which deletes expired lease rows      *)
(* (internal/cluster/runner.go: maintain; internal/storage/mysql.go:       *)
(* TryAcquireLock, GetClusterLock, DeleteExpiredLeasesBatch).              *)
(*                                                                         *)
(* All times are written as seen from the true clock: x is x ticks from    *)
(* now, and every tick takes one away, down to -Floor, "long ago".  The    *)
(* clock of an instance is ahead of the true one by its skew.  A step is   *)
(* one statement of the database, or one look at the clock; an instance    *)
(* may stall between any two of them, for longer than a lease lasts.       *)
(***************************************************************************)
EXTENDS Integers, FiniteSets, FiniteSetsExt

CONSTANTS
    Member,       \* the instances of the cluster
    Lease,        \* lease rows; each is inserted once
    Skew,         \* Skew[i]: how far the clock of i is ahead
    LeaderTTL,    \* LeaderLeaseTTL
    Lifetime,     \* bound: the longest a row is valid
    BatchLimit,   \* MaintenanceLimit
    Floor,        \* bound: older than that is long ago
    Crashes,      \* bound: how often an instance stops
    Nobody        \* "the row of the lock does not exist"

ASSUME ClusterAssumption ==
    /\ Skew \in [Member -> Int]
    /\ LeaderTTL \in Nat \ {0} /\ Lifetime \in Nat /\ Floor \in Nat
    /\ \A i \in Member : -Floor < Skew[i] /\ Skew[i] < Floor
    /\ BatchLimit \in Nat \ {0} /\ Crashes \in Nat
    /\ Nobody \notin Member

VARIABLES
    holder,    \* the owner of the lock, and
    until,     \* its lease_until
    phase,     \* phase[i]: where maintain is on i
    stamp,     \* stamp[i]: the time i has taken for its next statement
    granted,   \* granted[i]: the lease_until i has written
    rows,      \* rows[l]: when row l expires, for the rows there are
    unused,    \* leases not yet inserted
    crashes

lockVars == <<holder, until, phase, stamp, granted>>
clusterVars == <<lockVars, rows, unused, crashes>>

Phase == {"down", "idle", "stamped", "written", "leading", "deleting"}

ClusterTypeOK ==
    /\ holder \in Member \union {Nobody} /\ until \in Int
    /\ phase \in [Member -> Phase]
    /\ stamp \in [Member -> Int] /\ granted \in [Member -> Int]

ClusterInit ==
    /\ holder = Nobody /\ until = 0
    /\ phase = [i \in Member |-> "idle"]
    /\ stamp = [i \in Member |-> 0] /\ granted = [i \in Member |-> 0]
    /\ rows = [l \in {} |-> 0] /\ unused = Lease
    /\ crashes = 0

-----------------------------------------------------------------------------
(* maintain                                                                *)

Proceed(i, to) == phase' = [phase EXCEPT ![i] = to]

(* The locals are forgotten. *)
Return(i) ==
    /\ Proceed(i, "idle")
    /\ stamp' = [stamp EXCEPT ![i] = 0]
    /\ granted' = [granted EXCEPT ![i] = 0]

Stamp(i) ==
    /\ phase[i] = "idle"
    /\ stamp' = [stamp EXCEPT ![i] = Skew[i]]
    /\ Proceed(i, "stamped")
    /\ UNCHANGED <<holder, until, granted, rows>>

(* Seeded faults: the lease is compared with the new lease instead of with *)
(* the clock of the statement; only the owner may renew it.                *)
AvailableEarly(i) == holder \in {Nobody, i} \/ until < stamp[i] + LeaderTTL

AvailableToOwner(i) == holder \in {Nobody, i}

Available(i) == holder \in {Nobody, i} \/ until < stamp[i]

(* INSERT ... ON DUPLICATE KEY UPDATE.  When it changes nothing, i is not  *)
(* the leader.  MySQL assigns the columns one after the other, but what is *)
(* assigned to the owner leaves the condition true.                        *)
Upsert(i) ==
    /\ phase[i] = "stamped"
    /\ IF Available(i)
       THEN /\ holder' = i
            /\ until' = stamp[i] + LeaderTTL
            /\ granted' = [granted EXCEPT ![i] = stamp[i] + LeaderTTL]
            /\ Proceed(i, "written")
            /\ UNCHANGED stamp
       ELSE Return(i) /\ UNCHANGED <<holder, until>>
    /\ UNCHANGED rows

(* The statement was executed or not; i gets an error and gives up. *)
UpsertFails(i) ==
    /\ phase[i] = "stamped"
    /\ \/ Available(i) /\ holder' = i /\ until' = stamp[i] + LeaderTTL
       \/ UNCHANGED <<holder, until>>
    /\ Return(i)
    /\ UNCHANGED rows

(* GetClusterLock, compared with the time taken before the upsert. *)
ReadBack(i) ==
    /\ phase[i] = "written"
    /\ IF holder = i /\ until > stamp[i]
       THEN /\ Proceed(i, "leading")
            /\ stamp' = [stamp EXCEPT ![i] = 0]
            /\ UNCHANGED granted
       ELSE Return(i)
    /\ UNCHANGED <<holder, until, rows>>

StampBatch(i) ==
    /\ phase[i] = "leading"
    /\ stamp' = [stamp EXCEPT ![i] = Skew[i]]
    /\ Proceed(i, "deleting")
    /\ UNCHANGED <<holder, until, granted, rows>>

Expired(i) == {l \in DOMAIN rows : rows[l] < stamp[i]}

(* Any rows up to the limit; also when the answer is lost. *)
DeleteBatch(i) ==
    /\ phase[i] = "deleting"
    /\ LET n == IF Cardinality(Expired(i)) < BatchLimit THEN Cardinality(Expired(i))
                ELSE BatchLimit
       IN  \E S \in kSubset(n, Expired(i)) :
               rows' = [l \in DOMAIN rows \ S |-> rows[l]]
    /\ Return(i)
    /\ UNCHANGED <<holder, until>>

(* A read or a delete fails before it has done anything. *)
GiveUp(i) ==
    /\ phase[i] \in {"written", "deleting"}
    /\ Return(i)
    /\ UNCHANGED <<holder, until, rows>>

Maintain(i) ==
    /\ \/ Stamp(i) \/ Upsert(i) \/ UpsertFails(i) \/ ReadBack(i)
       \/ StampBatch(i) \/ DeleteBatch(i) \/ GiveUp(i)
    /\ UNCHANGED <<unused, crashes>>

-----------------------------------------------------------------------------
(* Instances stop anywhere, and come back under their name or never.  Bound: *)
(* one is always up.                                                       *)
Crash(i) ==
    /\ phase[i] # "down" /\ crashes < Crashes
    /\ \E j \in Member \ {i} : phase[j] # "down"
    /\ crashes' = crashes + 1
    /\ Proceed(i, "down")
    /\ stamp' = [stamp EXCEPT ![i] = 0]
    /\ granted' = [granted EXCEPT ![i] = 0]
    /\ UNCHANGED <<holder, until, rows, unused>>

Restart(i) ==
    /\ phase[i] = "down"
    /\ Proceed(i, "idle")
    /\ UNCHANGED <<holder, until, stamp, granted, rows, unused, crashes>>

Insert(l) ==
    /\ l \in unused
    /\ \E x \in 1 .. Lifetime :
           rows' = [m \in DOMAIN rows \union {l} |-> IF m = l THEN x ELSE rows[m]]
    /\ unused' = unused \ {l}
    /\ UNCHANGED <<lockVars, crashes>>

Sooner(x) == IF x > -Floor THEN x - 1 ELSE x

(* Bound: nobody stalls for so long that what it compares its stamp with is *)
(* no longer told apart.                                                   *)
ClusterTick ==
    /\ \A i \in Member : stamp[i] > 1 - Floor
    /\ until' = Sooner(until)
    /\ stamp' = [i \in Member |-> IF phase[i] \in {"stamped", "written", "deleting"}
                                  THEN Sooner(stamp[i]) ELSE stamp[i]]
    /\ granted' = [i \in Member |-> IF phase[i] \in {"written", "leading", "deleting"}
                                    THEN Sooner(granted[i]) ELSE granted[i]]
    /\ rows' = [l \in DOMAIN rows |-> Sooner(rows[l])]
    /\ UNCHANGED <<holder, phase, unused, crashes>>

ClusterNext ==
    \/ \E i \in Member : Maintain(i) \/ Crash(i) \/ Restart(i)
    \/ \E l \in Lease : Insert(l)
    \/ ClusterTick

ClusterSpec == ClusterInit /\ [][ClusterNext]_clusterVars

(* Statements that succeed, in time for what follows. *)
Takes(i) == Upsert(i) /\ Available(i) /\ UNCHANGED <<unused, crashes>>
Elected(i) == ReadBack(i) /\ Proceed(i, "leading") /\ UNCHANGED <<unused, crashes>>
Deletes(i) == DeleteBatch(i) /\ UNCHANGED <<unused, crashes>>

(* Time passes and an instance that is up goes on, for the ticker of its   *)
(* runner fires again and again.  Not every statement fails or is          *)
(* overtaken: one that could succeed again and again does.                 *)
ClusterFairness ==
    /\ WF_clusterVars(ClusterTick)
    /\ \A i \in Member :
           /\ WF_clusterVars(Maintain(i))
           /\ SF_clusterVars(Takes(i)) /\ SF_clusterVars(Elected(i))
           /\ SF_clusterVars(Deletes(i))

ClusterFairSpec == ClusterSpec /\ ClusterFairness

-----------------------------------------------------------------------------
(* Properties                                                              *)

Leads(i) == phase[i] \in {"leading", "deleting"}

(* Two instances delete at the same time only while one of them lasts      *)
(* beyond the lease it was given, by the clock of the other: a lock that   *)
(* is stalled on, renewed, taken over, or written without an answer never  *)
(* has two owners that both may think they hold it.                        *)
OneLeader ==
    \A i, j \in Member :
        i # j /\ Leads(i) /\ Leads(j) => granted[i] < Skew[j] \/ granted[j] < Skew[i]

(* Whichever instance crashes, and wherever, an expired row is deleted:    *)
(* another instance takes the lock over, and no row is left out for ever.  *)
ExpiredIsDeleted ==
    \A l \in Lease :
        (l \in DOMAIN rows /\ rows[l] < 0) ~> l \notin DOMAIN rows
=============================================================================
