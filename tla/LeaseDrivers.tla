------------------------------ MODULE LeaseDrivers ------------------------------
(***************************************************************************)
(* The lease part of the three stores behind storage.LeaseStore:           *)
(*   mysql   the statements of LeaseStore, shared by many instances;       *)
(*   sqlite  the same statements, but for a transaction around the create; *)
(*   memory  one mutex, so that every call is one step.                    *)
(* SQLite and the memory store remember the idempotency keys they have     *)
(* seen in a table of their own, and nothing in the program deletes their  *)
(* expired leases: only the MySQL store has a maintenance job.             *)
(*                                                                         *)
(* A restart empties the memory store: what follows is another behaviour.  *)
(***************************************************************************)
EXTENDS LeaseStore

CONSTANTS
    Drivers,    \* the stores considered
    Longest     \* the longest of the lifetimes

ASSUME DriverAssumption ==
    /\ Drivers \subseteq {"mysql", "sqlite", "memory"}
    /\ Longest \in Nat \ {0}
    /\ \A ttl \in TTL : ttl <= Longest
    /\ NoRow \notin [generation : Nat \ {0}, expires : Nat, revoked : BOOLEAN,
                     holder : Request]

VARIABLES
    driver,  \* the store this deployment runs on
    known    \* leases whose idempotency key is in the key table

driverVars == <<storeVars, driver, known>>

DriverTypeOK ==
    /\ TypeOK
    /\ driver \in Drivers
    /\ known \in SUBSET Lease

DriverInit ==
    /\ Init
    /\ driver \in Drivers
    /\ known = {}

-----------------------------------------------------------------------------
(* The SQLite store                                                        *)

(* The transaction finds no key: it inserts the lease, then the key. *)
SQLiteInsert(r) ==
    /\ pc[r] = "creating"
    /\ target[r] \notin known
    /\ row' = [row EXCEPT ![target[r]] = seen[r]]
    /\ known' = known \union {target[r]}
    /\ AnswerWrite(r)
    /\ UNCHANGED <<now, retired, target, seen>>

(* It finds the key, and leaves the lease to a SELECT that follows. *)
SQLiteKnown(r) ==
    /\ pc[r] = "creating"
    /\ target[r] \in known
    /\ Goto(r, "replaying")
    /\ UNCHANGED <<now, row, retired, target, seen, known>>

SQLiteCreate(r) ==
    \/ SQLiteInsert(r) \/ SQLiteKnown(r)
    \/ (CreateBegin(r) \/ CreateReplay(r)) /\ UNCHANGED known

SQLiteStep(r) ==
    \/ SQLiteCreate(r)
    \/ (Renew(r) \/ Revoke(r) \/ Abandon(r)) /\ UNCHANGED known

-----------------------------------------------------------------------------
(* The memory store                                                        *)

MemoryCreate(r) ==
    /\ pc[r] = "creating"
    /\ IF target[r] \in known
       THEN /\ seen' = [seen EXCEPT ![r] = row[target[r]]]
            /\ Answer(r, "ok")
            /\ UNCHANGED <<row, known>>
       ELSE /\ row' = [row EXCEPT ![target[r]] = seen[r]]
            /\ known' = known \union {target[r]}
            /\ AnswerWrite(r)
            /\ UNCHANGED seen
    /\ UNCHANGED <<now, retired, target>>

(* The refusals come in another order than those of Refusal. *)
MemoryRefusal(cur, new) ==
    IF cur = NoRow THEN "notFound"
    ELSE IF cur.generation # new.generation - 1 THEN "stale"
    ELSE IF cur.revoked THEN "revoked"
    ELSE "expired"

(* Seeded fault: the generation is not compared. *)
MemoryUpdateAny(r) ==
    LET l == target[r] IN
    /\ pc[r] = "renewing"
    /\ IF Live(row[l])
       THEN row' = [row EXCEPT ![l] = seen[r]] /\ AnswerWrite(r)
       ELSE Answer(r, MemoryRefusal(row[l], seen[r])) /\ UNCHANGED row
    /\ UNCHANGED <<now, retired, target, seen>>

MemoryUpdate(r) ==
    LET l == target[r] IN
    /\ pc[r] = "renewing"
    /\ IF Matches(row[l], seen[r])
       THEN row' = [row EXCEPT ![l] = seen[r]] /\ AnswerWrite(r)
       ELSE Answer(r, MemoryRefusal(row[l], seen[r])) /\ UNCHANGED row
    /\ UNCHANGED <<now, retired, target, seen>>

MemoryRevoke(r) ==
    LET l == target[r] IN
    /\ Start(r, "revoke")
    /\ Exists(l)
    /\ IF row[l].revoked
       THEN Answer(r, "ok") /\ UNCHANGED row
       ELSE row' = [row EXCEPT ![l] = Dead(row[l])] /\ AnswerWrite(r)
    /\ UNCHANGED <<now, retired, target, seen>>

MemoryStep(r) ==
    \/ MemoryCreate(r)
    \/ /\ \/ CreateBegin(r)
          \/ RenewRead(r) \/ RenewRefused(r) \/ RenewNoPolicy(r)
          \/ MemoryUpdate(r) \/ MemoryRevoke(r)
       /\ UNCHANGED known

-----------------------------------------------------------------------------
DriverNext ==
    /\ \/ driver = "mysql" /\ Next /\ UNCHANGED known
       \/ driver = "sqlite" /\ \E r \in Request : SQLiteStep(r)
       \/ driver = "memory" /\ \E r \in Request : MemoryStep(r)
       \/ Tick /\ UNCHANGED known
    /\ UNCHANGED driver

DriverSpec == DriverInit /\ [][DriverNext]_driverVars

-----------------------------------------------------------------------------
(* Properties                                                              *)

(* What the register knows of a row. *)
Grantable(x) ==
    [generation |-> x.generation, expires |-> x.expires, revoked |-> x.revoked,
     holder |-> x.hash]

Register ==
    INSTANCE LeaseRegister WITH
        Holder <- Request, NoLease <- NoRow, gone <- retired,
        lease <- [l \in Lease |-> IF Exists(l) THEN Grantable(row[l]) ELSE NoRow]

(* Whatever the driver, the rows behave as if every call were one step:    *)
(* however the statements of creates, renewals, revokes and maintenance    *)
(* interleave, a lease is granted once and keeps its holder, lives on by   *)
(* one generation at a time, is never revived and never lives longer than  *)
(* a policy says from the moment of the call.                              *)
KeepsThePromise == Register!RegisterSpec
=============================================================================
