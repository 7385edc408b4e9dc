------------------------------ MODULE LeaseStore ------------------------------
(***************************************************************************)
(* The lease rows of the MySQL store (internal/storage/mysql.go) and the   *)
(* requests of the control service that read and write them               *)
(* (internal/control/service.go: CreateLease, RenewLease, RevokeLease),    *)
(* together with the clock and the maintenance job that deletes expired    *)
(* rows.  Every SQL statement is one step; a handler that issues several   *)
(* statements takes several steps, and other requests run in between.      *)
(* A request is one call and runs once; a caller that retries is another   *)
(* request with the same target.                                           *)
(*                                                                         *)
(* A lease ID is a hash of the caller's idempotency scope, so two creates  *)
(* of the same lease carry the same idempotency key.                       *)
(***************************************************************************)
EXTENDS Integers

CONSTANTS
    Lease,      \* lease IDs, one per idempotency scope
    Request,    \* calls of the service; each has a fresh random password
    Kind,       \* Kind[r]: the operation request r performs
    TTL,        \* lease lifetimes a policy may grant, in ticks
    MaxTime,    \* bound: the clock stops here
    KeyReuse,   \* may a caller reuse an idempotency key whose row is deleted?
    NoRow       \* "no row": what a SELECT without result returns

Time == 0 .. MaxTime

(***************************************************************************)
(* A row of proxy_leases.  `hash` is the password hash, named by the       *)
(* request that drew the password; `creator` stands for created_at, the    *)
(* column that is written at INSERT and by nothing else.                   *)
(***************************************************************************)
Row == [generation : Nat \ {0}, expires : Nat, revoked : BOOLEAN,
        hash : Request, creator : Request]

ASSUME StoreAssumption ==
    /\ Kind \in [Request -> {"create", "renew", "revoke", "validate"}]
    /\ TTL \subseteq Nat \ {0}
    /\ MaxTime \in Nat
    /\ KeyReuse \in BOOLEAN
    /\ NoRow \notin Row

VARIABLES
    now,      \* the clock all instances share
    row,      \* row[l]: the row of lease l, or NoRow
    retired,  \* leases whose row the maintenance job has deleted
    pc,       \* pc[r]: where request r is
    target,   \* target[r]: the lease r works on
    seen,     \* seen[r]: the row r is about to write, or the one it returns
    result    \* result[r]: what r was answered

storeVars == <<now, row, retired, pc, target, seen, result>>

TypeOK ==
    /\ now \in Time
    /\ row \in [Lease -> Row \union {NoRow}]
    /\ retired \in SUBSET Lease
    /\ pc \in [Request -> {"ready", "creating", "replaying", "renewing",
                           "classifying", "confirming", "done"}]
    /\ target \in [Request -> Lease]
    /\ seen \in [Request -> Row \union {NoRow}]
    /\ result \in [Request -> {"none", "ok", "notFound", "revoked",
                               "expired", "stale"}]

Init ==
    /\ now = 0
    /\ row = [l \in Lease |-> NoRow]
    /\ retired = {}
    /\ pc = [r \in Request |-> "ready"]
    /\ target \in [Request -> Lease]
    /\ seen = [r \in Request |-> NoRow]
    /\ result = [r \in Request |-> "none"]

-----------------------------------------------------------------------------
Exists(l) == row[l] # NoRow

Expired(x) == x.expires <= now

(* What RenewLease and the zero-row path of UpdateLease answer about x. *)
Refusal(x) ==
    IF x = NoRow THEN "notFound"
    ELSE IF x.revoked THEN "revoked"
    ELSE IF Expired(x) THEN "expired"
    ELSE "stale"

Live(x) == x # NoRow /\ ~x.revoked /\ ~Expired(x)

Start(r, op) == Kind[r] = op /\ pc[r] = "ready"

Goto(r, label) == pc' = [pc EXCEPT ![r] = label] /\ UNCHANGED result

Answer(r, a) ==
    /\ pc' = [pc EXCEPT ![r] = "done"]
    /\ result' = [result EXCEPT ![r] = a]

(* A write whose caller may never hear of it: the statement commits, but    *)
(* the connection fails or the caller's context is canceled.               *)
AnswerWrite(r) == Answer(r, "ok") \/ Answer(r, "none")

-----------------------------------------------------------------------------
(* CreateLease                                                             *)

(* Seeded fault: the generation is left at its zero value. *)
FreshWithoutGeneration(r, ttl) ==
    [generation |-> 0, expires |-> now + ttl, revoked |-> FALSE,
     hash |-> r, creator |-> r]

(* The new lease as the service draws it up, before the INSERT. *)
Fresh(r, ttl) ==
    [generation |-> 1, expires |-> now + ttl, revoked |-> FALSE,
     hash |-> r, creator |-> r]

CreateBegin(r) ==
    /\ Start(r, "create")
    /\ \E ttl \in TTL : seen' = [seen EXCEPT ![r] = Fresh(r, ttl)]
    /\ Goto(r, "creating")
    /\ UNCHANGED <<now, row, retired, target>>

(* Seeded fault: REPLACE instead of INSERT. *)
CreateReplace(r) ==
    /\ pc[r] = "creating"
    /\ row' = [row EXCEPT ![target[r]] = seen[r]]
    /\ AnswerWrite(r)
    /\ UNCHANGED <<now, retired, target, seen>>

(* The INSERT meets no row: the caller gets its plaintext password. *)
CreateInsert(r) ==
    /\ pc[r] = "creating"
    /\ ~Exists(target[r])
    /\ KeyReuse \/ target[r] \notin retired
    /\ row' = [row EXCEPT ![target[r]] = seen[r]]
    /\ AnswerWrite(r)
    /\ UNCHANGED <<now, retired, target, seen>>

(* Seeded fault: ON DUPLICATE KEY UPDATE of the new password hash. *)
CreateUpsert(r) ==
    /\ pc[r] = "creating"
    /\ Exists(target[r])
    /\ row' = [row EXCEPT ![target[r]].hash = r]
    /\ Goto(r, "replaying")
    /\ UNCHANGED <<now, retired, target, seen>>

(* The INSERT fails on the primary key. *)
CreateDuplicate(r) ==
    /\ pc[r] = "creating"
    /\ Exists(target[r])
    /\ Goto(r, "replaying")
    /\ UNCHANGED <<now, row, retired, target, seen>>

(* The GetLease after the duplicate key: whatever is there is the answer,  *)
(* revoked and expired rows included.                                      *)
CreateReplay(r) ==
    /\ pc[r] = "replaying"
    /\ seen' = [seen EXCEPT ![r] = row[target[r]]]
    /\ Answer(r, IF Exists(target[r]) THEN "ok" ELSE "notFound")
    /\ UNCHANGED <<now, row, retired, target>>

-----------------------------------------------------------------------------
(* RenewLease                                                              *)

(* The lease as a renewal computes it from the row it has read. *)
Renewal(cur, ttl) ==
    [cur EXCEPT !.generation = cur.generation + 1, !.expires = now + ttl]

(* GetLease finds a live row. *)
RenewRead(r) ==
    LET cur == row[target[r]] IN
    /\ Start(r, "renew")
    /\ Live(cur)
    /\ \E ttl \in TTL : seen' = [seen EXCEPT ![r] = Renewal(cur, ttl)]
    /\ Goto(r, "renewing")
    /\ UNCHANGED <<now, row, retired, target>>

RenewRefused(r) ==
    /\ Start(r, "renew")
    /\ ~Live(row[target[r]])
    /\ Answer(r, Refusal(row[target[r]]))
    /\ UNCHANGED <<now, row, retired, target, seen>>

(* The policy of a live lease is gone: GetPolicy returns ErrNotFound. *)
RenewNoPolicy(r) ==
    /\ Start(r, "renew")
    /\ Live(row[target[r]])
    /\ Answer(r, "notFound")
    /\ UNCHANGED <<now, row, retired, target, seen>>

(* Seeded faults: the WHERE clause without the generation, or with nothing *)
(* but the generation.                                                     *)
MatchesAnyGeneration(cur, new) == Live(cur)

MatchesDeadRow(cur, new) == cur # NoRow /\ cur.generation = new.generation - 1

(* The WHERE clause of the UPDATE. *)
Matches(cur, new) == Live(cur) /\ cur.generation = new.generation - 1

(* The UPDATE writes every column except created_at. *)
Overwrite(cur, new) == [new EXCEPT !.creator = cur.creator]

RenewWrite(r) ==
    LET l == target[r] IN
    /\ pc[r] = "renewing"
    /\ Matches(row[l], seen[r])
    /\ row' = [row EXCEPT ![l] = Overwrite(row[l], seen[r])]
    /\ AnswerWrite(r)
    /\ UNCHANGED <<now, retired, target, seen>>

(* No row is updated; a second SELECT will find out why. *)
RenewConflict(r) ==
    /\ pc[r] = "renewing"
    /\ ~Matches(row[target[r]], seen[r])
    /\ Goto(r, "classifying")
    /\ UNCHANGED <<now, row, retired, target, seen>>

RenewClassify(r) ==
    /\ pc[r] = "classifying"
    /\ Answer(r, Refusal(row[target[r]]))
    /\ UNCHANGED <<now, row, retired, target, seen>>

-----------------------------------------------------------------------------
(* RevokeLease.  A caller knows a lease ID only from a create that was     *)
(* answered, so the lease has existed.                                     *)

Dead(cur) == [cur EXCEPT !.revoked = TRUE]

RevokeUpdate(r) ==
    LET l == target[r] IN
    /\ Start(r, "revoke")
    /\ Exists(l) /\ ~row[l].revoked
    /\ row' = [row EXCEPT ![l] = Dead(row[l])]
    /\ AnswerWrite(r)
    /\ UNCHANGED <<now, retired, target, seen>>

(* Seeded fault: an UPDATE that does nothing, whatever is in the row. *)
RevokeMissAny(r) ==
    /\ Start(r, "revoke")
    /\ Goto(r, "confirming")
    /\ UNCHANGED <<now, row, retired, target, seen>>

(* The UPDATE changes no row; a SELECT tells a repeated revoke from an     *)
(* unknown lease.                                                          *)
RevokeMiss(r) ==
    LET l == target[r] IN
    /\ Start(r, "revoke")
    /\ IF Exists(l) THEN row[l].revoked ELSE l \in retired
    /\ Goto(r, "confirming")
    /\ UNCHANGED <<now, row, retired, target, seen>>

(* Seeded fault: an unknown lease counts as revoked. *)
RevokeConfirmUnknown(r) ==
    /\ pc[r] = "confirming"
    /\ Answer(r, "ok")
    /\ UNCHANGED <<now, row, retired, target, seen>>

RevokeConfirm(r) ==
    /\ pc[r] = "confirming"
    /\ Answer(r, IF Exists(target[r]) THEN "ok" ELSE "notFound")
    /\ UNCHANGED <<now, row, retired, target, seen>>

-----------------------------------------------------------------------------
(* The maintenance batch of the cluster leader: DELETE ... LIMIT n takes   *)
(* some of the rows that have expired.                                     *)
Deletable == {l \in Lease : Exists(l) /\ row[l].expires < now}

DeleteExpiredLeasesBatch ==
    \E batch \in SUBSET Deletable \ {{}} :
        /\ row' = [l \in Lease |-> IF l \in batch THEN NoRow ELSE row[l]]
        /\ retired' = retired \union batch
        /\ UNCHANGED <<now, pc, target, seen, result>>

Tick ==
    /\ now < MaxTime
    /\ now' = now + 1
    /\ UNCHANGED <<row, retired, pc, target, seen, result>>

(* A handler stops between two statements: its context is canceled, a      *)
(* statement fails, or its instance dies.                                  *)
Abandon(r) ==
    /\ pc[r] \notin {"ready", "done"}
    /\ Answer(r, "none")
    /\ UNCHANGED <<now, row, retired, target, seen>>

Create(r) == CreateBegin(r) \/ CreateInsert(r) \/ CreateDuplicate(r) \/ CreateReplay(r)

Renew(r) ==
    \/ RenewRead(r) \/ RenewRefused(r) \/ RenewNoPolicy(r)
    \/ RenewWrite(r) \/ RenewConflict(r) \/ RenewClassify(r)

Revoke(r) == RevokeUpdate(r) \/ RevokeMiss(r) \/ RevokeConfirm(r)

Next ==
    \/ \E r \in Request : Create(r) \/ Renew(r) \/ Revoke(r) \/ Abandon(r)
    \/ DeleteExpiredLeasesBatch
    \/ Tick

Spec == Init /\ [][Next]_storeVars

-----------------------------------------------------------------------------
(* Properties                                                              *)

(* Request r created its lease and was answered with the plaintext. *)
GivenPassword(r) ==
    /\ Kind[r] = "create"
    /\ result[r] = "ok"
    /\ seen[r].hash = r

Renewed(r) == Kind[r] = "renew" /\ result[r] = "ok"

(* However many creates with one idempotency key race, and however many    *)
(* are retried, at most one caller is handed a password for the lease:     *)
(* the replays of createLeaseByPrimaryID never show one.                   *)
OnePassword ==
    \A r1, r2 \in Request :
        GivenPassword(r1) /\ GivenPassword(r2) /\ target[r1] = target[r2]
            => r1 = r2

(* A renewal never replaces the identity of the row it lands on: the hash  *)
(* in a row is the one of the call that inserted this very row, however    *)
(* long the renewal waited between its SELECT and its UPDATE.              *)
RowKeepsItsPassword ==
    \A l \in Lease : Exists(l) => row[l].hash = row[l].creator

(* No lost update: two renewals that were answered ok never produced the   *)
(* same generation, and the row is never behind a renewal that was         *)
(* answered ok (the generation is the optimistic lock of UpdateLease).     *)
NoSilentOverwrite ==
    /\ \A r1, r2 \in Request :
           /\ Renewed(r1) /\ Renewed(r2) /\ target[r1] = target[r2]
           /\ seen[r1].generation = seen[r2].generation
           => r1 = r2
    /\ \A r \in Request :
           Renewed(r) /\ Exists(target[r])
               => seen[r].generation <= row[target[r]].generation

(* A revoked or expired row stays so until it is deleted: a renewal that   *)
(* read it while it was alive and writes later does not revive it.         *)
DeadStaysDead ==
    [][\A l \in Lease :
           Exists(l) /\ ~Live(row[l])
               => row'[l] \in {NoRow, row[l], Dead(row[l])}
      ]_storeVars

(* When RevokeLease answers ok, the lease is revoked at that moment. *)
RevokeAnswerHolds ==
    [][\A r \in Request :
           Kind[r] = "revoke" /\ result[r] = "none" /\ result'[r] = "ok"
               => row'[target[r]] # NoRow /\ row'[target[r]].revoked
      ]_storeVars
=============================================================================
