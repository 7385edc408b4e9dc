------------------------------ MODULE ClientLease ------------------------------
(***************************************************************************)
(* The lease cache of the Go SDK (sdks/go/proxyharbor/leases.go), for one  *)
(* key, over the retrying HTTP client (client.go, errors.go, retry.go) and *)
(* the lease handlers of the server (internal/server/server.go), which act *)
(* on the abstract register of LeaseRegister.                              *)
(*                                                                         *)
(* Calls run concurrently: GetProxy, GetProxy with ForceNew, Release.  A   *)
(* request is on the wire until the server takes it, which may be after    *)
(* the call has given it up and sent another.                              *)
(*                                                                         *)
(* A call draws at most one idempotency key, so a call and the lease its   *)
(* create is granted have one name: a member of Lease.  A password has the *)
(* name of the attempt that drew it.                                       *)
(***************************************************************************)
EXTENDS LeaseRegister

CONSTANTS
    Clients,       \* client configurations, each with the calls that are made,
                   \* and the bound of its clock
    MaxAttempts,   \* the largest Retry.MaxAttempts
    Shortest,      \* the shortest lifetime a policy or a request asks for
    Missing,       \* an answer that shows no password
    Silence,       \* no answer so far
    Refused,       \* an error that is not worth a retry
    NoCall         \* "no call"

Call == Lease
Attempt == 1 .. MaxAttempts

(* What the client knows of a lease. *)
Image == [id : Lease, generation : Nat \ {0}, expires : Nat, renewBefore : Nat,
          password : Attempt \union {Missing}]

Request == [by : Call, verb : {"create", "renew", "revoke"}, id : Lease, attempt : Attempt]

ASSUME ClientAssumption ==
    /\ Clients \subseteq [calls : [Call -> {"get", "force", "release"}],
                          autoRenew : BOOLEAN, autoReacquire : BOOLEAN,
                          skew : Nat, retries : Attempt, horizon : Nat]
    /\ MaxAttempts \in Nat \ {0}
    /\ Holder = Attempt
    /\ Shortest \in 1 .. Longest
    /\ Missing \notin Attempt
    /\ NoCall \notin Call
    /\ Silence # Refused
    /\ {NoLease, Silence, Refused} \intersect Image = {}

VARIABLES
    renewBefore,   \* renewBefore[l]: column renew_before of lease l
    client,    \* the configuration of this client
    slot,      \* the entry the key has in the map, named by the call that made it
    entry,     \* entry[e]: the lease in entry e
    mutex,     \* the call that holds the mutex of the key
    pc,        \* pc[c]: where call c is
    at,        \* at[c]: the entry whose pointer c has
    held,      \* held[c]: the lease c has in hand, at the end the one it returns
    result,    \* result[c]: what c returns
    attempt,   \* attempt[c]: the number of the HTTP request c waits for
    answer,    \* answer[c]: the answer to it
    wire       \* the requests the server has not taken

callVars == <<pc, at, held, result, attempt, answer>>
clientVars == <<client, slot, entry, mutex, wire, callVars>>
serverVars == <<registerVars, renewBefore>>
vars == <<serverVars, clientVars>>

op == client.calls

Waiting == {"creating", "renewing", "revoking"}

ClientTypeOK ==
    /\ RegisterTypeOK
    /\ renewBefore \in [Lease -> Nat]
    /\ client \in Clients
    /\ slot \in Call \union {NoCall}
    /\ entry \in [Call -> Image \union {NoLease}]
    /\ mutex \in Call \union {NoCall}
    /\ pc \in [Call -> Waiting \union {"idle", "locking", "locked", "publishing",
                                       "reading", "done"}]
    /\ at \in [Call -> Call \union {NoCall}]
    /\ held \in [Call -> Image \union {NoLease}]
    /\ result \in [Call -> {"none", "ok", "expired", "failed"}]
    /\ attempt \in [Call -> 0 .. MaxAttempts]
    /\ answer \in [Call -> Image \union {Silence, Refused}]
    /\ wire \subseteq Request

ClientInit ==
    /\ RegisterInit
    /\ renewBefore = [l \in Lease |-> 0]
    /\ client \in Clients
    /\ slot = NoCall /\ mutex = NoCall /\ wire = {}
    /\ entry = [c \in Call |-> NoLease]
    /\ pc = [c \in Call |-> "idle"]
    /\ at = [c \in Call |-> NoCall]
    /\ held = [c \in Call |-> NoLease]
    /\ result = [c \in Call |-> "none"]
    /\ attempt = [c \in Call |-> 0]
    /\ answer = [c \in Call |-> Silence]

-----------------------------------------------------------------------------
(* The cache                                                               *)

Cached == IF slot = NoCall THEN NoLease ELSE entry[slot]

Remaining(x) == x.expires - now

leaseUsable(x) == x # NoLease /\ Remaining(x) > client.skew

leaseShouldRenew(x) == x # NoLease /\ Remaining(x) > 0 /\ now > x.renewBefore

-----------------------------------------------------------------------------
(* The end of a call, and the start of an HTTP request                     *)

Goto(c, where) == pc' = [pc EXCEPT ![c] = where]

(* A deferred Unlock runs on every way out. *)
Unlocked(c) == IF mutex = c THEN NoCall ELSE mutex

Return(c, how) ==
    /\ Goto(c, "done")
    /\ result' = [result EXCEPT ![c] = how]
    /\ mutex' = Unlocked(c)

RequestOf(c, verb, id, n) == [by |-> c, verb |-> verb, id |-> id, attempt |-> n]

Send(c, verb, id, n) ==
    /\ Goto(c, CASE verb = "create" -> "creating"
                 [] verb = "renew"  -> "renewing"
                 [] verb = "revoke" -> "revoking")
    /\ attempt' = [attempt EXCEPT ![c] = n]
    /\ answer' = [answer EXCEPT ![c] = Silence]
    /\ wire' = wire \union {RequestOf(c, verb, id, n)}

(* The retry carries what the first attempt carried. *)
Verb(c) ==
    CASE pc[c] = "creating" -> "create"
      [] pc[c] = "renewing" -> "renew"
      [] pc[c] = "revoking" -> "revoke"

Named(c) == IF pc[c] = "creating" THEN c ELSE held[c].id

(* An error of do: an answer that is not retried, or no attempt is left.   *)
(* An answer that is lost on its way is a request executed late.           *)
Failed(c) == answer[c] = Refused \/ (answer[c] = Silence /\ attempt[c] = client.retries)

NoRequest == UNCHANGED <<attempt, answer, wire>>

-----------------------------------------------------------------------------
(* GetProxy                                                                *)

ReuseCached(c) ==
    /\ pc[c] = "idle" /\ op[c] = "get"
    /\ leaseUsable(Cached)
    /\ held' = [held EXCEPT ![c] = Cached]
    /\ Return(c, "ok")
    /\ NoRequest
    /\ UNCHANGED <<slot, entry, at>>

MissCached(c) ==
    /\ pc[c] = "idle" /\ op[c] # "release"
    /\ op[c] = "get" => ~leaseUsable(Cached)
    /\ Goto(c, "locking")
    /\ NoRequest
    /\ UNCHANGED <<slot, entry, mutex, at, held, result>>

(* Seeded fault: a mutex for each call instead of one for the key. *)
LockOwn(c) ==
    /\ pc[c] = "locking"
    /\ mutex' = c
    /\ Goto(c, "locked")
    /\ NoRequest
    /\ UNCHANGED <<slot, entry, at, held, result>>

Lock(c) ==
    /\ pc[c] = "locking"
    /\ mutex = NoCall
    /\ mutex' = c
    /\ Goto(c, "locked")
    /\ NoRequest
    /\ UNCHANGED <<slot, entry, at, held, result>>

(* The first look under the mutex finds what another call has stored. *)
ReuseLocked(c) ==
    /\ pc[c] = "locked" /\ op[c] = "get"
    /\ leaseUsable(Cached)
    /\ held' = [held EXCEPT ![c] = Cached]
    /\ Return(c, "ok")
    /\ NoRequest
    /\ UNCHANGED <<slot, entry, at>>

RenewDue(c) == op[c] = "get" /\ leaseShouldRenew(Cached) /\ client.autoRenew

(* The renewal reads the cache once more; a Release in between shows as a  *)
(* Release before the first look.                                          *)
tryRenew(c) ==
    /\ pc[c] = "locked"
    /\ ~leaseUsable(Cached) /\ RenewDue(c)
    /\ held' = [held EXCEPT ![c] = Cached]
    /\ Send(c, "renew", Cached.id, 1)
    /\ UNCHANGED <<slot, entry, mutex, at, result>>

(* The create, or its refusal by the policy, also for ForceNew. *)
Reacquire(c) ==
    /\ IF ~client.autoReacquire /\ Cached # NoLease /\ ~leaseUsable(Cached)
       THEN Return(c, "expired") /\ NoRequest
       ELSE Send(c, "create", c, 1) /\ UNCHANGED <<mutex, result>>
    /\ held' = [held EXCEPT ![c] = NoLease]
    /\ UNCHANGED <<slot, entry, at>>

ReacquireLocked(c) ==
    /\ pc[c] = "locked"
    /\ op[c] = "get" => ~leaseUsable(Cached) /\ ~RenewDue(c)
    /\ Reacquire(c)

(* The error of a renewal is dropped. *)
ReacquireAfterRenew(c) ==
    /\ pc[c] = "renewing"
    /\ Failed(c)
    /\ Reacquire(c)

(* LoadOrStore takes the entry of the key or puts a new one. *)
Load(c) ==
    /\ slot' = IF slot = NoCall THEN c ELSE slot
    /\ at' = [at EXCEPT ![c] = slot']

(* Seeded fault: the renewed lease is stored as it came. *)
StoreRenewedBare(c) ==
    /\ pc[c] = "renewing" /\ answer[c] \in Image
    /\ held' = [held EXCEPT ![c] = answer[c]]
    /\ Load(c)
    /\ Goto(c, "publishing")
    /\ NoRequest
    /\ UNCHANGED <<entry, mutex, result>>

(* Answers to a renewal never show a password. *)
StoreRenewed(c) ==
    /\ pc[c] = "renewing" /\ answer[c] \in Image
    /\ held' = [held EXCEPT ![c] = [answer[c] EXCEPT !.password = held[c].password]]
    /\ Load(c)
    /\ Goto(c, "publishing")
    /\ NoRequest
    /\ UNCHANGED <<entry, mutex, result>>

StoreCreated(c) ==
    /\ pc[c] = "creating" /\ answer[c] \in Image
    /\ held' = [held EXCEPT ![c] = answer[c]]
    /\ Load(c)
    /\ Goto(c, "publishing")
    /\ NoRequest
    /\ UNCHANGED <<entry, mutex, result>>

(* The entry may have left the map by now. *)
Publish(c) ==
    /\ pc[c] = "publishing"
    /\ entry' = [entry EXCEPT ![at[c]] = held[c]]
    /\ Return(c, "ok")
    /\ NoRequest
    /\ UNCHANGED <<slot, at, held>>

(* Seeded fault: no Unlock when the create fails. *)
CreateFailedLocked(c) ==
    /\ pc[c] = "creating"
    /\ Failed(c)
    /\ Goto(c, "done")
    /\ result' = [result EXCEPT ![c] = "failed"]
    /\ NoRequest
    /\ UNCHANGED <<slot, entry, mutex, at, held>>

CreateFailed(c) ==
    /\ pc[c] = "creating"
    /\ Failed(c)
    /\ Return(c, "failed")
    /\ NoRequest
    /\ UNCHANGED <<slot, entry, at, held>>

GetProxy(c) ==
    \/ ReuseCached(c) \/ MissCached(c) \/ Lock(c)
    \/ ReuseLocked(c) \/ tryRenew(c) \/ ReacquireLocked(c) \/ ReacquireAfterRenew(c)
    \/ StoreRenewed(c) \/ StoreCreated(c) \/ Publish(c) \/ CreateFailed(c)

-----------------------------------------------------------------------------
(* Release                                                                 *)

(* Seeded fault: the entry stays in the map. *)
LoadOnly(c) ==
    /\ pc[c] = "idle" /\ op[c] = "release"
    /\ at' = [at EXCEPT ![c] = slot]
    /\ IF slot = NoCall
       THEN Return(c, "ok")
       ELSE Goto(c, "reading") /\ UNCHANGED <<result, mutex>>
    /\ NoRequest
    /\ UNCHANGED <<slot, entry, held>>

LoadAndDelete(c) ==
    /\ pc[c] = "idle" /\ op[c] = "release"
    /\ at' = [at EXCEPT ![c] = slot]
    /\ slot' = NoCall
    /\ IF slot = NoCall
       THEN Return(c, "ok")
       ELSE Goto(c, "reading") /\ UNCHANGED <<result, mutex>>
    /\ NoRequest
    /\ UNCHANGED <<entry, held>>

(* The entry is read without its mutex. *)
ReadEntry(c) ==
    /\ pc[c] = "reading"
    /\ held' = [held EXCEPT ![c] = entry[at[c]]]
    /\ IF entry[at[c]] = NoLease
       THEN Return(c, "ok") /\ NoRequest
       ELSE Send(c, "revoke", entry[at[c]].id, 1) /\ UNCHANGED <<result, mutex>>
    /\ UNCHANGED <<slot, entry, at>>

(* Seeded fault: the loop of do ends without its last error. *)
RevokeAnsweredAnyway(c) ==
    /\ pc[c] = "revoking"
    /\ Failed(c) \/ answer[c] \in Image
    /\ Return(c, IF answer[c] = Refused THEN "failed" ELSE "ok")
    /\ NoRequest
    /\ UNCHANGED <<slot, entry, at, held>>

RevokeAnswered(c) ==
    /\ pc[c] = "revoking"
    /\ Failed(c) \/ answer[c] \in Image
    /\ Return(c, IF Failed(c) THEN "failed" ELSE "ok")
    /\ NoRequest
    /\ UNCHANGED <<slot, entry, at, held>>

Release(c) == LoadAndDelete(c) \/ ReadEntry(c) \/ RevokeAnswered(c)

-----------------------------------------------------------------------------
(* The loop of do                                                          *)

(* Seeded fault: attempts are counted from 1 and compared as from 0. *)
RetryOnceMore(c) ==
    /\ pc[c] \in Waiting
    /\ answer[c] = Silence /\ attempt[c] <= client.retries
    /\ Send(c, Verb(c), Named(c), attempt[c] + 1)
    /\ UNCHANGED <<slot, entry, mutex, at, held, result>>

(* No answer in time, a broken connection or one of the statuses of        *)
(* IsRetryable: the same request again.                                    *)
Retry(c) ==
    /\ pc[c] \in Waiting
    /\ answer[c] = Silence /\ attempt[c] < client.retries
    /\ Send(c, Verb(c), Named(c), attempt[c] + 1)
    /\ UNCHANGED <<slot, entry, mutex, at, held, result>>

(* The caller's context ends while the call waits or sleeps.  After a      *)
(* renewal the create is tried and fails before it is sent.                *)
Cancel(c) ==
    /\ pc[c] \in Waiting
    /\ answer[c] = Silence
    /\ Return(c, IF pc[c] = "renewing" /\ ~client.autoReacquire /\ Cached # NoLease
                 THEN "expired" ELSE "failed")
    /\ held' = [held EXCEPT ![c] = IF pc[c] = "revoking" THEN @ ELSE NoLease]
    /\ NoRequest
    /\ UNCHANGED <<slot, entry, at>>

CallStep(c) ==
    /\ GetProxy(c) \/ Release(c) \/ Retry(c) \/ Cancel(c)
    /\ UNCHANGED <<serverVars, client>>

-----------------------------------------------------------------------------
(* The server                                                              *)

(* The answer reaches the call if it still waits for this request. *)
Reply(q, what) ==
    /\ wire' = wire \ {q}
    /\ answer' = IF pc[q.by] \in Waiting /\ attempt[q.by] = q.attempt
                    /\ q = RequestOf(q.by, Verb(q.by), Named(q.by), q.attempt)
                 THEN [answer EXCEPT ![q.by] = what] ELSE answer

Shows(l, password) ==
    [id |-> l, generation |-> lease[l].generation, expires |-> lease[l].expires,
     renewBefore |-> renewBefore[l], password |-> password]

(* Half of the lifetime that is granted. *)
SetRenewBefore(l, ttl) == renewBefore' = [renewBefore EXCEPT ![l] = now + ttl \div 2]

(* The policy, which an administrator may have changed, and the request    *)
(* decide for how long.                                                    *)
ServeCreate(q) ==
    /\ q.verb = "create"
    /\ \/ /\ \E ttl \in Shortest .. Longest :
               Grant(q.id, q.attempt, now + ttl) /\ SetRenewBefore(q.id, ttl)
          /\ Reply(q, Shows(q.id, q.attempt)')
       \/ /\ lease[q.id] # NoLease
          /\ UNCHANGED serverVars
          /\ Reply(q, Shows(q.id, Missing)')

(* Seeded fault: the error of UpdateLease is dropped. *)
ServeRenewUnsaved(q) ==
    /\ q.verb = "renew"
    /\ lease[q.id] # NoLease
    /\ \E ttl \in Shortest .. Longest :
           Reply(q, [id |-> q.id, generation |-> lease[q.id].generation + 1,
                     expires |-> now + ttl, renewBefore |-> now + ttl \div 2,
                     password |-> Missing])
    /\ UNCHANGED serverVars

(* The policy's lifetime as it is now: the lease may end sooner than it    *)
(* would have.                                                             *)
ServeRenew(q) ==
    /\ q.verb = "renew"
    /\ \E ttl \in Shortest .. Longest :
           Prolong(q.id, now + ttl) /\ SetRenewBefore(q.id, ttl)
    /\ Reply(q, Shows(q.id, Missing)')

ServeRevoke(q) ==
    /\ q.verb = "revoke"
    /\ lease[q.id] # NoLease
    /\ Revoke(q.id) \/ (lease[q.id].revoked /\ UNCHANGED registerVars)
    /\ UNCHANGED renewBefore
    /\ Reply(q, Shows(q.id, Missing)')

(* A create finds no policy or no proxy, also one whose lease is granted;  *)
(* a renewal finds no policy or the lease dead, or loses to another        *)
(* renewal; a revoke finds no lease.                                       *)
ServeRefusal(q) ==
    /\ q.verb = "revoke" => lease[q.id] = NoLease
    /\ Reply(q, Refused)
    /\ UNCHANGED serverVars

Serve(q) ==
    /\ ServeCreate(q) \/ ServeRenew(q) \/ ServeRevoke(q) \/ ServeRefusal(q)
    /\ UNCHANGED <<client, slot, entry, mutex, pc, at, held, result, attempt>>

(* Bound: the clock stops at the client's horizon. *)
ServerTime ==
    /\ \/ now < client.horizon /\ Pass
       \/ \E batch \in SUBSET Lease \ {{}} : Forget(batch)
    /\ UNCHANGED <<clientVars, renewBefore>>

ClientNext ==
    \/ \E c \in Call : CallStep(c)
    \/ \E q \in wire : Serve(q)
    \/ ServerTime

(* The HTTP client has a timeout, so that no call waits for ever. *)
ClientSpec ==
    ClientInit /\ [][ClientNext]_vars /\ \A c \in Call : WF_vars(CallStep(c))

-----------------------------------------------------------------------------
(* Properties                                                              *)

(* Every lease in an entry that the server still knows is cached with the  *)
(* password it was granted with, or with none; and with none only when the *)
(* granted attempt was given up and a later one was shown the replay.      *)
(* Renewals, which show no password, never lose one.                       *)
PasswordIsRightOrLost ==
    \A e \in Call :
        entry[e] # NoLease /\ lease[entry[e].id] # NoLease =>
            LET x == entry[e] IN
            \/ x.password = lease[x.id].holder
            \/ x.password = Missing /\ lease[x.id].holder < attempt[x.id]

(* However answers are lost and requests are executed late, an entry has   *)
(* the expiry that the server has for its generation of the lease.  It may *)
(* be behind a renewal that the client was not told of, and that one may   *)
(* have shortened the lease; but the client never counts on a lease for    *)
(* longer than the server by more than lifetimes differ, and so not at all *)
(* where the lifetime granted is always the same.                          *)
CacheFollowsServer ==
    \A e \in Call :
        entry[e] # NoLease =>
            LET x == entry[e]
                y == lease[x.id]
            IN
            IF y = NoLease THEN x.expires < now + (Longest - Shortest)
            ELSE /\ x.generation <= y.generation
                 /\ x.generation = y.generation => x.expires = y.expires
                 /\ x.expires <= y.expires + (Longest - Shortest)

(* A Release that answered without error has the lease it found revoked,   *)
(* or the server has forgotten it, for good.                               *)
ReleaseAnswerHolds ==
    \A c \in Call :
        pc[c] = "done" /\ op[c] = "release" /\ result[c] = "ok" /\ held[c] # NoLease =>
            lease[held[c].id] = NoLease \/ lease[held[c].id].revoked

(* A released lease can be served from the cache again: a renewal that was *)
(* under way when Release emptied the map stores it anew.  Nothing but a   *)
(* renewal that the server granted brings it back.                         *)
RevivedOnlyByRenewal ==
    \A c \in Call :
        /\ pc[c] = "done" /\ op[c] = "release" /\ result[c] = "ok"
        /\ held[c] # NoLease /\ Cached # NoLease
        /\ Cached.id = held[c].id /\ lease[Cached.id] # NoLease
        => lease[Cached.id].generation > 1

(* Concurrent GetProxy calls of a key do not create leases twice: none     *)
(* sends a create while the cache has a usable lease, even when it has     *)
(* waited for the mutex and for a renewal that failed.                     *)
NoNeedlessCreate ==
    [][\A c \in Call :
          pc[c] # "creating" /\ pc'[c] = "creating" /\ op[c] = "get" =>
              ~leaseUsable(Cached)]_vars

(* Every call returns, whatever becomes of its requests and of the calls   *)
(* that hold the mutex before it.                                          *)
EveryCallReturns == \A c \in Call : pc[c] # "idle" ~> pc[c] = "done"
=============================================================================
