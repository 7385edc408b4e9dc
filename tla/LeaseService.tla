----------------------------- MODULE LeaseService -----------------------------
(***************************************************************************)
(* The validate hot path of internal/control/service.go over the caches it *)
(* trusts: the lease and validate-truth keys that all instances share in   *)
(* Redis (internal/cache/redis.go), the truth map and the invalidation     *)
(* version each instance keeps in memory, and the pub/sub messages that    *)
(* carry lease invalidations (internal/auth/invalidator.go).               *)
(*                                                                         *)
(* The writers are the requests of LeaseStore; what they do to the caches  *)
(* after the store has answered is added here.  A validation goes through  *)
(*   lookup -> confirmLocal -> judge              (local fast path)        *)
(*          -> readCache -> confirmCached -> judge (shared fast path)      *)
(*          -> readStore -> fill -> checkVersion -> stamp -> share -> judge*)
(* and every arrow is a step: another request may run in between.          *)
(* Expired cache entries are dropped when the clock moves, which is how    *)
(* Redis TTLs and the freshness test of the truth map behave to a reader.  *)
(***************************************************************************)
EXTENDS LeaseStore, FiniteSets

CONSTANTS
    Instance,   \* ProxyHarbor processes behind the load balancer
    Home,       \* Home[r]: the instance that serves request r
    Presents,   \* Presents[r]: the password a validation presents
    OnTarget,   \* validations whose target matches the lease's resource
    LocalMax,   \* validateTruthCacheMax
    Sites,      \* the deployments considered, see below
    NoEntry     \* "no cache entry"

(***************************************************************************)
(* A deployment: the requests that come, the lifetimes its policies grant, *)
(* the configured cacheTTL and validateTruthTTL in ticks, the instances    *)
(* whose subscription can be up, and what is assumed of it: no request     *)
(* lasts more than `patience` ticks; unless `faulty`, no command fails and  *)
(* no handler stops half way; the `mortal` instances may restart.          *)
(* `horizon` bounds its clock.                                             *)
(***************************************************************************)
Deployment ==
    [requests : SUBSET Request, lifetimes : SUBSET TTL, horizon : Time,
     cacheTTL : Nat \ {0}, truthTTL : Nat \ {0}, subscribed : SUBSET Instance,
     patience : Nat, faulty : BOOLEAN, mortal : SUBSET Instance]

ASSUME ServiceAssumption ==
    /\ Home \in [Request -> Instance]
    /\ Presents \in [Request -> Request]
    /\ OnTarget \subseteq Request
    /\ LocalMax \in Nat \ {0}
    /\ Sites \subseteq Deployment
    /\ NoEntry \notin [lease : Row, until : Nat]

VARIABLE site   \* the deployment, chosen at the start

CacheTTL == site.cacheTTL
TruthTTL == site.truthTTL
Subscribed == site.subscribed
Patience == site.patience
Faulty == site.faulty

VARIABLES
    cached,     \* cached[l]: ph:lease:<l>, shared
    truth,      \* truth[l]: ph:lease_truth:<l>, shared
    local,      \* local[i][l]: Service.validateTruth of instance i
    leaseVer,   \* leaseVer[i]: Redis.leaseVer of instance i
    inbox,      \* inbox[i]: lease invalidation messages not yet consumed
    handler,    \* handler[i]: where the subscriber of i is
    step,       \* step[r]: where r is in the cache part of its handler
    atVer,      \* atVer[r]: leaseVersion read at the start of a validation
    use,        \* use[r]: the lease image r works with
    since       \* since[r]: when r entered the cache part

(* History, which no step reads: when a lease was revoked; the version of  *)
(* the row that was current when a write was answered while nobody held an *)
(* older image; and what it was when a validation that is under way began. *)
VARIABLES revokedAt, settled, floor

cacheVars == <<cached, truth, local>>
subVars == <<leaseVer, inbox, handler>>
reqVars == <<step, atVer, use, since, floor>>
history == <<revokedAt, settled>>
vars == <<storeVars, cacheVars, subVars, reqVars, history, site>>

(* The columns leaseFingerprint hashes; resource and proxy are fixed by the *)
(* create that drew the password.                                          *)
Fingerprint(x) == <<x.generation, x.revoked, x.expires, x.hash>>

Steps == {"idle", "lookup", "confirmLocal", "readCache", "confirmCached",
          "readStore", "fill", "checkVersion", "stamp", "share", "bump",
          "forget", "announce", "dropLocal", "dropShared", "judge", "done"}

(* How far a row has come: a write never lowers either component. *)
Version == [generation : Nat, revoked : BOOLEAN]

NoVersion == [generation |-> 0, revoked |-> FALSE]

Older(x, y) == x.generation < y.generation \/ (y.revoked /\ ~x.revoked)

Image == Row \union {NoRow}
Entry == [lease : Row, until : Nat] \union {NoEntry}

ServiceTypeOK ==
    /\ TypeOK
    /\ site \in Sites
    /\ cached \in [Lease -> Entry]
    /\ truth \in [Lease -> [fingerprint : Nat \X BOOLEAN \X Nat \X Request,
                            until : Nat] \union {NoEntry}]
    /\ local \in [Instance -> [Lease -> Entry]]
    /\ leaseVer \in [Instance -> Nat]
    /\ inbox \in [Instance -> Nat]
    /\ handler \in [Instance -> {"idle", "leases", "truths"}]
    /\ step \in [Request -> Steps]
    /\ atVer \in [Request -> Nat]
    /\ use \in [Request -> Image]
    /\ since \in [Request -> Time]
    /\ revokedAt \in [Lease -> Nat]
    /\ settled \in [Lease -> Version]
    /\ floor \in [Request -> Version]

ServiceInit ==
    /\ Init
    /\ site \in Sites
    /\ cached = [l \in Lease |-> NoEntry]
    /\ truth = [l \in Lease |-> NoEntry]
    /\ local = [i \in Instance |-> [l \in Lease |-> NoEntry]]
    /\ leaseVer = [i \in Instance |-> 0]
    /\ inbox = [i \in Instance |-> 0]
    /\ handler = [i \in Instance |-> "idle"]
    /\ step = [r \in Request |-> "idle"]
    /\ atVer = [r \in Request |-> 0]
    /\ use = [r \in Request |-> NoRow]
    /\ since = [r \in Request |-> 0]
    /\ revokedAt = [l \in Lease |-> 0]
    /\ settled = [l \in Lease |-> NoVersion]
    /\ floor = [r \in Request |-> NoVersion]

-----------------------------------------------------------------------------
At(r, label) == step[r] = label
Advance(r, label) == step' = [step EXCEPT ![r] = label]

(* The handler returns: what it held is garbage. *)
Finish(r) ==
    /\ Advance(r, "done")
    /\ atVer' = [atVer EXCEPT ![r] = 0]
    /\ use' = [use EXCEPT ![r] = NoRow]
    /\ since' = [since EXCEPT ![r] = 0]
    /\ floor' = [floor EXCEPT ![r] = NoVersion]

(* Moves of a request that leave the store and the subscribers alone. *)
Quiet == UNCHANGED <<storeVars, subVars, revokedAt, settled>>

(* A Redis command either has its effect or fails and is ignored. *)
OrFails(effect, idle) == effect \/ (Faulty /\ idle)

(* stampValidateTruth: the map is kept below validateTruthCacheMax by      *)
(* throwing out an arbitrary entry.                                        *)
Stamped(i, l, x, victim) ==
    [local EXCEPT ![i] =
        [k \in Lease |-> IF k = l THEN [lease |-> x, until |-> now + TruthTTL]
                         ELSE IF k = victim THEN NoEntry
                         ELSE local[i][k]]]

Stamp(i, l, x) ==
    LET held == {k \in Lease : local[i][k] # NoEntry} IN
    IF Cardinality(held) >= LocalMax
    THEN \E victim \in held : local' = Stamped(i, l, x, victim)
    ELSE local' = Stamped(i, l, x, l)

(* The shared truth exists and its fingerprint is that of x. *)
SharedTruthConfirms(l, x) ==
    truth[l] # NoEntry /\ truth[l].fingerprint = Fingerprint(x)

-----------------------------------------------------------------------------
(* The store part of the writers, and where it leads in the cache part.    *)

(* A lease or a renewal is drawn up with a lifetime of this deployment. *)
Granted(r) ==
    pc[r] = "ready" /\ pc'[r] \in {"creating", "renewing"}
        => seen'[r].expires - now \in site.lifetimes

(* The store's answer reaches the handler, unless something fails. *)
Heard(r) == pc'[r] = "done" /\ result'[r] = "none" => Faulty

AfterStore(r, label) ==
    step' = IF pc'[r] # "done" THEN step
            ELSE [step EXCEPT ![r] = IF result'[r] = "ok" THEN label ELSE "done"]

ServiceCreate(r) ==
    /\ Create(r) /\ Granted(r) /\ Heard(r)
    /\ AfterStore(r, "fill")
    /\ IF step'[r] = "fill"
       THEN /\ use' = [use EXCEPT ![r] = seen'[r]]
            /\ since' = [since EXCEPT ![r] = now]
       ELSE UNCHANGED <<use, since>>
    /\ UNCHANGED <<cacheVars, subVars, atVer, floor, history>>

ServiceRenew(r) ==
    /\ Renew(r) /\ Granted(r) /\ Heard(r)
    /\ AfterStore(r, "bump")
    /\ UNCHANGED <<cacheVars, subVars, atVer, use, since, floor, history>>

ServiceRevoke(r) ==
    /\ Revoke(r) /\ Heard(r)
    /\ AfterStore(r, "bump")
    /\ revokedAt' = IF row' # row THEN [revokedAt EXCEPT ![target[r]] = now]
                    ELSE revokedAt
    /\ UNCHANGED <<cacheVars, subVars, atVer, use, since, floor, settled>>

-----------------------------------------------------------------------------
(* ValidateLease, up to the store read                                     *)

Begin(r) ==
    /\ Start(r, "validate") /\ At(r, "idle")
    /\ Advance(r, "lookup")
    /\ atVer' = [atVer EXCEPT ![r] = leaseVer[Home[r]]]
    /\ since' = [since EXCEPT ![r] = now]
    /\ floor' = [floor EXCEPT ![r] = settled[target[r]]]
    /\ Quiet /\ UNCHANGED <<cacheVars, use>>

(* freshLocalValidateTruth *)
Lookup(r) ==
    LET entry == local[Home[r]][target[r]] IN
    /\ At(r, "lookup")
    /\ IF entry # NoEntry
       THEN use' = [use EXCEPT ![r] = entry.lease] /\ Advance(r, "confirmLocal")
       ELSE UNCHANGED use /\ Advance(r, "readCache")
    /\ Quiet /\ UNCHANGED <<cacheVars, atVer, since, floor>>

(* Seeded fault: a fresh local stamp is enough. *)
ConfirmLocalAlone(r) ==
    /\ At(r, "confirmLocal")
    /\ Advance(r, "judge")
    /\ Quiet /\ UNCHANGED <<cacheVars, atVer, use, since, floor>>

(* hasSharedValidateTruthFingerprint on the local entry *)
ConfirmLocal(r) ==
    /\ At(r, "confirmLocal")
    /\ \/ SharedTruthConfirms(target[r], use[r]) /\ Advance(r, "judge")
       \/ ~SharedTruthConfirms(target[r], use[r]) /\ Advance(r, "readCache")
       \/ Faulty /\ Advance(r, "readCache")
    /\ Quiet /\ UNCHANGED <<cacheVars, atVer, use, since, floor>>

ReadCache(r) ==
    LET entry == cached[target[r]] IN
    /\ At(r, "readCache")
    /\ \/ /\ entry # NoEntry
          /\ use' = [use EXCEPT ![r] = entry.lease]
          /\ Advance(r, "confirmCached")
       \/ /\ entry = NoEntry \/ Faulty
          /\ UNCHANGED use
          /\ Advance(r, "readStore")
    /\ Quiet /\ UNCHANGED <<cacheVars, atVer, since, floor>>

(* Seeded fault: using the shared truth also starts its TTL anew. *)
ConfirmCachedProlongs(r) ==
    /\ At(r, "confirmCached")
    /\ \/ /\ SharedTruthConfirms(target[r], use[r])
          /\ Stamp(Home[r], target[r], use[r])
          /\ truth' = [truth EXCEPT ![target[r]].until = now + TruthTTL]
          /\ Advance(r, "judge")
       \/ /\ ~SharedTruthConfirms(target[r], use[r]) \/ Faulty
          /\ UNCHANGED <<local, truth>>
          /\ Advance(r, "readStore")
    /\ Quiet /\ UNCHANGED <<cached, atVer, use, since, floor>>

(* hasFreshSharedValidateTruth on the cached lease: a match also stamps    *)
(* the local map, without a read of the store on this instance.            *)
ConfirmCached(r) ==
    /\ At(r, "confirmCached")
    /\ \/ /\ SharedTruthConfirms(target[r], use[r])
          /\ Stamp(Home[r], target[r], use[r])
          /\ Advance(r, "judge")
       \/ /\ ~SharedTruthConfirms(target[r], use[r]) \/ Faulty
          /\ UNCHANGED local
          /\ Advance(r, "readStore")
    /\ Quiet /\ UNCHANGED <<cached, truth, atVer, use, since, floor>>

ReadStore(r) ==
    LET l == target[r] IN
    /\ At(r, "readStore")
    /\ use' = [use EXCEPT ![r] = row[l]]
    /\ Advance(r, IF Exists(l) THEN "fill" ELSE "dropLocal")
    /\ Quiet /\ UNCHANGED <<cacheVars, atVer, since, floor>>

-----------------------------------------------------------------------------
(* After the store answered: cacheLease, rememberValidateTruth             *)

Sooner(a, b) == IF a < b THEN a ELSE b

(* cacheLease *)
Fill(r) ==
    LET x == use[r]
        entry == [lease |-> x, until |-> Sooner(now + CacheTTL, x.expires)]
    IN
    /\ At(r, "fill")
    /\ IF Expired(x) THEN UNCHANGED cached
       ELSE OrFails(cached' = [cached EXCEPT ![target[r]] = entry],
                    UNCHANGED cached)
    /\ Advance(r, IF Kind[r] = "validate" THEN "checkVersion" ELSE "stamp")
    /\ Quiet /\ UNCHANGED <<truth, local, atVer, use, since, floor>>

(* Only a validation compares the version; what it does next is a separate *)
(* step, and the version may move in between.                              *)
CheckVersion(r) ==
    /\ At(r, "checkVersion")
    /\ Advance(r, IF leaseVer[Home[r]] = atVer[r] THEN "stamp" ELSE "dropLocal")
    /\ Quiet /\ UNCHANGED <<cacheVars, atVer, use, since, floor>>

StampTruth(r) ==
    /\ At(r, "stamp")
    /\ Stamp(Home[r], target[r], use[r])
    /\ Advance(r, "share")
    /\ Quiet /\ UNCHANGED <<cached, truth, atVer, use, since, floor>>

(* storeSharedValidateTruth *)
ShareTruth(r) ==
    /\ At(r, "share")
    /\ OrFails(truth' = [truth EXCEPT ![target[r]] =
                   [fingerprint |-> Fingerprint(use[r]), until |-> now + TruthTTL]],
               UNCHANGED truth)
    /\ IF Kind[r] = "validate"
       THEN Advance(r, "judge") /\ UNCHANGED <<atVer, use, since, floor>>
       ELSE Finish(r)
    /\ Quiet /\ UNCHANGED <<cached, local>>

(* validateLeaseFields *)
Verdict(r, x) ==
    IF x = NoRow THEN "notFound"
    ELSE IF x.hash # Presents[r] THEN "authFailed"
    ELSE IF x.revoked THEN "revoked"
    ELSE IF Expired(x) THEN "expired"
    ELSE IF r \notin OnTarget THEN "denied"
    ELSE "accept"

(* The caller is answered Verdict(r, use[r]). *)
Judge(r) ==
    /\ At(r, "judge")
    /\ Finish(r)
    /\ Quiet /\ UNCHANGED cacheVars

-----------------------------------------------------------------------------
(* InvalidateLease and clearValidateTruth                                  *)

BumpVersion(r) ==
    /\ At(r, "bump")
    /\ leaseVer' = [leaseVer EXCEPT ![Home[r]] = @ + 1]
    /\ Advance(r, "forget")
    /\ UNCHANGED <<storeVars, cacheVars, inbox, handler, atVer, use, since, floor, history>>

(* One DEL names both keys. *)
Forget(r) ==
    /\ At(r, "forget")
    /\ OrFails(/\ cached' = [cached EXCEPT ![target[r]] = NoEntry]
               /\ truth' = [truth EXCEPT ![target[r]] = NoEntry],
               UNCHANGED <<cached, truth>>)
    /\ Advance(r, "announce")
    /\ Quiet /\ UNCHANGED <<local, atVer, use, since, floor>>

(* The message reaches some of the instances with a subscription, the      *)
(* sender's own included; the others never hear of it.                     *)
Announce(r) ==
    /\ At(r, "announce")
    /\ \E reached \in SUBSET Subscribed :
         inbox' = [i \in Instance |-> IF i \in reached THEN inbox[i] + 1 ELSE inbox[i]]
    /\ Advance(r, "dropLocal")
    /\ UNCHANGED <<storeVars, cacheVars, leaseVer, handler, atVer, use, since, floor, history>>

DropLocal(r) ==
    /\ At(r, "dropLocal")
    /\ local' = [local EXCEPT ![Home[r]][target[r]] = NoEntry]
    /\ Advance(r, "dropShared")
    /\ Quiet /\ UNCHANGED <<cached, truth, atVer, use, since, floor>>

(* r read the row before its last write, and may still put the image it    *)
(* read into the caches.                                                   *)
HoldsOldImage(r) ==
    /\ step[r] \in {"fill", "checkVersion", "stamp", "share"}
    /\ Older(use[r], row[target[r]])

(* Seeded fault: clearValidateTruth forgets the shared copy. *)
DropSharedNot(r) ==
    LET l == target[r]
        undisturbed == \A q \in Request : target[q] = l => ~HoldsOldImage(q)
    IN
    /\ At(r, "dropShared")
    /\ IF Kind[r] = "validate"
       THEN /\ Advance(r, "judge")
            /\ UNCHANGED <<atVer, use, since, floor, settled>>
       ELSE /\ Finish(r)
            /\ settled' = IF Exists(l) /\ undisturbed
                          THEN [settled EXCEPT ![l] =
                                  [generation |-> row[l].generation,
                                   revoked |-> row[l].revoked]]
                          ELSE settled
    /\ UNCHANGED <<storeVars, subVars, cacheVars, revokedAt>>

(* The last command of clearValidateTruth; a renewal or a revoke answers   *)
(* after it.                                                               *)
DropShared(r) ==
    LET l == target[r]
        undisturbed == \A q \in Request : target[q] = l => ~HoldsOldImage(q)
    IN
    /\ At(r, "dropShared")
    /\ OrFails(truth' = [truth EXCEPT ![l] = NoEntry], UNCHANGED truth)
    /\ IF Kind[r] = "validate"
       THEN /\ Advance(r, "judge")
            /\ UNCHANGED <<atVer, use, since, floor, settled>>
       ELSE /\ Finish(r)
            /\ settled' = IF Exists(l) /\ undisturbed
                          THEN [settled EXCEPT ![l] =
                                  [generation |-> row[l].generation,
                                   revoked |-> row[l].revoked]]
                          ELSE settled
    /\ UNCHANGED <<storeVars, subVars, cached, local, revokedAt>>

-----------------------------------------------------------------------------
(* Seeded fault: the subscriber does not wait for a message. *)
ConsumeEarly(i) ==
    /\ handler[i] = "idle"
    /\ inbox' = [inbox EXCEPT ![i] = @ - 1]
    /\ leaseVer' = [leaseVer EXCEPT ![i] = @ + 1]
    /\ handler' = [handler EXCEPT ![i] = "leases"]
    /\ UNCHANGED <<storeVars, cacheVars, reqVars, history>>

(* The subscriber of instance i: a lease message drops the lease and truth *)
(* keys of every tenant, one pattern after the other (InvalidateAllLeases).*)
(* The messages name no lease.                                             *)
Consume(i) ==
    /\ handler[i] = "idle" /\ inbox[i] > 0
    /\ inbox' = [inbox EXCEPT ![i] = @ - 1]
    /\ leaseVer' = [leaseVer EXCEPT ![i] = @ + 1]
    /\ handler' = [handler EXCEPT ![i] = "leases"]
    /\ UNCHANGED <<storeVars, cacheVars, reqVars, history>>

DropAllLeases(i) ==
    /\ handler[i] = "leases"
    /\ cached' = [l \in Lease |-> NoEntry]
    /\ handler' = [handler EXCEPT ![i] = "truths"]
    /\ UNCHANGED <<storeVars, truth, local, leaseVer, inbox, reqVars, history>>

DropAllTruths(i) ==
    /\ handler[i] = "truths"
    /\ truth' = [l \in Lease |-> NoEntry]
    /\ handler' = [handler EXCEPT ![i] = "idle"]
    /\ UNCHANGED <<storeVars, cached, local, leaseVer, inbox, reqVars, history>>

(* A scan or a DEL fails: the rest of the message is not applied. *)
DropFails(i) ==
    /\ Faulty /\ handler[i] # "idle"
    /\ handler' = [handler EXCEPT ![i] = "idle"]
    /\ UNCHANGED <<storeVars, cacheVars, leaseVer, inbox, reqVars, history>>

-----------------------------------------------------------------------------
InFlight(r) == step[r] \notin {"idle", "done"} \/ pc[r] \notin {"ready", "done"}

(* The caller gives up, or the instance dies: the handler goes no further. *)
GiveUp(r) ==
    /\ Faulty
    /\ \/ Abandon(r)
       \/ step[r] \notin {"idle", "done"} /\ UNCHANGED storeVars
    /\ Finish(r)
    /\ UNCHANGED <<cacheVars, subVars, history>>

(* An instance restarts.  The requests it was serving have stopped before. *)
Restart(i) ==
    /\ i \in site.mortal
    /\ \A r \in Request : Home[r] = i => ~InFlight(r)
    /\ local' = [local EXCEPT ![i] = [l \in Lease |-> NoEntry]]
    /\ leaseVer' = [leaseVer EXCEPT ![i] = 0]
    /\ inbox' = [inbox EXCEPT ![i] = 0]
    /\ handler' = [handler EXCEPT ![i] = "idle"]
    /\ UNCHANGED <<storeVars, cached, truth, reqVars, history>>

Maintenance ==
    /\ DeleteExpiredLeasesBatch
    /\ UNCHANGED <<cacheVars, subVars, reqVars, history>>

Keep(e) == IF e # NoEntry /\ e.until > now' THEN e ELSE NoEntry

(* A reader that is between its read and its last write is never overtaken *)
(* by more than Patience ticks.                                            *)
ServiceTick ==
    /\ Tick
    /\ now < site.horizon
    /\ \A r \in Request :
           step[r] \notin {"idle", "done"} /\ Kind[r] \in {"create", "validate"}
               => now < since[r] + Patience
    /\ cached' = [l \in Lease |-> Keep(cached[l])]
    /\ truth' = [l \in Lease |-> Keep(truth[l])]
    /\ local' = [i \in Instance |-> [l \in Lease |-> Keep(local[i][l])]]
    /\ UNCHANGED <<subVars, reqVars, history>>

Validate(r) ==
    \/ Begin(r) \/ Lookup(r) \/ ConfirmLocal(r) \/ ReadCache(r)
    \/ ConfirmCached(r) \/ ReadStore(r) \/ CheckVersion(r) \/ Judge(r)

Remember(r) == Fill(r) \/ StampTruth(r) \/ ShareTruth(r)

Invalidate(r) ==
    BumpVersion(r) \/ Forget(r) \/ Announce(r) \/ DropLocal(r) \/ DropShared(r)

ServiceStep ==
    \/ \E r \in site.requests :
          \/ ServiceCreate(r) \/ ServiceRenew(r) \/ ServiceRevoke(r)
          \/ Validate(r) \/ Remember(r) \/ Invalidate(r)
          \/ GiveUp(r)
    \/ \E i \in Instance :
          Consume(i) \/ DropAllLeases(i) \/ DropAllTruths(i) \/ DropFails(i) \/ Restart(i)
    \/ Maintenance
    \/ ServiceTick

ServiceNext == ServiceStep /\ UNCHANGED site

ServiceSpec == ServiceInit /\ [][ServiceNext]_vars

-----------------------------------------------------------------------------
(* Properties                                                              *)

(* Validation r is judged, and well. *)
Accepts(r) ==
    At(r, "judge") /\ step'[r] = "done" /\ Verdict(r, use[r]) = "accept"

(* However many instances, messages lost, Redis commands failed and        *)
(* handlers stopped half way: a revoked lease is accepted for less than    *)
(* one truth TTL and the duration of two requests after the revoke.        *)
(* A shared truth is never prolonged by a validation that only used it.    *)
BoundedStaleness ==
    [][\A r \in Request :
           Accepts(r) /\ row[target[r]] # NoRow /\ row[target[r]].revoked
               => now < revokedAt[target[r]] + TruthTTL + 2 * Patience
      ]_vars

(* Where nothing fails: if nobody was holding an older image of the lease   *)
(* when a renewal or a revoke was answered, no validation that begins      *)
(* later is judged by an older row, on any instance: local stamps and      *)
(* cached leases that were never told of the write are useless without the *)
(* shared truth.                                                           *)
SettledWriteIsSeen ==
    ~Faulty =>
        \A r \in Request :
            At(r, "judge") /\ use[r] # NoRow => ~Older(use[r], floor[r])

(* A revoke of l has gone through all its steps and is answered. *)
RevokeReturned(l) ==
    \E q \in Request :
        Kind[q] = "revoke" /\ target[q] = l /\ step[q] = "done" /\ result[q] = "ok"

(* Once a revoke is answered, no validation that read the row before it    *)
(* puts the truth of that row back across the change of version which the  *)
(* revoke, on the same instance, has made.                                 *)
NoTruthAcrossVersions ==
    [][\A r \in Request :
           /\ Kind[r] = "validate" /\ At(r, "share") /\ step'[r] = "judge"
           /\ RevokeReturned(target[r]) /\ Older(use[r], row[target[r]])
           => leaseVer[Home[r]] = atVer[r]
      ]_vars
=============================================================================
