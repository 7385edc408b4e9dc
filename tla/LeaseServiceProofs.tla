-------------------------- MODULE LeaseServiceProofs --------------------------
(***************************************************************************)
(* Proofs about LeaseService, for any leases, requests and instances and   *)
(* for any deployments of Sites.                                           *)
(*                                                                         *)
(* ServiceTypeCorrect, ServiceImplementsStore and BoundedStalenessHolds    *)
(* need no assumption.  SettledWriteIsSeenHolds needs that no caller       *)
(* reuses an idempotency key whose row has been deleted (~KeyReuse): a     *)
(* lease that is created again starts at generation 1, unrevoked.          *)
(***************************************************************************)
EXTENDS LeaseService, LeaseStoreProofs

-----------------------------------------------------------------------------
(* Types, and where a request may be                                       *)

(* What a deployment is made of. *)
LEMMA SiteTypes ==
    ASSUME site \in Sites
    PROVE  /\ site.requests \subseteq Request
           /\ Subscribed \subseteq Instance
           /\ CacheTTL \in Nat /\ CacheTTL > 0
           /\ TruthTTL \in Nat /\ TruthTTL > 0
           /\ Patience \in Nat
<1>1. site \in Deployment
  BY ServiceAssumption
<1> QED
  BY <1>1 DEF Deployment, CacheTTL, TruthTTL, Patience, Subscribed

(* The service runs the requests of the store, one statement at a time. *)
LEMMA ServiceStoreStep ==
    ASSUME site \in Sites, [ServiceNext]_vars
    PROVE  [Next]_storeVars
<1>1. site.requests \subseteq Request
  BY SiteTypes
<1>2. CASE UNCHANGED vars
  BY <1>2 DEF vars
<1>3. ASSUME NEW r \in Request, ServiceCreate(r) \/ ServiceRenew(r) \/ ServiceRevoke(r)
      PROVE  Next
  BY <1>3 DEF ServiceCreate, ServiceRenew, ServiceRevoke, Next
<1>4. ASSUME NEW r \in Request, GiveUp(r)
      PROVE  Next \/ UNCHANGED storeVars
  BY <1>4 DEF GiveUp, Next
<1>5. ASSUME NEW r \in Request, Validate(r) \/ Remember(r) \/ Invalidate(r)
      PROVE  UNCHANGED storeVars
  BY <1>5
     DEF Validate, Remember, Invalidate, Begin, Lookup, ConfirmLocal, ReadCache,
         ConfirmCached, ReadStore, CheckVersion, Judge, Fill, StampTruth, ShareTruth,
         BumpVersion, Forget, Announce, DropLocal, DropShared, Quiet
<1>6. ASSUME NEW i \in Instance,
             Consume(i) \/ DropAllLeases(i) \/ DropAllTruths(i) \/ DropFails(i) \/ Restart(i)
      PROVE  UNCHANGED storeVars
  BY <1>6 DEF Consume, DropAllLeases, DropAllTruths, DropFails, Restart
<1>7. CASE Maintenance \/ ServiceTick
  BY <1>7 DEF Maintenance, ServiceTick, Next
<1> QED
  BY <1>1, <1>2, <1>3, <1>4, <1>5, <1>6, <1>7 DEF ServiceNext, ServiceStep

(* Where a writer may be, by the operation it performs. *)
WhereWriters ==
    \A r \in Request :
        /\ pc[r] \in {"creating", "replaying"} => Kind[r] = "create"
        /\ pc[r] \in {"renewing", "classifying"} => Kind[r] = "renew"
        /\ pc[r] = "confirming" => Kind[r] = "revoke"

(* The cache part of a writer begins when the store has answered. *)
WhereSteps ==
    \A r \in Request :
        /\ Kind[r] # "validate" /\ pc[r] # "done" => step[r] = "idle"
        /\ step[r] \in {"bump", "forget", "announce"} => Kind[r] # "validate"
        /\ step[r] \in {"lookup", "confirmLocal", "readCache", "confirmCached",
                        "readStore", "checkVersion", "judge"} => Kind[r] = "validate"
        /\ step[r] \in {"fill", "stamp", "share"} => Kind[r] \in {"create", "validate"}

(* The steps at which an image is on its way from the store into the caches. *)
Carrying == {"fill", "checkVersion", "stamp", "share"}

(* A request that is about to use an image has one. *)
Holding == \A r \in Request :
    step[r] \in Carrying \union {"confirmLocal", "confirmCached"} => use[r] # NoRow

(* ServiceTypeOK without what LeaseStore says of its own variables. *)
CacheTypes ==
    /\ cached \in [Lease -> Entry]
    /\ truth \in [Lease -> [fingerprint : Nat \X BOOLEAN \X Nat \X Request,
                            until : Nat] \union {NoEntry}]
    /\ local \in [Instance -> [Lease -> Entry]]
    /\ leaseVer \in [Instance -> Nat]
    /\ inbox \in [Instance -> Nat]
    /\ handler \in [Instance -> {"idle", "leases", "truths"}]

RequestTypes ==
    /\ step \in [Request -> Steps]
    /\ atVer \in [Request -> Nat]
    /\ use \in [Request -> Image]
    /\ since \in [Request -> Time]
    /\ floor \in [Request -> Version]

HistoryTypes ==
    /\ revokedAt \in [Lease -> Nat]
    /\ settled \in [Lease -> Version]

LEMMA ServiceTypeParts ==
    ServiceTypeOK <=>
        TypeOK /\ site \in Sites /\ CacheTypes /\ RequestTypes /\ HistoryTypes
BY DEF ServiceTypeOK, CacheTypes, RequestTypes, HistoryTypes

Typed ==
    /\ TypeOK /\ Carries /\ WhereWriters
    /\ site \in Sites /\ CacheTypes /\ RequestTypes /\ HistoryTypes
    /\ WhereSteps /\ Holding

LEMMA TypedInit == ServiceInit => Typed
<1> SUFFICES ASSUME ServiceInit PROVE Typed
  OBVIOUS
<1>1. TypeOK /\ Carries
  BY TypeInit DEF ServiceInit, TypeInv
<1>2. WhereWriters
  BY DEF ServiceInit, Init, WhereWriters
<1>3. CacheTypes
  BY DEF ServiceInit, CacheTypes, Entry
<1>4. RequestTypes
  BY StoreAssumption
     DEF ServiceInit, RequestTypes, Steps, Image, Time, Version, NoVersion
<1>5. HistoryTypes
  BY DEF ServiceInit, HistoryTypes, Version, NoVersion
<1>6. WhereSteps /\ Holding
  BY DEF ServiceInit, Init, WhereSteps, Holding, Carrying
<1> QED
  BY <1>1, <1>2, <1>3, <1>4, <1>5, <1>6 DEF Typed, ServiceInit

LEMMA WhereWritersStep ==
    ASSUME TypeOK, WhereWriters, [Next]_storeVars
    PROVE  WhereWriters'
<1> USE DEF TypeOK, WhereWriters
<1>1. ASSUME NEW r \in Request, Create(r) PROVE WhereWriters'
  BY <1>1 DEF Create, CreateBegin, CreateInsert, CreateDuplicate, CreateReplay,
              Start, Goto, Answer, AnswerWrite
<1>2. ASSUME NEW r \in Request, Renew(r) PROVE WhereWriters'
  BY <1>2 DEF Renew, RenewRead, RenewRefused, RenewNoPolicy, RenewWrite,
              RenewConflict, RenewClassify, Start, Goto, Answer, AnswerWrite
<1>3. ASSUME NEW r \in Request, Revoke(r) PROVE WhereWriters'
  BY <1>3 DEF Revoke, RevokeUpdate, RevokeMiss, RevokeConfirm,
              Start, Goto, Answer, AnswerWrite
<1>4. ASSUME NEW r \in Request, Abandon(r) PROVE WhereWriters'
  BY <1>4 DEF Abandon, Answer
<1>5. CASE DeleteExpiredLeasesBatch \/ Tick \/ UNCHANGED storeVars
  BY <1>5 DEF DeleteExpiredLeasesBatch, Tick, storeVars
<1> QED
  BY <1>1, <1>2, <1>3, <1>4, <1>5 DEF Next

(* What the store part of a writer does to its own place and to its image. *)
LEMMA WriterStep ==
    ASSUME Typed, NEW r \in Request, Create(r) \/ Renew(r) \/ Revoke(r)
    PROVE  /\ Kind[r] # "validate" /\ pc[r] # "done" /\ step[r] = "idle"
           /\ pc' = [pc EXCEPT ![r] = pc'[r]]
           /\ pc'[r] = "done" /\ result'[r] = "ok" /\ Create(r)
                 => seen'[r] \in Row
           /\ Create(r) => Kind[r] = "create"
           /\ UNCHANGED <<now, target>>
<1> USE DEF Typed, TypeOK
<1>1. CASE Create(r)
  <2>1. CASE CreateBegin(r)
    BY <2>1 DEF CreateBegin, Start, Goto, WhereSteps
  <2>2. CASE CreateInsert(r)
    BY <2>2 DEF CreateInsert, Answer, AnswerWrite, WhereWriters, WhereSteps, Carries
  <2>3. CASE CreateDuplicate(r)
    BY <2>3 DEF CreateDuplicate, Goto, WhereWriters, WhereSteps
  <2>4. CASE CreateReplay(r)
    BY <2>4 DEF CreateReplay, Answer, WhereWriters, WhereSteps, Exists
  <2> QED
    BY <1>1, <2>1, <2>2, <2>3, <2>4 DEF Create
<1>2. CASE Renew(r)
  BY <1>2 DEF Renew, RenewRead, RenewRefused, RenewNoPolicy, RenewWrite, RenewConflict,
              RenewClassify, Start, Goto, Answer, AnswerWrite, WhereWriters, WhereSteps,
              Create, CreateBegin, CreateInsert, CreateDuplicate, CreateReplay
<1>3. CASE Revoke(r)
  BY <1>3 DEF Revoke, RevokeUpdate, RevokeMiss, RevokeConfirm, Start, Goto, Answer,
              AnswerWrite, WhereWriters, WhereSteps,
              Create, CreateBegin, CreateInsert, CreateDuplicate, CreateReplay
<1> QED
  BY <1>1, <1>2, <1>3

(* A request whose step changes, and nothing else of its cache part. *)
LEMMA Move ==
    ASSUME Typed, NEW r \in Request, NEW label \in Steps, Advance(r, label)
    PROVE  /\ step' \in [Request -> Steps] /\ step'[r] = label
           /\ \A q \in Request : q # r => step'[q] = step[q]
BY DEF Advance, Typed, RequestTypes

(* A handler that has returned. *)
LEMMA Return ==
    ASSUME Typed, NEW r \in Request, Finish(r)
    PROVE  /\ RequestTypes'
           /\ step'[r] = "done" /\ use'[r] = NoRow /\ floor'[r] = NoVersion
           /\ \A q \in Request : q # r =>
                 /\ step'[q] = step[q] /\ use'[q] = use[q]
                 /\ since'[q] = since[q] /\ floor'[q] = floor[q]
BY StoreAssumption
   DEF Finish, Advance, Typed, RequestTypes, Steps, Image, Time, Version, NoVersion

(* A new stamp, and an old one thrown out for it. *)
LEMMA StampTypes ==
    ASSUME Typed, NEW i \in Instance, NEW l \in Lease, NEW x \in Row, Stamp(i, l, x)
    PROVE  local' \in [Instance -> [Lease -> Entry]]
<1>1. now + TruthTTL \in Nat
  BY SiteTypes DEF Typed, TypeOK, Time
<1>2. [lease |-> x, until |-> now + TruthTTL] \in Entry
  BY <1>1 DEF Entry
<1>3. \A victim : Stamped(i, l, x, victim) \in [Instance -> [Lease -> Entry]]
  <2> SUFFICES ASSUME NEW victim
               PROVE  Stamped(i, l, x, victim) \in [Instance -> [Lease -> Entry]]
    OBVIOUS
  <2>1. [k \in Lease |-> IF k = l THEN [lease |-> x, until |-> now + TruthTTL]
                         ELSE IF k = victim THEN NoEntry
                         ELSE local[i][k]] \in [Lease -> Entry]
    BY <1>2 DEF Typed, CacheTypes, Entry
  <2> QED
    BY <2>1 DEF Stamped, Typed, CacheTypes
<1> QED
  BY <1>3 DEF Stamp

LEMMA FingerprintType ==
    ASSUME NEW x \in Row
    PROVE  Fingerprint(x) \in Nat \X BOOLEAN \X Nat \X Request
BY DEF Fingerprint, Row

(* The parts of Typed that a step of the cache part has to preserve. *)
Parts == CacheTypes /\ RequestTypes /\ HistoryTypes /\ WhereSteps /\ Holding

LEMMA WritersKeepParts ==
    ASSUME Typed, NEW r \in Request,
           ServiceCreate(r) \/ ServiceRenew(r) \/ ServiceRevoke(r)
    PROVE  Parts'
<1> USE DEF Typed
<1>1. Create(r) \/ Renew(r) \/ Revoke(r)
  BY DEF ServiceCreate, ServiceRenew, ServiceRevoke
<1>2. /\ Kind[r] # "validate" /\ step[r] = "idle"
      /\ pc' = [pc EXCEPT ![r] = pc'[r]]
      /\ \A q \in Request : q # r => pc'[q] = pc[q]
      /\ Create(r) => Kind[r] = "create"
  BY <1>1, WriterStep DEF TypeOK
<1>3. CASE ServiceCreate(r)
  <2>1. CASE step'[r] = "fill"
    <3>1. step' = [step EXCEPT ![r] = "fill"] /\ pc'[r] = "done" /\ result'[r] = "ok"
      BY <1>2, <1>3, <2>1 DEF ServiceCreate, AfterStore, RequestTypes
    <3>2. use' = [use EXCEPT ![r] = seen'[r]] /\ since' = [since EXCEPT ![r] = now]
      BY <1>3, <2>1 DEF ServiceCreate
    <3>3. seen'[r] \in Row /\ Kind[r] = "create"
      BY <1>3, <3>1, WriterStep DEF ServiceCreate
    <3>4. RequestTypes'
      BY <1>3, <3>1, <3>2, <3>3
         DEF ServiceCreate, RequestTypes, Steps, Image, TypeOK
    <3>5. WhereSteps' /\ Holding'
      BY <1>2, <3>1, <3>2, <3>3, StoreAssumption
         DEF WhereSteps, Holding, Carrying, RequestTypes
    <3> QED
      BY <1>3, <3>4, <3>5
         DEF Parts, ServiceCreate, CacheTypes, HistoryTypes, cacheVars, subVars, history
  <2>2. CASE step'[r] # "fill"
    <3>1. step' = step \/ (step' = [step EXCEPT ![r] = "done"] /\ pc'[r] = "done")
      BY <1>3, <2>2 DEF ServiceCreate, AfterStore, RequestTypes
    <3>2. UNCHANGED <<use, since>>
      BY <1>3, <2>2 DEF ServiceCreate
    <3>3. RequestTypes'
      BY <1>3, <3>1, <3>2 DEF ServiceCreate, RequestTypes, Steps
    <3>4. WhereSteps' /\ Holding'
      BY <1>2, <3>1, <3>2 DEF WhereSteps, Holding, Carrying, RequestTypes
    <3> QED
      BY <1>3, <3>3, <3>4
         DEF Parts, ServiceCreate, CacheTypes, HistoryTypes, cacheVars, subVars, history
  <2> QED
    BY <2>1, <2>2
<1>4. CASE ServiceRenew(r) \/ ServiceRevoke(r)
  <2>1. /\ UNCHANGED <<cacheVars, subVars, atVer, use, since, floor, settled>>
        /\ step' = step \/ (pc'[r] = "done" /\ \E label \in {"bump", "done"} :
                               step' = [step EXCEPT ![r] = label])
    BY <1>4 DEF ServiceRenew, ServiceRevoke, AfterStore, history
  <2>2. revokedAt' \in [Lease -> Nat]
    BY <1>4 DEF ServiceRenew, ServiceRevoke, history, HistoryTypes, TypeOK, Time
  <2>3. RequestTypes'
    BY <2>1 DEF RequestTypes, Steps
  <2>4. WhereSteps' /\ Holding'
    BY <1>2, <2>1 DEF WhereSteps, Holding, Carrying, RequestTypes
  <2> QED
    BY <2>1, <2>2, <2>3, <2>4
       DEF Parts, CacheTypes, HistoryTypes, cacheVars, subVars
<1> QED
  BY <1>3, <1>4

LEMMA ValidateKeepsParts ==
    ASSUME Typed, NEW r \in Request, Validate(r)
    PROVE  Parts'
<1> USE DEF Typed
<1>1. UNCHANGED storeVars /\ UNCHANGED <<subVars, revokedAt, settled>>
  BY DEF Validate, Begin, Lookup, ConfirmLocal, ReadCache, ConfirmCached, ReadStore,
         CheckVersion, Judge, Quiet
<1>2. HistoryTypes' /\ UNCHANGED <<pc, now, row, target>>
  BY <1>1 DEF HistoryTypes, storeVars
<1>3. Home[r] \in Instance /\ target[r] \in Lease
  BY ServiceAssumption DEF TypeOK
<1>4. CASE Begin(r)
  <2>1. RequestTypes'
    BY <1>3, <1>4
       DEF Begin, Advance, RequestTypes, Steps, CacheTypes, HistoryTypes, TypeOK
  <2>2. WhereSteps' /\ Holding'
    BY <1>2, <1>4
       DEF Begin, Start, Advance, At, WhereSteps, Holding, Carrying, RequestTypes
  <2> QED
    BY <1>1, <1>2, <1>4, <2>1, <2>2 DEF Parts, Begin, CacheTypes, cacheVars, subVars
<1>5. CASE Lookup(r)
  <2> DEFINE entry == local[Home[r]][target[r]]
  <2>1. entry \in Entry
    BY <1>3 DEF CacheTypes
  <2>2. \/ /\ entry # NoEntry /\ use' = [use EXCEPT ![r] = entry.lease]
           /\ Advance(r, "confirmLocal")
        \/ UNCHANGED use /\ Advance(r, "readCache")
    BY <1>5 DEF Lookup
  <2>3. entry # NoEntry => entry.lease \in Row
    BY <2>1 DEF Entry
  <2> HIDE DEF entry
  <2>4. RequestTypes'
    BY <1>5, <2>2, <2>3 DEF Lookup, Advance, RequestTypes, Steps, Image
  <2>5. WhereSteps' /\ Holding'
    BY <1>2, <1>5, <2>2, <2>3, StoreAssumption
       DEF Lookup, Advance, At, WhereSteps, Holding, Carrying, RequestTypes
  <2> QED
    BY <1>1, <1>2, <1>5, <2>4, <2>5 DEF Parts, Lookup, CacheTypes, cacheVars, subVars
<1>6. CASE ConfirmLocal(r)
  <2>1. \E label \in {"judge", "readCache"} : Advance(r, label)
    BY <1>6 DEF ConfirmLocal
  <2>2. RequestTypes'
    BY <1>6, <2>1 DEF ConfirmLocal, Advance, RequestTypes, Steps
  <2>3. WhereSteps' /\ Holding'
    BY <1>2, <1>6, <2>1
       DEF ConfirmLocal, Advance, At, WhereSteps, Holding, Carrying, RequestTypes
  <2> QED
    BY <1>1, <1>2, <1>6, <2>2, <2>3 DEF Parts, ConfirmLocal, CacheTypes, cacheVars, subVars
<1>7. CASE ReadCache(r)
  <2> DEFINE entry == cached[target[r]]
  <2>1. entry \in Entry
    BY <1>3 DEF CacheTypes
  <2>2. \/ /\ entry # NoEntry /\ use' = [use EXCEPT ![r] = entry.lease]
           /\ Advance(r, "confirmCached")
        \/ UNCHANGED use /\ Advance(r, "readStore")
    BY <1>7 DEF ReadCache
  <2>3. entry # NoEntry => entry.lease \in Row
    BY <2>1 DEF Entry
  <2> HIDE DEF entry
  <2>4. RequestTypes'
    BY <1>7, <2>2, <2>3 DEF ReadCache, Advance, RequestTypes, Steps, Image
  <2>5. WhereSteps' /\ Holding'
    BY <1>2, <1>7, <2>2, <2>3, StoreAssumption
       DEF ReadCache, Advance, At, WhereSteps, Holding, Carrying, RequestTypes
  <2> QED
    BY <1>1, <1>2, <1>7, <2>4, <2>5 DEF Parts, ReadCache, CacheTypes, cacheVars, subVars
<1>8. CASE ConfirmCached(r)
  <2>1. use[r] \in Row
    BY <1>8 DEF ConfirmCached, At, Holding, RequestTypes, Image
  <2>2. local' \in [Instance -> [Lease -> Entry]]
    BY <1>3, <1>8, <2>1, StampTypes DEF ConfirmCached, CacheTypes
  <2>3. \E label \in {"judge", "readStore"} : Advance(r, label)
    BY <1>8 DEF ConfirmCached
  <2>4. RequestTypes'
    BY <1>8, <2>3 DEF ConfirmCached, Advance, RequestTypes, Steps
  <2>5. WhereSteps' /\ Holding'
    BY <1>2, <1>8, <2>3
       DEF ConfirmCached, Advance, At, WhereSteps, Holding, Carrying, RequestTypes
  <2> QED
    BY <1>1, <1>2, <1>8, <2>2, <2>4, <2>5 DEF Parts, ConfirmCached, CacheTypes, subVars
<1>9. CASE ReadStore(r)
  <2>1. \E label \in {"fill", "dropLocal"} :
           Advance(r, label) /\ (label = "fill" => row[target[r]] # NoRow)
    BY <1>9 DEF ReadStore, Exists
  <2>2. row[target[r]] \in Image /\ use' = [use EXCEPT ![r] = row[target[r]]]
    BY <1>3, <1>9 DEF ReadStore, TypeOK, Image
  <2>3. RequestTypes'
    BY <1>9, <2>1, <2>2 DEF ReadStore, Advance, RequestTypes, Steps
  <2>4. WhereSteps' /\ Holding'
    BY <1>2, <1>9, <2>1, <2>2
       DEF ReadStore, Advance, At, WhereSteps, Holding, Carrying, RequestTypes
  <2> QED
    BY <1>1, <1>2, <1>9, <2>3, <2>4 DEF Parts, ReadStore, CacheTypes, cacheVars, subVars
<1>10. CASE CheckVersion(r)
  <2>1. \E label \in {"stamp", "dropLocal"} : Advance(r, label)
    BY <1>10 DEF CheckVersion
  <2>2. RequestTypes'
    BY <1>10, <2>1 DEF CheckVersion, Advance, RequestTypes, Steps
  <2>3. WhereSteps' /\ Holding'
    BY <1>2, <1>10, <2>1
       DEF CheckVersion, Advance, At, WhereSteps, Holding, Carrying, RequestTypes
  <2> QED
    BY <1>1, <1>2, <1>10, <2>2, <2>3 DEF Parts, CheckVersion, CacheTypes, cacheVars, subVars
<1>11. CASE Judge(r)
  <2>1. WhereSteps' /\ Holding'
    BY <1>2, <1>11, Return
       DEF Judge, At, WhereSteps, Holding, Carrying
  <2> QED
    BY <1>1, <1>2, <1>11, <2>1, Return DEF Parts, Judge, CacheTypes, cacheVars, subVars
<1> QED
  BY <1>4, <1>5, <1>6, <1>7, <1>8, <1>9, <1>10, <1>11 DEF Validate

LEMMA RememberKeepsParts ==
    ASSUME Typed, NEW r \in Request, Remember(r)
    PROVE  Parts'
<1> USE DEF Typed
<1>1. UNCHANGED storeVars /\ UNCHANGED <<subVars, revokedAt, settled>>
  BY DEF Remember, Fill, StampTruth, ShareTruth, Quiet
<1>2. HistoryTypes' /\ UNCHANGED <<pc, now, row, target>>
  BY <1>1 DEF HistoryTypes, storeVars
<1>3. Home[r] \in Instance /\ target[r] \in Lease
  BY ServiceAssumption DEF TypeOK
<1>4. use[r] \in Row /\ step[r] \in {"fill", "stamp", "share"}
  BY DEF Remember, Fill, StampTruth, ShareTruth, At, Holding, Carrying,
         RequestTypes, Image
<1>5. now + TruthTTL \in Nat /\ now + CacheTTL \in Nat
  BY SiteTypes DEF TypeOK, Time
<1>6. CASE Fill(r)
  <2>1. [lease |-> use[r], until |-> Sooner(now + CacheTTL, use[r].expires)] \in Entry
    BY <1>4, <1>5 DEF Entry, Sooner, Row
  <2>2. cached' \in [Lease -> Entry]
    BY <1>3, <1>6, <2>1 DEF Fill, OrFails, CacheTypes
  <2>3. \E label \in {"checkVersion", "stamp"} :
           Advance(r, label) /\ (label = "checkVersion" => Kind[r] = "validate")
    BY <1>6 DEF Fill
  <2>4. RequestTypes'
    BY <1>6, <2>3 DEF Fill, Advance, RequestTypes, Steps
  <2>5. WhereSteps' /\ Holding'
    BY <1>2, <1>6, <2>3
       DEF Fill, Advance, At, WhereSteps, Holding, Carrying, RequestTypes
  <2> QED
    BY <1>1, <1>2, <1>6, <2>2, <2>4, <2>5 DEF Parts, Fill, CacheTypes, subVars
<1>7. CASE StampTruth(r)
  <2>1. local' \in [Instance -> [Lease -> Entry]]
    BY <1>3, <1>4, <1>7, StampTypes DEF StampTruth
  <2>2. Advance(r, "share")
    BY <1>7 DEF StampTruth
  <2>3. RequestTypes'
    BY <1>7, <2>2 DEF StampTruth, Advance, RequestTypes, Steps
  <2>4. WhereSteps' /\ Holding'
    BY <1>2, <1>7, <2>2
       DEF StampTruth, Advance, At, WhereSteps, Holding, Carrying, RequestTypes
  <2> QED
    BY <1>1, <1>2, <1>7, <2>1, <2>3, <2>4 DEF Parts, StampTruth, CacheTypes, subVars
<1>8. CASE ShareTruth(r)
  <2>1. [fingerprint |-> Fingerprint(use[r]), until |-> now + TruthTTL]
           \in [fingerprint : Nat \X BOOLEAN \X Nat \X Request, until : Nat]
    BY <1>4, <1>5, FingerprintType
  <2>2. truth' \in [Lease -> [fingerprint : Nat \X BOOLEAN \X Nat \X Request,
                              until : Nat] \union {NoEntry}]
    BY <1>3, <1>8, <2>1 DEF ShareTruth, OrFails, CacheTypes
  <2>3. RequestTypes' /\ WhereSteps' /\ Holding'
    <3>1. CASE Kind[r] = "validate"
      <4>1. Advance(r, "judge") /\ UNCHANGED <<atVer, use, since, floor>>
        BY <1>8, <3>1 DEF ShareTruth
      <4>2. RequestTypes'
        BY <4>1 DEF Advance, RequestTypes, Steps
      <4>3. WhereSteps' /\ Holding'
        BY <1>2, <1>8, <3>1, <4>1
           DEF Advance, At, WhereSteps, Holding, Carrying, RequestTypes
      <4> QED
        BY <4>2, <4>3
    <3>2. CASE Kind[r] # "validate"
      <4>1. Finish(r)
        BY <1>8, <3>2 DEF ShareTruth
      <4> QED
        BY <1>2, <1>4, <4>1, Return DEF WhereSteps, Holding, Carrying
    <3> QED
      BY <3>1, <3>2
  <2> QED
    BY <1>1, <1>2, <1>8, <2>2, <2>3 DEF Parts, ShareTruth, CacheTypes, subVars
<1> QED
  BY <1>6, <1>7, <1>8 DEF Remember

LEMMA InvalidateKeepsParts ==
    ASSUME Typed, NEW r \in Request, Invalidate(r)
    PROVE  Parts'
<1> USE DEF Typed
<1>1. UNCHANGED storeVars /\ UNCHANGED revokedAt
  BY DEF Invalidate, BumpVersion, Forget, Announce, DropLocal, DropShared, Quiet, history
<1>2. UNCHANGED <<pc, now, row, target>>
  BY <1>1 DEF storeVars
<1>3. Home[r] \in Instance /\ target[r] \in Lease
  BY ServiceAssumption DEF TypeOK
<1>4. CASE BumpVersion(r) \/ Forget(r) \/ Announce(r) \/ DropLocal(r)
  <2>1. /\ UNCHANGED <<atVer, use, since, floor, settled>>
        /\ \/ At(r, "bump") /\ Advance(r, "forget")
           \/ At(r, "forget") /\ Advance(r, "announce")
           \/ At(r, "announce") /\ Advance(r, "dropLocal")
           \/ At(r, "dropLocal") /\ Advance(r, "dropShared")
    BY <1>4 DEF BumpVersion, Forget, Announce, DropLocal, Quiet, history
  <2>2. RequestTypes' /\ HistoryTypes'
    BY <1>1, <2>1 DEF Advance, RequestTypes, HistoryTypes, Steps
  <2>3. WhereSteps' /\ Holding'
    BY <1>2, <2>1 DEF Advance, At, WhereSteps, Holding, Carrying, RequestTypes
  <2>4. CacheTypes'
    <3>1. CASE BumpVersion(r)
      BY <1>3, <3>1 DEF BumpVersion, CacheTypes, cacheVars
    <3>2. CASE Forget(r)
      BY <1>3, <3>2 DEF Forget, OrFails, Quiet, CacheTypes, subVars, Entry
    <3>3. CASE Announce(r)
      BY <3>3 DEF Announce, CacheTypes, cacheVars
    <3>4. CASE DropLocal(r)
      BY <1>3, <3>4 DEF DropLocal, Quiet, CacheTypes, subVars, Entry
    <3> QED
      BY <1>4, <3>1, <3>2, <3>3, <3>4
  <2> QED
    BY <2>2, <2>3, <2>4 DEF Parts
<1>5. CASE DropShared(r)
  <2>1. CacheTypes'
    BY <1>3, <1>5 DEF DropShared, OrFails, CacheTypes, subVars
  <2>2. CASE Kind[r] = "validate"
    <3>1. Advance(r, "judge") /\ UNCHANGED <<atVer, use, since, floor, settled>>
      BY <1>5, <2>2 DEF DropShared
    <3>2. RequestTypes' /\ HistoryTypes'
      BY <1>1, <3>1 DEF Advance, RequestTypes, HistoryTypes, Steps
    <3>3. WhereSteps' /\ Holding'
      BY <1>2, <1>5, <2>2, <3>1
         DEF Advance, At, WhereSteps, Holding, Carrying, RequestTypes
    <3> QED
      BY <2>1, <3>2, <3>3 DEF Parts
  <2>3. CASE Kind[r] # "validate"
    <3>1. Finish(r) /\ At(r, "dropShared")
      BY <1>5, <2>3 DEF DropShared
    <3>2. Exists(target[r]) =>
             [generation |-> row[target[r]].generation, revoked |-> row[target[r]].revoked]
                \in Version
      BY <1>3 DEF Exists, TypeOK, Row, Version
    <3>3. settled' \in [Lease -> Version]
      BY <1>3, <1>5, <2>3, <3>2 DEF DropShared, HistoryTypes
    <3>4. WhereSteps' /\ Holding'
      BY <1>2, <3>1, Return DEF At, WhereSteps, Holding, Carrying
    <3> QED
      BY <1>1, <2>1, <3>1, <3>3, <3>4, Return DEF Parts, HistoryTypes
  <2> QED
    BY <2>2, <2>3
<1> QED
  BY <1>4, <1>5 DEF Invalidate

LEMMA InstancesKeepParts ==
    ASSUME Typed, NEW i \in Instance,
           Consume(i) \/ DropAllLeases(i) \/ DropAllTruths(i) \/ DropFails(i) \/ Restart(i)
    PROVE  Parts'
<1> USE DEF Typed
<1>1. UNCHANGED <<storeVars, reqVars, history>>
  BY DEF Consume, DropAllLeases, DropAllTruths, DropFails, Restart
<1>2. RequestTypes' /\ HistoryTypes' /\ WhereSteps' /\ Holding'
  BY <1>1 DEF storeVars, reqVars, history, RequestTypes, HistoryTypes, WhereSteps, Holding
<1>3. CASE Consume(i)
  BY <1>2, <1>3 DEF Consume, Parts, CacheTypes, cacheVars
<1>4. CASE DropAllLeases(i)
  BY <1>2, <1>4 DEF DropAllLeases, Parts, CacheTypes, Entry
<1>5. CASE DropAllTruths(i)
  BY <1>2, <1>5 DEF DropAllTruths, Parts, CacheTypes
<1>6. CASE DropFails(i)
  BY <1>2, <1>6 DEF DropFails, Parts, CacheTypes, cacheVars
<1>7. CASE Restart(i)
  BY <1>2, <1>7 DEF Restart, Parts, CacheTypes, Entry
<1> QED
  BY <1>3, <1>4, <1>5, <1>6, <1>7

(* An entry outlives a tick or is dropped by it. *)
LEMMA KeepIsEntry ==
    ASSUME NEW e
    PROVE  Keep(e) \in {e, NoEntry}
BY DEF Keep

LEMMA OthersKeepParts ==
    ASSUME Typed, \/ \E r \in Request : GiveUp(r)
                  \/ Maintenance
                  \/ ServiceTick
                  \/ UNCHANGED vars
    PROVE  Parts'
<1> USE DEF Typed
<1>1. ASSUME NEW r \in Request, GiveUp(r) PROVE Parts'
  <2>1. \A q \in Request : pc'[q] # pc[q] => q = r /\ pc'[q] = "done"
    BY <1>1 DEF GiveUp, Abandon, Answer, storeVars, TypeOK
  <2>2. Kind[r] # "validate" /\ pc'[r] # "done" => step'[r] = "idle"
    <3>1. CASE Abandon(r)
      BY <3>1 DEF Abandon, Answer, TypeOK
    <3>2. CASE step[r] \notin {"idle", "done"} /\ UNCHANGED storeVars
      BY <3>2 DEF WhereSteps, storeVars
    <3> QED
      BY <1>1, <3>1, <3>2 DEF GiveUp
  <2>3. Finish(r) /\ UNCHANGED <<cacheVars, subVars, history>>
    BY <1>1 DEF GiveUp
  <2>4. WhereSteps' /\ Holding'
    BY <2>1, <2>2, <2>3, Return DEF WhereSteps, Holding, Carrying
  <2> QED
    BY <2>3, <2>4, Return
       DEF Parts, CacheTypes, HistoryTypes, cacheVars, subVars, history
<1>2. CASE Maintenance
  BY <1>2 DEF Maintenance, DeleteExpiredLeasesBatch, Parts, CacheTypes, RequestTypes,
              HistoryTypes, WhereSteps, Holding, cacheVars, subVars, reqVars, history
<1>3. CASE ServiceTick
  <2>1. /\ UNCHANGED <<subVars, reqVars, history, pc, target>>
        /\ cached' = [l \in Lease |-> Keep(cached[l])]
        /\ truth' = [l \in Lease |-> Keep(truth[l])]
        /\ local' = [i \in Instance |-> [l \in Lease |-> Keep(local[i][l])]]
    BY <1>3 DEF ServiceTick, Tick
  <2>2. RequestTypes' /\ HistoryTypes' /\ WhereSteps' /\ Holding'
    BY <2>1 DEF reqVars, history, RequestTypes, HistoryTypes, WhereSteps, Holding
  <2>3. NoEntry \in Entry
    BY DEF Entry
  <2>4. CacheTypes'
    BY <2>1, <2>3, KeepIsEntry DEF CacheTypes, subVars
  <2> QED
    BY <2>2, <2>4 DEF Parts
<1>4. CASE UNCHANGED vars
  BY <1>4 DEF vars, storeVars, cacheVars, subVars, reqVars, history, Parts, CacheTypes,
              RequestTypes, HistoryTypes, WhereSteps, Holding
<1> QED
  BY <1>1, <1>2, <1>3, <1>4

LEMMA TypedStep == Typed /\ [ServiceNext]_vars => Typed'
<1> SUFFICES ASSUME Typed, [ServiceNext]_vars PROVE Typed'
  OBVIOUS
<1>1. site.requests \subseteq Request /\ site' = site /\ [Next]_storeVars
  BY SiteTypes, ServiceStoreStep DEF Typed, ServiceNext, vars
<1>2. TypeOK' /\ Carries' /\ WhereWriters'
  BY <1>1, TypeStep, WhereWritersStep DEF Typed, TypeInv
<1>3. Parts'
  BY <1>1, WritersKeepParts, ValidateKeepsParts, RememberKeepsParts,
     InvalidateKeepsParts, InstancesKeepParts, OthersKeepParts
     DEF ServiceNext, ServiceStep
<1> QED
  BY <1>1, <1>2, <1>3 DEF Typed, Parts

LEMMA AlwaysTyped == ServiceSpec => []Typed
BY TypedInit, TypedStep, PTL DEF ServiceSpec

(* Every variable of the service, its caches and its subscribers keeps its *)
(* type, in every deployment.                                              *)
THEOREM ServiceTypeCorrect == ServiceSpec => []ServiceTypeOK
<1>1. Typed => ServiceTypeOK
  BY ServiceTypeParts DEF Typed
<1> QED
  BY <1>1, AlwaysTyped, PTL

(* The caches add nothing to what the requests do to the rows: the service *)
(* implements LeaseStore, and its theorems hold of it.                     *)
THEOREM ServiceImplementsStore == ServiceSpec => Spec
<1>1. ServiceInit => Init
  BY DEF ServiceInit
<1>2. Typed /\ [ServiceNext]_vars => [Next]_storeVars
  BY ServiceStoreStep DEF Typed
<1> QED
  BY <1>1, <1>2, AlwaysTyped, PTL DEF ServiceSpec, Spec

-----------------------------------------------------------------------------
(* How long a revoked lease may still be accepted.                         *)
(*                                                                         *)
(* A request that holds an unrevoked image of a row that is revoked by now *)
(* read it before the revoke, and lasts for Patience; what it leaves in    *)
(* the shared truth lives for a TTL more.  A validation that is confirmed  *)
(* by that truth began before it ran out, and lasts for Patience itself.   *)

RevokedRow(l) == Exists(l) /\ row[l].revoked

(* A lease is drawn up unrevoked, and a renewal starts from a live row. *)
DrawnUpAlive ==
    \A r \in Request : pc[r] \in {"creating", "renewing"} => ~seen[r].revoked

(* What ServiceTick assumes of requests, as an invariant. *)
Timely ==
    \A r \in Request :
        step[r] \notin {"idle", "done"} /\ Kind[r] \in {"create", "validate"}
            => since[r] <= now /\ now <= since[r] + Patience

TruthLives ==
    \A l \in Lease : truth[l] # NoEntry =>
        now < truth[l].until /\ truth[l].until <= now + TruthTTL

(* Request r uses an image that the revoke of its row has overtaken. *)
Overtaken(r) == use[r] # NoRow /\ ~use[r].revoked /\ RevokedRow(target[r])

CarriedFresh ==
    \A r \in Request :
        step[r] \in Carrying /\ Overtaken(r) => since[r] <= revokedAt[target[r]]

TruthFresh ==
    \A l \in Lease :
        truth[l] # NoEntry /\ ~truth[l].fingerprint[2] /\ RevokedRow(l)
            => truth[l].until <= revokedAt[l] + Patience + TruthTTL

(* The steps of a validation that has its image and comes to a verdict. *)
Judging(r) == Kind[r] = "validate" /\ step[r] \in {"dropLocal", "dropShared", "judge"}

JudgedFresh ==
    \A r \in Request :
        Judging(r) /\ Overtaken(r)
            => since[r] < revokedAt[target[r]] + Patience + TruthTTL

FreshInv == DrawnUpAlive /\ Timely /\ TruthLives /\ CarriedFresh /\ TruthFresh /\ JudgedFresh

LEMMA FreshInit == ServiceInit => FreshInv
BY DEF ServiceInit, Init, FreshInv, DrawnUpAlive, Timely, TruthLives, CarriedFresh,
       TruthFresh, JudgedFresh, Judging, Carrying

LEMMA DrawnUpAliveStep ==
    ASSUME Typed, DrawnUpAlive, [Next]_storeVars
    PROVE  DrawnUpAlive'
<1> USE DEF Typed, TypeOK, DrawnUpAlive
<1>1. ASSUME NEW r \in Request, Create(r) PROVE DrawnUpAlive'
  BY <1>1 DEF Create, CreateBegin, CreateInsert, CreateDuplicate, CreateReplay, Fresh,
              Start, Goto, Answer, AnswerWrite
<1>2. ASSUME NEW r \in Request, Renew(r) PROVE DrawnUpAlive'
  <2>1. CASE RenewRead(r)
    <3>1. PICK ttl \in TTL : seen' = [seen EXCEPT ![r] = Renewal(row[target[r]], ttl)]
      BY <2>1 DEF RenewRead
    <3>2. row[target[r]] \in Row /\ ~row[target[r]].revoked
      BY <2>1 DEF RenewRead, Live
    <3>3. ~Renewal(row[target[r]], ttl).revoked
      BY <3>2 DEF Renewal, Row
    <3> QED
      BY <2>1, <3>1, <3>3 DEF RenewRead, Goto
  <2>2. CASE ~RenewRead(r)
    BY <1>2, <2>2 DEF Renew, RenewRefused, RenewNoPolicy, RenewWrite,
                RenewConflict, RenewClassify, Start, Goto, Answer, AnswerWrite
  <2> QED
    BY <2>1, <2>2
<1>3. ASSUME NEW r \in Request, Revoke(r) PROVE DrawnUpAlive'
  BY <1>3 DEF Revoke, RevokeUpdate, RevokeMiss, RevokeConfirm,
              Start, Goto, Answer, AnswerWrite
<1>4. ASSUME NEW r \in Request, Abandon(r) PROVE DrawnUpAlive'
  BY <1>4 DEF Abandon, Answer
<1>5. CASE DeleteExpiredLeasesBatch \/ Tick \/ UNCHANGED storeVars
  BY <1>5 DEF DeleteExpiredLeasesBatch, Tick, storeVars
<1> QED
  BY <1>1, <1>2, <1>3, <1>4, <1>5 DEF Next

(* Nothing but a revoke revokes a row. *)
LEMMA OnlyARevokeRevokes ==
    ASSUME Typed, DrawnUpAlive, [Next]_storeVars, \A r \in Request : ~Revoke(r),
           NEW l \in Lease, RevokedRow(l)'
    PROVE  RevokedRow(l)
<1> USE DEF Typed, TypeOK, RevokedRow, Exists
<1>1. ASSUME NEW r \in Request, Create(r) PROVE RevokedRow(l)
  <2>1. CASE CreateInsert(r)
    BY <2>1 DEF CreateInsert, DrawnUpAlive
  <2> QED
    BY <1>1, <2>1 DEF Create, CreateBegin, CreateDuplicate, CreateReplay
<1>2. ASSUME NEW r \in Request, Renew(r) PROVE RevokedRow(l)
  <2>1. CASE RenewWrite(r)
    <3>1. seen[r] \in Row /\ ~seen[r].revoked
      BY <2>1 DEF RenewWrite, DrawnUpAlive, Carries
    <3>2. ~Overwrite(row[target[r]], seen[r]).revoked
      BY <3>1 DEF Overwrite, Row
    <3> QED
      BY <2>1, <3>2 DEF RenewWrite
  <2> QED
    BY <1>2, <2>1 DEF Renew, RenewRead, RenewRefused, RenewNoPolicy, RenewConflict,
                      RenewClassify
<1>3. CASE DeleteExpiredLeasesBatch
  BY <1>3 DEF DeleteExpiredLeasesBatch
<1>4. ASSUME NEW r \in Request, Abandon(r) PROVE RevokedRow(l)
  BY <1>4 DEF Abandon
<1>5. CASE Tick \/ UNCHANGED storeVars
  BY <1>5 DEF Tick, storeVars
<1> QED
  BY <1>1, <1>2, <1>3, <1>4, <1>5 DEF Next

(* The moment of a revoke is written down, and every request that is under *)
(* way began before it.                                                    *)
LEMMA RevokeKeepsFresh ==
    ASSUME Typed, FreshInv, NEW r \in Request, ServiceRevoke(r), UNCHANGED site,
           Typed'
    PROVE  Timely' /\ TruthLives' /\ CarriedFresh' /\ TruthFresh' /\ JudgedFresh'
<1> USE DEF Typed, TypeOK, FreshInv
<1>1. /\ Revoke(r)
      /\ UNCHANGED <<cacheVars, use, since, now, target>>
      /\ UNCHANGED <<Patience, TruthTTL>>
  BY WriterStep DEF ServiceRevoke, Patience, TruthTTL
<1>2. /\ step[r] = "idle" /\ Kind[r] # "validate"
      /\ \A q \in Request : q # r => step'[q] = step[q]
      /\ step'[r] \in {"idle", "bump", "done"}
  BY <1>1, WriterStep DEF ServiceRevoke, AfterStore, RequestTypes
<1>3. \A l \in Lease : RevokedRow(l)' =>
         \/ RevokedRow(l) /\ revokedAt'[l] = revokedAt[l]
         \/ revokedAt'[l] = now
  <2>1. CASE RevokeUpdate(r)
    <3>1. /\ target[r] \in Lease /\ row[target[r]] \in Row /\ ~row[target[r]].revoked
          /\ row' = [row EXCEPT ![target[r]] = Dead(row[target[r]])]
      BY <2>1 DEF RevokeUpdate, Exists
    <3>2. row' # row
      <4>1. Dead(row[target[r]]).revoked /\ row'[target[r]] = Dead(row[target[r]])
        BY <3>1, DeadFields
      <4> QED
        BY <3>1, <4>1
    <3>3. revokedAt' = [revokedAt EXCEPT ![target[r]] = now]
      BY <3>2 DEF ServiceRevoke
    <3> QED
      BY <3>1, <3>3 DEF RevokedRow, Exists, HistoryTypes
  <2>2. CASE ~RevokeUpdate(r)
    <3>1. UNCHANGED row
      BY <1>1, <2>2 DEF Revoke, RevokeMiss, RevokeConfirm
    <3> QED
      BY <3>1 DEF ServiceRevoke, RevokedRow, Exists
  <2> QED
    BY <2>1, <2>2
<1>4. now \in Nat /\ TruthTTL \in Nat /\ TruthTTL > 0 /\ Patience \in Nat
  BY SiteTypes DEF Time
<1>5. Timely'
  <2> SUFFICES ASSUME NEW q \in Request,
                      step'[q] \notin {"idle", "done"}, Kind[q] \in {"create", "validate"}
               PROVE  since[q] <= now /\ now <= since[q] + Patience
    BY <1>1 DEF Timely
  <2>1. q # r
    BY <1>1 DEF Revoke, RevokeUpdate, RevokeMiss, RevokeConfirm, Start, WhereWriters
  <2> QED
    BY <1>2, <2>1 DEF Timely
<1>6. TruthLives'
  BY <1>1 DEF TruthLives, cacheVars
<1>7. CarriedFresh'
  <2> SUFFICES ASSUME NEW q \in Request, step'[q] \in Carrying, Overtaken(q)'
               PROVE  since[q] <= revokedAt'[target[q]]
    BY <1>1 DEF CarriedFresh
  <2>1. q # r /\ step[q] \in Carrying
    BY <1>2 DEF Carrying
  <2>2. Kind[q] \in {"create", "validate"} /\ since[q] <= now
    BY <2>1 DEF WhereSteps, Carrying, Timely
  <2>3. use[q] # NoRow /\ ~use[q].revoked
    BY <1>1 DEF Overtaken
  <2>4. CASE RevokedRow(target[q]) /\ revokedAt'[target[q]] = revokedAt[target[q]]
    BY <2>1, <2>3, <2>4 DEF CarriedFresh, Overtaken
  <2> QED
    BY <1>1, <1>3, <2>2, <2>4 DEF Overtaken
<1>8. TruthFresh'
  <2> SUFFICES ASSUME NEW l \in Lease, truth[l] # NoEntry, ~truth[l].fingerprint[2],
                      RevokedRow(l)'
               PROVE  truth[l].until <= revokedAt'[l] + Patience + TruthTTL
    BY <1>1 DEF TruthFresh, cacheVars
  <2>1. truth[l].until \in Nat /\ truth[l].until <= now + TruthTTL
    BY DEF TruthLives, CacheTypes
  <2>2. CASE RevokedRow(l) /\ revokedAt'[l] = revokedAt[l]
    BY <2>2 DEF TruthFresh
  <2>3. CASE revokedAt'[l] = now
    BY <1>4, <2>1, <2>3
  <2> QED
    BY <1>3, <2>2, <2>3
<1>9. JudgedFresh'
  <2> SUFFICES ASSUME NEW q \in Request, Judging(q)', Overtaken(q)'
               PROVE  since[q] < revokedAt'[target[q]] + Patience + TruthTTL
    BY <1>1 DEF JudgedFresh
  <2>1. q # r /\ Judging(q)
    BY <1>2 DEF Judging
  <2>2. since[q] \in Nat /\ since[q] <= now
    BY <2>1 DEF Timely, Judging, RequestTypes, Time
  <2>3. use[q] # NoRow /\ ~use[q].revoked
    BY <1>1 DEF Overtaken
  <2>4. CASE RevokedRow(target[q]) /\ revokedAt'[target[q]] = revokedAt[target[q]]
    BY <2>1, <2>3, <2>4 DEF JudgedFresh, Overtaken
  <2>5. CASE revokedAt'[target[q]] = now
    BY <1>4, <2>2, <2>5
  <2> QED
    BY <1>1, <1>3, <2>4, <2>5 DEF Overtaken
<1> QED
  BY <1>5, <1>6, <1>7, <1>8, <1>9

(* The clock: entries run out and requests are not overtaken. *)
LEMMA TickKeepsFresh ==
    ASSUME Typed, FreshInv, ServiceTick, UNCHANGED site
    PROVE  Timely' /\ TruthLives' /\ CarriedFresh' /\ TruthFresh' /\ JudgedFresh'
<1> USE DEF Typed, TypeOK, FreshInv
<1>1. /\ now' = now + 1 /\ now \in Nat
      /\ UNCHANGED <<row, target, step, use, since, revokedAt>>
      /\ UNCHANGED <<Patience, TruthTTL>>
      /\ truth' = [l \in Lease |-> Keep(truth[l])]
      /\ \A r \in Request :
            step[r] \notin {"idle", "done"} /\ Kind[r] \in {"create", "validate"}
               => now < since[r] + Patience
  BY DEF ServiceTick, Tick, reqVars, history, Patience, TruthTTL, Time
<1>2. TruthTTL \in Nat /\ Patience \in Nat /\ \A r \in Request : since[r] \in Nat
  BY SiteTypes DEF RequestTypes, Time
<1>3. \A l \in Lease : truth'[l] # NoEntry =>
         truth'[l] = truth[l] /\ truth[l] # NoEntry /\ truth[l].until > now'
  BY <1>1 DEF Keep
<1>4. Timely'
  BY <1>1, <1>2 DEF Timely
<1>5. TruthLives'
  <2> SUFFICES ASSUME NEW l \in Lease, truth'[l] # NoEntry
               PROVE  now' < truth'[l].until /\ truth'[l].until <= now' + TruthTTL
    BY <1>1 DEF TruthLives
  <2>1. truth[l].until \in Nat /\ truth[l].until <= now + TruthTTL
    BY <1>3 DEF TruthLives, CacheTypes
  <2> QED
    BY <1>1, <1>2, <1>3, <2>1
<1>6. CarriedFresh' /\ JudgedFresh'
  BY <1>1 DEF CarriedFresh, JudgedFresh, Judging, Overtaken, RevokedRow, Exists
<1>7. TruthFresh'
  BY <1>1, <1>3 DEF TruthFresh, RevokedRow, Exists
<1> QED
  BY <1>4, <1>5, <1>6, <1>7

(* A request by itself: what Timely, CarriedFresh and JudgedFresh say of it. *)
FreshHere(r) ==
    /\ step[r] \notin {"idle", "done"} /\ Kind[r] \in {"create", "validate"}
          => since[r] <= now /\ now <= since[r] + Patience
    /\ step[r] \in Carrying /\ Overtaken(r) => since[r] <= revokedAt[target[r]]
    /\ Judging(r) /\ Overtaken(r)
          => since[r] < revokedAt[target[r]] + Patience + TruthTTL

(* A step without a tick and without a revoke. *)
SameMoment ==
    /\ UNCHANGED <<now, target, revokedAt, site>>
    /\ \A l \in Lease : RevokedRow(l)' => RevokedRow(l)

(* A shared truth goes, or is written anew by a request that is in time. *)
TruthKept ==
    \A l \in Lease :
        \/ truth'[l] = truth[l] \/ truth'[l] = NoEntry
        \/ /\ truth'[l].until = now + TruthTTL
           /\ ~truth'[l].fingerprint[2] /\ RevokedRow(l)
                 => now <= revokedAt[l] + Patience

Same(q) == step'[q] = step[q] /\ use'[q] = use[q] /\ since'[q] = since[q]

(* The steps that are no tick and no revoke keep the bounds if those of    *)
(* one request and those of the shared truth are kept.                     *)
LEMMA QuietKeepsFresh ==
    ASSUME Typed, FreshInv, SameMoment, TruthKept, Typed',
           \A q \in Request : Same(q) \/ FreshHere(q)'
    PROVE  Timely' /\ TruthLives' /\ CarriedFresh' /\ TruthFresh' /\ JudgedFresh'
<1> USE DEF Typed, TypeOK, FreshInv, SameMoment
<1>1. UNCHANGED <<Patience, TruthTTL>>
  BY DEF Patience, TruthTTL
<1>2. /\ now \in Nat /\ TruthTTL \in Nat /\ TruthTTL > 0 /\ Patience \in Nat
      /\ \A l \in Lease : revokedAt[l] \in Nat
  BY SiteTypes DEF Time, HistoryTypes
<1>3. Timely'
  BY <1>1 DEF Timely, FreshHere, Same
<1>4. CarriedFresh'
  BY DEF CarriedFresh, Overtaken, FreshHere, Same
<1>5. JudgedFresh'
  BY <1>1 DEF JudgedFresh, Judging, Overtaken, FreshHere, Same
<1>6. TruthLives'
  <2> SUFFICES ASSUME NEW l \in Lease, truth'[l] # NoEntry
               PROVE  now < truth'[l].until /\ truth'[l].until <= now + TruthTTL
    BY <1>1 DEF TruthLives
  <2>1. CASE truth'[l] = truth[l]
    BY <2>1 DEF TruthLives
  <2>2. CASE truth'[l].until = now + TruthTTL
    BY <1>2, <2>2
  <2> QED
    BY <2>1, <2>2 DEF TruthKept
<1>7. TruthFresh'
  <2> SUFFICES ASSUME NEW l \in Lease, truth'[l] # NoEntry, ~truth'[l].fingerprint[2],
                      RevokedRow(l)
               PROVE  truth'[l].until <= revokedAt[l] + Patience + TruthTTL
    BY <1>1 DEF TruthFresh
  <2>1. CASE truth'[l] = truth[l]
    BY <2>1 DEF TruthFresh
  <2>2. CASE truth'[l].until = now + TruthTTL /\ now <= revokedAt[l] + Patience
    <3>1. revokedAt[l] \in Nat
      BY <1>2
    <3> QED
      BY <1>2, <2>2, <3>1
  <2> QED
    BY <2>1, <2>2 DEF TruthKept
<1> QED
  BY <1>3, <1>4, <1>5, <1>6, <1>7

(* The shared truth confirms an image: what it knows of the age of the     *)
(* image holds of the validation that trusts it.                           *)
LEMMA ConfirmedIsFresh ==
    ASSUME Typed, FreshInv, NEW r \in Request, Kind[r] = "validate",
           step[r] \notin {"idle", "done"}, use[r] \in Row,
           SharedTruthConfirms(target[r], use[r]), Overtaken(r)
    PROVE  since[r] < revokedAt[target[r]] + Patience + TruthTTL
<1> DEFINE l == target[r]
<1> USE DEF Typed, TypeOK, FreshInv
<1>1. l \in Lease /\ truth[l] # NoEntry /\ truth[l].fingerprint[2] = use[r].revoked
  BY DEF SharedTruthConfirms, Fingerprint
<1>2. now < truth[l].until /\ truth[l].until <= revokedAt[l] + Patience + TruthTTL
  BY <1>1 DEF TruthLives, TruthFresh, Overtaken
<1>3. since[r] <= now
  BY DEF Timely
<1>4. /\ now \in Nat /\ since[r] \in Nat /\ truth[l].until \in Nat
      /\ revokedAt[l] + Patience + TruthTTL \in Nat
  BY <1>1, SiteTypes DEF Time, RequestTypes, CacheTypes, HistoryTypes
<1> HIDE DEF l
<1>5. since[r] < revokedAt[l] + Patience + TruthTTL
  BY <1>2, <1>3, <1>4
<1> QED
  BY <1>5 DEF l

(* A create that comes back from the store holds the row that is there. *)
LEMMA CreateKeepsFresh ==
    ASSUME Typed, FreshInv, UNCHANGED site, NEW r \in Request, ServiceCreate(r)
    PROVE  SameMoment /\ TruthKept /\ \A q \in Request : Same(q) \/ FreshHere(q)'
<1> USE DEF Typed, TypeOK, FreshInv
<1>1. /\ Create(r) /\ Kind[r] = "create" /\ step[r] = "idle"
      /\ UNCHANGED <<now, target, revokedAt, truth, site>>
      /\ [Next]_storeVars
  BY WriterStep DEF ServiceCreate, history, cacheVars, Next
<1>2. \A l \in Lease : RevokedRow(l)' => RevokedRow(l)
  <2>1. \A q \in Request : ~Revoke(q)
    BY <1>1 DEF Create, CreateBegin, CreateInsert, CreateDuplicate, CreateReplay, Start,
                Revoke, RevokeUpdate, RevokeMiss, RevokeConfirm, Goto, Answer, AnswerWrite,
                WhereWriters
  <2> QED
    BY <1>1, <2>1, OnlyARevokeRevokes
<1>3. SameMoment /\ TruthKept
  BY <1>1, <1>2 DEF SameMoment, TruthKept
<1>4. now \in Nat /\ Patience \in Nat /\ Patience' = Patience
  BY SiteTypes DEF Time, Patience
<1>5. CASE step'[r] = "fill"
  <2>1. /\ step' = [step EXCEPT ![r] = "fill"] /\ pc'[r] = "done" /\ result'[r] = "ok"
        /\ use' = [use EXCEPT ![r] = seen'[r]] /\ since' = [since EXCEPT ![r] = now]
    BY <1>1, <1>5 DEF ServiceCreate, AfterStore, RequestTypes
  <2>2. seen'[r] = row'[target[r]]
    <3>1. CASE CreateInsert(r)
      BY <3>1 DEF CreateInsert
    <3>2. CASE CreateReplay(r)
      BY <3>2 DEF CreateReplay
    <3> QED
      BY <1>1, <2>1, <3>1, <3>2 DEF Create, CreateBegin, CreateDuplicate, Goto
  <2>3. ~Overtaken(r)'
    BY <1>1, <2>1, <2>2 DEF Overtaken, RevokedRow, Exists, RequestTypes
  <2>4. since'[r] = now /\ now <= now /\ now <= now + Patience
    BY <1>4, <2>1 DEF RequestTypes
  <2>5. FreshHere(r)'
    BY <1>1, <1>4, <2>3, <2>4 DEF FreshHere
  <2> QED
    BY <1>3, <2>1, <2>5 DEF Same, RequestTypes
<1>6. CASE step'[r] # "fill"
  <2>1. /\ step'[r] \in {"idle", "done"} /\ UNCHANGED <<use, since>>
        /\ \A q \in Request \ {r} : step'[q] = step[q]
    BY <1>1, <1>6 DEF ServiceCreate, AfterStore, RequestTypes
  <2>2. FreshHere(r)'
    BY <2>1 DEF FreshHere, Carrying, Judging
  <2> QED
    BY <1>3, <2>1, <2>2 DEF Same
<1> QED
  BY <1>5, <1>6

(* A renewal keeps no image for the caches. *)
LEMMA RenewKeepsFresh ==
    ASSUME Typed, FreshInv, UNCHANGED site, NEW r \in Request, ServiceRenew(r)
    PROVE  SameMoment /\ TruthKept /\ \A q \in Request : Same(q) \/ FreshHere(q)'
<1> USE DEF Typed, TypeOK, FreshInv
<1>1. /\ Renew(r) /\ step[r] = "idle"
      /\ UNCHANGED <<now, target, revokedAt, truth, use, since, site>>
      /\ [Next]_storeVars
  BY WriterStep DEF ServiceRenew, history, cacheVars, Next
<1>2. Kind[r] = "renew"
  BY <1>1 DEF Renew, RenewRead, RenewRefused, RenewNoPolicy, RenewWrite, RenewConflict,
              RenewClassify, Start, WhereWriters
<1>3. \A l \in Lease : RevokedRow(l)' => RevokedRow(l)
  <2>1. \A q \in Request : ~Revoke(q)
    BY <1>1 DEF Renew, RenewRead, RenewRefused, RenewNoPolicy, RenewWrite, RenewConflict,
                RenewClassify, Start, WhereWriters,
                Revoke, RevokeUpdate, RevokeMiss, RevokeConfirm, Goto, Answer, AnswerWrite
  <2> QED
    BY <1>1, <2>1, OnlyARevokeRevokes
<1>4. /\ step'[r] \in {"idle", "bump", "done"}
      /\ \A q \in Request \ {r} : step'[q] = step[q]
  BY <1>1 DEF ServiceRenew, AfterStore, RequestTypes
<1>5. FreshHere(r)'
  BY <1>2, <1>4 DEF FreshHere, Carrying, Judging
<1> QED
  BY <1>1, <1>3, <1>4, <1>5 DEF SameMoment, TruthKept, Same

(* A validation reads the row, or trusts the shared truth. *)
LEMMA ValidateKeepsFresh ==
    ASSUME Typed, FreshInv, UNCHANGED site, NEW r \in Request, Validate(r)
    PROVE  SameMoment /\ TruthKept /\ \A q \in Request : Same(q) \/ FreshHere(q)'
<1> USE DEF Typed, TypeOK, FreshInv
<1>1. UNCHANGED <<storeVars, truth, revokedAt>>
  BY DEF Validate, Begin, Lookup, ConfirmLocal, ReadCache, ConfirmCached, ReadStore,
         CheckVersion, Judge, Quiet, cacheVars
<1>2. /\ UNCHANGED <<now, target, row, pc, seen, Patience, TruthTTL>>
      /\ \A l \in Lease : RevokedRow(l)' <=> RevokedRow(l)
  BY <1>1 DEF storeVars, RevokedRow, Exists, Patience, TruthTTL
<1>3. SameMoment /\ TruthKept
  BY <1>1, <1>2 DEF SameMoment, TruthKept
<1>4. now \in Nat /\ Patience \in Nat /\ since[r] \in Nat /\ TruthTTL \in Nat /\ TruthTTL > 0
      /\ revokedAt[target[r]] \in Nat
  BY SiteTypes DEF Time, RequestTypes, HistoryTypes
<1>5. /\ Kind[r] = "validate"
      /\ step[r] # "idle" => since[r] <= now /\ now <= since[r] + Patience
  BY DEF Validate, Begin, Lookup, ConfirmLocal, ReadCache, ConfirmCached, ReadStore,
         CheckVersion, Judge, At, Start, Timely, WhereSteps
<1>6. CASE Begin(r)
  <2>1. /\ step'[r] = "lookup" /\ since'[r] = now /\ UNCHANGED use
        /\ \A q \in Request \ {r} : step'[q] = step[q] /\ since'[q] = since[q]
    BY <1>6 DEF Begin, Advance, RequestTypes
  <2>2. FreshHere(r)'
    BY <1>2, <1>4, <2>1 DEF FreshHere, Carrying, Judging
  <2> QED
    BY <1>3, <2>1, <2>2 DEF Same
<1>7. CASE Lookup(r) \/ ReadCache(r)
  <2>1. /\ step[r] # "idle" /\ UNCHANGED since
        /\ step'[r] \in {"confirmLocal", "readCache", "confirmCached", "readStore"}
        /\ \A q \in Request \ {r} : step'[q] = step[q] /\ use'[q] = use[q]
    BY <1>7 DEF Lookup, ReadCache, At, Advance, RequestTypes
  <2>2. FreshHere(r)'
    BY <1>2, <1>5, <2>1 DEF FreshHere, Carrying, Judging
  <2> QED
    BY <1>3, <2>1, <2>2 DEF Same
<1>8. CASE ConfirmLocal(r) \/ ConfirmCached(r)
  <2>1. /\ step[r] \in {"confirmLocal", "confirmCached"} /\ UNCHANGED <<since, use>>
        /\ \/ step'[r] = "judge" /\ SharedTruthConfirms(target[r], use[r])
           \/ step'[r] \in {"readCache", "readStore"}
        /\ \A q \in Request \ {r} : step'[q] = step[q]
    BY <1>8 DEF ConfirmLocal, ConfirmCached, At, Advance, RequestTypes
  <2>2. Overtaken(r)' => Overtaken(r)
    BY <1>2, <2>1 DEF Overtaken
  <2>3. use[r] \in Row
    BY <2>1 DEF Holding, RequestTypes, Image
  <2>4. step'[r] = "judge" /\ Overtaken(r)'
           => since[r] < revokedAt[target[r]] + Patience + TruthTTL
    BY <1>5, <2>1, <2>2, <2>3, ConfirmedIsFresh
  <2>5. FreshHere(r)'
    BY <1>1, <1>2, <1>5, <2>1, <2>4 DEF FreshHere, Carrying, Judging
  <2> QED
    BY <1>3, <2>1, <2>5 DEF Same
<1>9. CASE ReadStore(r)
  <2>1. /\ step[r] = "readStore" /\ UNCHANGED since /\ use'[r] = row[target[r]]
        /\ step'[r] \in {"fill", "dropLocal"}
        /\ \A q \in Request \ {r} : step'[q] = step[q] /\ use'[q] = use[q]
    BY <1>9 DEF ReadStore, At, Advance, RequestTypes
  <2>2. ~Overtaken(r)'
    BY <1>2, <2>1 DEF Overtaken, RevokedRow
  <2>3. FreshHere(r)'
    BY <1>2, <1>5, <2>1, <2>2 DEF FreshHere
  <2> QED
    BY <1>3, <2>1, <2>3 DEF Same
<1>10. CASE CheckVersion(r)
  <2>1. /\ step[r] = "checkVersion" /\ UNCHANGED <<since, use>>
        /\ step'[r] \in {"stamp", "dropLocal"}
        /\ \A q \in Request \ {r} : step'[q] = step[q]
    BY <1>10 DEF CheckVersion, At, Advance, RequestTypes
  <2>2. Overtaken(r)' => since[r] <= revokedAt[target[r]]
    BY <1>2, <2>1 DEF CarriedFresh, Overtaken, Carrying
  <2>3. Overtaken(r)' => since[r] < revokedAt[target[r]] + Patience + TruthTTL
    BY <1>4, <2>2
  <2>4. FreshHere(r)'
    BY <1>1, <1>2, <1>5, <2>1, <2>2, <2>3 DEF FreshHere
  <2> QED
    BY <1>3, <2>1, <2>4 DEF Same
<1>11. CASE Judge(r)
  <2>1. /\ step'[r] = "done"
        /\ \A q \in Request \ {r} :
              step'[q] = step[q] /\ use'[q] = use[q] /\ since'[q] = since[q]
    BY <1>11, Return DEF Judge
  <2>2. FreshHere(r)'
    BY <2>1 DEF FreshHere, Carrying, Judging
  <2> QED
    BY <1>3, <2>1, <2>2 DEF Same
<1> QED
  BY <1>6, <1>7, <1>8, <1>9, <1>10, <1>11 DEF Validate

(* What a request writes into the caches it read while it was in time. *)
LEMMA RememberKeepsFresh ==
    ASSUME Typed, FreshInv, UNCHANGED site, NEW r \in Request, Remember(r)
    PROVE  SameMoment /\ TruthKept /\ \A q \in Request : Same(q) \/ FreshHere(q)'
<1> USE DEF Typed, TypeOK, FreshInv
<1>1. UNCHANGED <<storeVars, revokedAt>>
  BY DEF Remember, Fill, StampTruth, ShareTruth, Quiet
<1>2. /\ UNCHANGED <<now, target, row, pc, seen, Patience, TruthTTL>>
      /\ \A l \in Lease : RevokedRow(l)' <=> RevokedRow(l)
  BY <1>1 DEF storeVars, RevokedRow, Exists, Patience, TruthTTL
<1>3. SameMoment
  BY <1>1, <1>2 DEF SameMoment
<1>4. /\ now \in Nat /\ Patience \in Nat /\ since[r] \in Nat
      /\ TruthTTL \in Nat /\ TruthTTL > 0 /\ target[r] \in Lease
      /\ revokedAt[target[r]] \in Nat
  BY SiteTypes DEF Time, RequestTypes, HistoryTypes
<1>5. /\ step[r] \in {"fill", "stamp", "share"}
      /\ use[r] \in Row /\ since[r] <= now /\ now <= since[r] + Patience
  BY DEF Remember, Fill, StampTruth, ShareTruth, At, Timely, WhereSteps, Holding,
         Carrying, RequestTypes, Image
<1>6. Overtaken(r) => since[r] <= revokedAt[target[r]]
  BY <1>5 DEF CarriedFresh, Carrying
<1>7. CASE Fill(r) \/ StampTruth(r)
  <2>1. /\ UNCHANGED <<use, since, truth>>
        /\ step'[r] \in {"checkVersion", "stamp", "share"}
        /\ \A q \in Request \ {r} : step'[q] = step[q]
    BY <1>7 DEF Fill, StampTruth, Advance, RequestTypes
  <2>2. Overtaken(r)' => Overtaken(r)
    BY <1>2, <2>1 DEF Overtaken
  <2>3. FreshHere(r)'
    BY <1>1, <1>2, <1>5, <1>6, <2>1, <2>2 DEF FreshHere, Judging
  <2> QED
    BY <1>3, <2>1, <2>3 DEF Same, TruthKept
<1>8. CASE ShareTruth(r)
  <2>1. ~use[r].revoked /\ RevokedRow(target[r]) => now <= revokedAt[target[r]] + Patience
    <3> SUFFICES ASSUME Overtaken(r)
                 PROVE  now <= revokedAt[target[r]] + Patience
      BY <1>5, StoreAssumption DEF Overtaken
    <3> QED
      BY <1>4, <1>5, <1>6
  <2>2. TruthKept
    <3>1. CASE truth' = [truth EXCEPT ![target[r]] =
                   [fingerprint |-> Fingerprint(use[r]), until |-> now + TruthTTL]]
      BY <1>4, <2>1, <3>1 DEF TruthKept, CacheTypes, Fingerprint
    <3>2. CASE UNCHANGED truth
      BY <3>2 DEF TruthKept
    <3> QED
      BY <1>8, <3>1, <3>2 DEF ShareTruth, OrFails
  <2>3. CASE Kind[r] = "validate"
    <3>1. /\ UNCHANGED <<use, since>> /\ step'[r] = "judge"
          /\ \A q \in Request \ {r} : step'[q] = step[q]
      BY <1>8, <2>3 DEF ShareTruth, Advance, RequestTypes
    <3>2. Overtaken(r)' => Overtaken(r)
      BY <1>2, <3>1 DEF Overtaken
    <3>3. Overtaken(r) => since[r] < revokedAt[target[r]] + Patience + TruthTTL
      BY <1>4, <1>6
    <3>4. FreshHere(r)'
      BY <1>1, <1>2, <1>5, <3>1, <3>2, <3>3 DEF FreshHere, Carrying
    <3> QED
      BY <1>3, <2>2, <3>1, <3>4 DEF Same
  <2>4. CASE Kind[r] # "validate"
    <3>1. /\ step'[r] = "done"
          /\ \A q \in Request \ {r} :
                step'[q] = step[q] /\ use'[q] = use[q] /\ since'[q] = since[q]
      BY <1>8, <2>4, Return DEF ShareTruth
    <3>2. FreshHere(r)'
      BY <3>1 DEF FreshHere, Carrying, Judging
    <3> QED
      BY <1>3, <2>2, <3>1, <3>2 DEF Same
  <2> QED
    BY <2>3, <2>4
<1> QED
  BY <1>7, <1>8 DEF Remember

(* An invalidation only takes away. *)
LEMMA InvalidateKeepsFresh ==
    ASSUME Typed, FreshInv, UNCHANGED site, NEW r \in Request, Invalidate(r)
    PROVE  SameMoment /\ TruthKept /\ \A q \in Request : Same(q) \/ FreshHere(q)'
<1> USE DEF Typed, TypeOK, FreshInv
<1>1. UNCHANGED <<storeVars, revokedAt>>
  BY DEF Invalidate, BumpVersion, Forget, Announce, DropLocal, DropShared, Quiet, history
<1>2. /\ UNCHANGED <<now, target, row, pc, seen, Patience, TruthTTL>>
      /\ \A l \in Lease : RevokedRow(l)' <=> RevokedRow(l)
  BY <1>1 DEF storeVars, RevokedRow, Exists, Patience, TruthTTL
<1>3. SameMoment
  BY <1>1, <1>2 DEF SameMoment
<1>4. TruthKept
  BY DEF Invalidate, BumpVersion, Forget, Announce, DropLocal, DropShared, OrFails,
         Quiet, cacheVars, CacheTypes, TruthKept
<1>5. CASE BumpVersion(r) \/ Forget(r) \/ Announce(r) \/ DropLocal(r)
           \/ (DropShared(r) /\ Kind[r] = "validate")
  <2>1. /\ UNCHANGED <<use, since>>
        /\ \/ /\ step[r] \in {"bump", "forget"}
              /\ step'[r] \in {"forget", "announce"}
           \/ step[r] = "announce" /\ step'[r] = "dropLocal"
           \/ step[r] \in {"dropLocal", "dropShared"} /\ step'[r] \in {"dropShared", "judge"}
        /\ \A q \in Request \ {r} : step'[q] = step[q]
    BY <1>5 DEF BumpVersion, Forget, Announce, DropLocal, DropShared, At, Advance,
                RequestTypes
  <2>2. Overtaken(r)' => Overtaken(r)
    BY <1>2, <2>1 DEF Overtaken
  <2>3. Judging(r)' => Judging(r)
    BY <2>1 DEF Judging, WhereSteps
  <2>4. Timely'
    BY <1>2, <2>1 DEF Timely
  <2>5. FreshHere(r)'
    BY <1>1, <1>2, <2>1, <2>2, <2>3, <2>4 DEF FreshHere, JudgedFresh, Carrying, Timely
  <2> QED
    BY <1>3, <1>4, <2>1, <2>5 DEF Same
<1>6. CASE DropShared(r) /\ Kind[r] # "validate"
  <2>1. /\ step'[r] = "done"
        /\ \A q \in Request \ {r} :
              step'[q] = step[q] /\ use'[q] = use[q] /\ since'[q] = since[q]
    BY <1>6, Return DEF DropShared
  <2>2. FreshHere(r)'
    BY <2>1 DEF FreshHere, Carrying, Judging
  <2> QED
    BY <1>3, <1>4, <2>1, <2>2 DEF Same
<1> QED
  BY <1>5, <1>6 DEF Invalidate

LEMMA OthersKeepFresh ==
    ASSUME Typed, FreshInv, UNCHANGED site,
           \/ \E r \in Request : GiveUp(r)
           \/ \E i \in Instance : \/ Consume(i) \/ DropAllLeases(i) \/ DropAllTruths(i)
                                  \/ DropFails(i) \/ Restart(i)
           \/ Maintenance
           \/ UNCHANGED vars
    PROVE  SameMoment /\ TruthKept /\ \A q \in Request : Same(q) \/ FreshHere(q)'
<1> USE DEF Typed, TypeOK, FreshInv
<1>1. ASSUME NEW r \in Request, GiveUp(r)
      PROVE  SameMoment /\ TruthKept /\ \A q \in Request : Same(q) \/ FreshHere(q)'
  <2>1. UNCHANGED <<now, target, row, revokedAt, truth>>
    BY <1>1 DEF GiveUp, Abandon, storeVars, history, cacheVars
  <2>2. /\ step'[r] = "done"
        /\ \A q \in Request \ {r} :
              step'[q] = step[q] /\ use'[q] = use[q] /\ since'[q] = since[q]
    BY <1>1, Return DEF GiveUp
  <2>3. FreshHere(r)'
    BY <2>2 DEF FreshHere, Carrying, Judging
  <2> QED
    BY <2>1, <2>2, <2>3 DEF SameMoment, TruthKept, Same, RevokedRow, Exists
<1>2. ASSUME NEW i \in Instance,
             Consume(i) \/ DropAllLeases(i) \/ DropAllTruths(i) \/ DropFails(i) \/ Restart(i)
      PROVE  SameMoment /\ TruthKept /\ \A q \in Request : Same(q) \/ FreshHere(q)'
  <2>1. UNCHANGED <<storeVars, reqVars, history>>
    BY <1>2 DEF Consume, DropAllLeases, DropAllTruths, DropFails, Restart
  <2>2. TruthKept
    BY <1>2 DEF Consume, DropAllLeases, DropAllTruths, DropFails, Restart, cacheVars,
                TruthKept
  <2> QED
    BY <2>1, <2>2 DEF SameMoment, Same, RevokedRow, Exists, storeVars, reqVars, history
<1>3. CASE Maintenance
  BY <1>3 DEF Maintenance, DeleteExpiredLeasesBatch, SameMoment, TruthKept, Same,
              RevokedRow, Exists, cacheVars, reqVars, history
<1>4. CASE UNCHANGED vars
  BY <1>4 DEF vars, storeVars, cacheVars, reqVars, history, SameMoment, TruthKept, Same,
              RevokedRow, Exists
<1> QED
  BY <1>1, <1>2, <1>3, <1>4

LEMMA FreshStep == Typed /\ FreshInv /\ [ServiceNext]_vars => FreshInv'
<1> SUFFICES ASSUME Typed, FreshInv, [ServiceNext]_vars PROVE FreshInv'
  OBVIOUS
<1>1. site' = site /\ site.requests \subseteq Request /\ Typed' /\ [Next]_storeVars
  BY TypedStep, SiteTypes, ServiceStoreStep DEF ServiceNext, vars, Typed
<1>2. DrawnUpAlive'
  BY <1>1, DrawnUpAliveStep DEF FreshInv
<1>3. CASE ServiceTick
  BY <1>1, <1>2, <1>3, TickKeepsFresh DEF FreshInv
<1>4. ASSUME NEW r \in Request, ServiceRevoke(r) PROVE FreshInv'
  BY <1>1, <1>2, <1>4, RevokeKeepsFresh DEF FreshInv
<1>5. CASE SameMoment /\ TruthKept /\ \A q \in Request : Same(q) \/ FreshHere(q)'
  BY <1>1, <1>2, <1>5, QuietKeepsFresh DEF FreshInv
<1>6. ASSUME NEW r \in Request,
             \/ ServiceCreate(r) \/ ServiceRenew(r) \/ Validate(r) \/ Remember(r)
             \/ Invalidate(r)
      PROVE  FreshInv'
  BY <1>1, <1>5, <1>6, CreateKeepsFresh, RenewKeepsFresh, ValidateKeepsFresh,
     RememberKeepsFresh, InvalidateKeepsFresh
<1>7. CASE \/ \E r \in Request : GiveUp(r)
           \/ \E i \in Instance : \/ Consume(i) \/ DropAllLeases(i) \/ DropAllTruths(i)
                                  \/ DropFails(i) \/ Restart(i)
           \/ Maintenance
           \/ UNCHANGED vars
  BY <1>1, <1>5, <1>7, OthersKeepFresh
<1> QED
  BY <1>1, <1>3, <1>4, <1>6, <1>7 DEF ServiceNext, ServiceStep

(* Whatever fails, is lost or restarts, in every deployment: a revoked     *)
(* lease is accepted for less than one truth TTL and the duration of two   *)
(* requests after RevokeLease has written.                                 *)
THEOREM BoundedStalenessHolds == ServiceSpec => BoundedStaleness
<1> DEFINE Bounded ==
        \A r \in Request :
            Accepts(r) /\ row[target[r]] # NoRow /\ row[target[r]].revoked
                => now < revokedAt[target[r]] + TruthTTL + 2 * Patience
<1>1. Typed /\ FreshInv => Bounded
  <2> SUFFICES ASSUME Typed, FreshInv, NEW r \in Request, Accepts(r), RevokedRow(target[r])
               PROVE  now < revokedAt[target[r]] + TruthTTL + 2 * Patience
    BY DEF RevokedRow, Exists
  <2>1. step[r] = "judge" /\ use[r] # NoRow /\ ~use[r].revoked
    BY DEF Accepts, At, Verdict
  <2>2. Kind[r] = "validate" /\ now <= since[r] + Patience
    BY <2>1 DEF Typed, FreshInv, WhereSteps, Timely
  <2>3. since[r] < revokedAt[target[r]] + Patience + TruthTTL
    BY <2>1, <2>2 DEF FreshInv, JudgedFresh, Judging, Overtaken
  <2>4. /\ now \in Nat /\ since[r] \in Nat /\ revokedAt[target[r]] \in Nat
        /\ Patience \in Nat /\ TruthTTL \in Nat
    BY SiteTypes DEF Typed, TypeOK, RequestTypes, HistoryTypes, Time
  <2> QED
    BY <2>2, <2>3, <2>4
<1>2. ServiceSpec => [](Typed /\ FreshInv)
  BY TypedInit, TypedStep, FreshInit, FreshStep, PTL DEF ServiceSpec
<1>3. Typed /\ FreshInv /\ [ServiceNext]_vars => [Bounded]_vars
  BY <1>1
<1> QED
  BY <1>2, <1>3, PTL DEF ServiceSpec, BoundedStaleness

-----------------------------------------------------------------------------
(* Where nothing fails, no validation is judged by an image from before a  *)
(* write that was settled when it began.                                   *)
(*                                                                         *)
(* A row, every image on its way into the caches and every fingerprint in  *)
(* the shared truth are at least as far as the settled version: a write    *)
(* settles when no older image is on its way, and the last thing it does   *)
(* is to drop the shared truth.  Local stamps and cached leases may be     *)
(* older, but no validation is judged by one that the shared truth does    *)
(* not confirm.                                                            *)

RowsSettled ==
    \A l \in Lease :
        IF Exists(l) THEN ~Older(row[l], settled[l])
        ELSE l \in retired \/ settled[l] = NoVersion

TruthSettled ==
    \A l \in Lease : truth[l] # NoEntry =>
        /\ settled[l].generation <= truth[l].fingerprint[1]
        /\ settled[l].revoked => truth[l].fingerprint[2]

(* What a request knows, what it carries, and what it is judged by. *)
SettledFor(r) ==
    /\ ~Older(settled[target[r]], floor[r])
    /\ step[r] \in Carrying => ~Older(use[r], settled[target[r]])
    /\ Judging(r) /\ use[r] # NoRow => ~Older(use[r], floor[r])

SettledInv == RowsSettled /\ TruthSettled /\ \A r \in Request : SettledFor(r)

LEMMA OlderIsTransitive ==
    ASSUME NEW x, NEW y, NEW z,
           x.generation \in Nat, y.generation \in Nat, z.generation \in Nat,
           x.revoked \in BOOLEAN, y.revoked \in BOOLEAN, z.revoked \in BOOLEAN,
           ~Older(x, y), ~Older(y, z)
    PROVE  ~Older(x, z)
BY DEF Older

LEMMA VersionFields ==
    ASSUME NEW x \in Version \union Row
    PROVE  x.generation \in Nat /\ x.revoked \in BOOLEAN
BY DEF Version, Row

LEMMA NothingIsOlder ==
    ASSUME NEW x \in Version \union Row
    PROVE  ~Older(x, NoVersion) /\ ~Older(x, x)
BY VersionFields DEF Older, NoVersion

LEMMA SettledInit == ServiceInit => SettledInv
<1> SUFFICES ASSUME ServiceInit PROVE SettledInv
  OBVIOUS
<1>1. NoVersion \in Version
  BY DEF NoVersion, Version
<1> QED
  BY <1>1, NothingIsOlder
     DEF ServiceInit, Init, SettledInv, RowsSettled, TruthSettled, SettledFor, Exists,
         Carrying, Judging

(* Rows come once, go for good, and only get further in between. *)
LEMMA RowsGrow ==
    ASSUME ~KeyReuse, Typed, IInv, [Next]_storeVars, NEW l \in Lease
    PROVE  /\ l \in retired => l \in retired'
           /\ Exists(l) => \/ l \in retired' /\ ~Exists(l)'
                           \/ Exists(l)' /\ ~Older(row'[l], row[l])
           /\ ~Exists(l) /\ Exists(l)' => l \notin retired
<1> USE DEF Typed, TypeOK, Exists
<1>1. Exists(l) => row[l] \in Row /\ ~Older(row[l], row[l])
  BY NothingIsOlder
<1>2. ASSUME NEW r \in Request, CreateInsert(r)
      PROVE  /\ UNCHANGED retired
             /\ Exists(l) => row'[l] = row[l]
             /\ ~Exists(l) /\ Exists(l)' => l \notin retired
  BY <1>2 DEF CreateInsert
<1>3. ASSUME NEW r \in Request, RenewWrite(r)
      PROVE  /\ UNCHANGED retired
             /\ Exists(l)' <=> Exists(l)
             /\ Exists(l) => ~Older(row'[l], row[l])
  <2> DEFINE k == target[r]
  <2>1. /\ k \in Lease /\ row[k] \in Row /\ seen[r] \in Row /\ ~row[k].revoked
        /\ row[k].generation = seen[r].generation - 1
        /\ row' = [row EXCEPT ![k] = Overwrite(row[k], seen[r])]
        /\ UNCHANGED retired
    BY <1>3 DEF RenewWrite, Matches, Live, Carries
  <2>2. /\ Overwrite(row[k], seen[r]).generation = seen[r].generation
        /\ Overwrite(row[k], seen[r]) \in Row
    BY <2>1, OverwriteFields, OverwriteIsRow
  <2>3. seen[r].generation \in Nat /\ row[k].generation \in Nat
    BY <2>1, VersionFields
  <2>4. ~Older(Overwrite(row[k], seen[r]), row[k])
    BY <2>1, <2>2, <2>3 DEF Older
  <2> HIDE DEF k
  <2> QED
    BY <1>1, <2>1, <2>2, <2>4, StoreAssumption
<1>4. ASSUME NEW r \in Request, RevokeUpdate(r)
      PROVE  /\ UNCHANGED retired
             /\ Exists(l)' <=> Exists(l)
             /\ Exists(l) => ~Older(row'[l], row[l])
  <2> DEFINE k == target[r]
  <2>1. /\ k \in Lease /\ row[k] \in Row
        /\ row' = [row EXCEPT ![k] = Dead(row[k])]
        /\ UNCHANGED retired
    BY <1>4 DEF RevokeUpdate
  <2> HIDE DEF k
  <2>2. /\ Dead(row[k]).generation = row[k].generation /\ Dead(row[k]).revoked = TRUE
        /\ row[k].generation \in Nat
    BY <2>1, DeadFields, VersionFields
  <2>3. ~Older(Dead(row[k]), row[k])
    BY <2>2 DEF Older
  <2> QED
    BY <1>1, <2>1, <2>3, DeadIsRow, StoreAssumption
<1>5. CASE DeleteExpiredLeasesBatch
  <2>1. PICK batch \in SUBSET Deletable \ {{}} :
           /\ row' = [k \in Lease |-> IF k \in batch THEN NoRow ELSE row[k]]
           /\ retired' = retired \union batch
    BY <1>5 DEF DeleteExpiredLeasesBatch
  <2> QED
    BY <1>1, <2>1
<1>6. CASE UNCHANGED <<row, retired>>
  BY <1>1, <1>6
<1>7. \/ \E r \in Request : CreateInsert(r) \/ RenewWrite(r) \/ RevokeUpdate(r)
      \/ DeleteExpiredLeasesBatch
      \/ UNCHANGED <<row, retired>>
  BY DEF Next, Create, Renew, Revoke, CreateBegin, CreateDuplicate, CreateReplay,
         RenewRead, RenewRefused, RenewNoPolicy, RenewConflict, RenewClassify,
         RevokeMiss, RevokeConfirm, Abandon, Tick, storeVars
<1> QED
  BY <1>1, <1>2, <1>3, <1>4, <1>5, <1>6, <1>7

LEMMA RowsSettledStep ==
    ASSUME ~KeyReuse, Typed, Typed', IInv, [Next]_storeVars, SettledInv, UNCHANGED settled
    PROVE  RowsSettled'
<1> SUFFICES ASSUME NEW l \in Lease
             PROVE  IF Exists(l)' THEN ~Older(row'[l], settled[l])
                    ELSE l \in retired' \/ settled[l] = NoVersion
  BY DEF RowsSettled, Exists
<1>1. settled[l] \in Version
  BY DEF Typed, HistoryTypes
<1>2. Exists(l)' => row'[l] \in Row
  BY DEF Typed, TypeOK, Exists
<1>3. CASE Exists(l)
  <2>1. row[l] \in Row /\ ~Older(row[l], settled[l])
    BY <1>3 DEF SettledInv, RowsSettled, Typed, TypeOK, Exists
  <2>2. Exists(l)' => ~Older(row'[l], row[l])
    BY <1>3, RowsGrow
  <2>3. Exists(l)' => ~Older(row'[l], settled[l])
    BY <1>1, <1>2, <2>1, <2>2, OlderIsTransitive, VersionFields
  <2> QED
    BY <1>3, <2>3, RowsGrow
<1>4. CASE ~Exists(l)
  <2>1. l \in retired \/ settled[l] = NoVersion
    BY <1>4 DEF SettledInv, RowsSettled
  <2>2. Exists(l)' => ~Older(row'[l], settled[l])
    BY <1>2, <1>4, <2>1, RowsGrow, NothingIsOlder
  <2> QED
    BY <2>1, <2>2, RowsGrow
<1> QED
  BY <1>3, <1>4

(* The image, the step and the knowledge of a request are what they were. *)
SameImage(q) == step'[q] = step[q] /\ use'[q] = use[q] /\ floor'[q] = floor[q]

(* A shared truth goes, or is written from an image that is far enough. *)
TruthFar ==
    \A l \in Lease :
        \/ truth'[l] = truth[l] \/ truth'[l] = NoEntry
        \/ \E x \in Row : /\ truth'[l].fingerprint = Fingerprint(x)
                          /\ ~Older(x, settled[l])

(* The steps by which no write settles. *)
LEMMA QuietKeepsSettled ==
    ASSUME ~KeyReuse, Typed, Typed', IInv, [Next]_storeVars, SettledInv,
           UNCHANGED <<settled, target>>, TruthFar,
           \A q \in Request : SameImage(q) \/ SettledFor(q)'
    PROVE  SettledInv'
<1>1. RowsSettled'
  BY RowsSettledStep
<1>2. TruthSettled'
  <2> SUFFICES ASSUME NEW l \in Lease, truth'[l] # NoEntry
               PROVE  /\ settled[l].generation <= truth'[l].fingerprint[1]
                      /\ settled[l].revoked => truth'[l].fingerprint[2]
    BY DEF TruthSettled
  <2>1. CASE truth'[l] = truth[l]
    BY <2>1 DEF SettledInv, TruthSettled
  <2>2. ASSUME NEW x \in Row, truth'[l].fingerprint = Fingerprint(x), ~Older(x, settled[l])
        PROVE  /\ settled[l].generation <= truth'[l].fingerprint[1]
               /\ settled[l].revoked => truth'[l].fingerprint[2]
    <3>1. truth'[l].fingerprint[1] = x.generation /\ truth'[l].fingerprint[2] = x.revoked
      BY <2>2 DEF Fingerprint
    <3>2. settled[l].generation \in Nat /\ x.generation \in Nat
      BY VersionFields DEF Typed, HistoryTypes
    <3> QED
      BY <2>2, <3>1, <3>2 DEF Older
  <2> QED
    BY <2>1, <2>2 DEF TruthFar
<1>3. ASSUME NEW q \in Request PROVE SettledFor(q)'
  BY DEF SettledInv, SettledFor, SameImage, Judging
<1> QED
  BY <1>1, <1>2, <1>3 DEF SettledInv

(* An image that the shared truth confirms is as far as the settled version. *)
LEMMA ConfirmedIsSettled ==
    ASSUME Typed, SettledInv, NEW r \in Request, use[r] \in Row,
           SharedTruthConfirms(target[r], use[r])
    PROVE  ~Older(use[r], floor[r])
<1> DEFINE l == target[r]
<1>1. l \in Lease /\ settled[l] \in Version /\ floor[r] \in Version
  BY DEF Typed, TypeOK, HistoryTypes, RequestTypes
<1>2. /\ truth[l] # NoEntry /\ truth[l].fingerprint[1] = use[r].generation
      /\ truth[l].fingerprint[2] = use[r].revoked
  BY DEF SharedTruthConfirms, Fingerprint
<1>3. /\ settled[l].generation <= use[r].generation
      /\ settled[l].revoked => use[r].revoked
  BY <1>1, <1>2 DEF SettledInv, TruthSettled
<1>4. settled[l].generation \in Nat /\ use[r].generation \in Nat
  BY <1>1, VersionFields
<1>5. ~Older(use[r], settled[l])
  BY <1>3, <1>4 DEF Older
<1>6. ~Older(settled[l], floor[r])
  BY DEF SettledInv, SettledFor
<1> HIDE DEF l
<1> QED
  BY <1>1, <1>5, <1>6, OlderIsTransitive, VersionFields

(* So is one that is on its way into the caches. *)
LEMMA CarriedIsSettled ==
    ASSUME Typed, SettledInv, NEW r \in Request, step[r] \in Carrying
    PROVE  use[r] \in Row /\ ~Older(use[r], settled[target[r]]) /\ ~Older(use[r], floor[r])
<1>1. settled[target[r]] \in Version /\ floor[r] \in Version /\ use[r] \in Row
  BY DEF Typed, TypeOK, HistoryTypes, RequestTypes, Holding, Image
<1>2. ~Older(use[r], settled[target[r]]) /\ ~Older(settled[target[r]], floor[r])
  BY DEF SettledInv, SettledFor
<1> QED
  BY <1>1, <1>2, OlderIsTransitive, VersionFields

(* And so is a row that is read. *)
LEMMA ReadIsSettled ==
    ASSUME Typed, RowsSettled, NEW r \in Request, Exists(target[r])
    PROVE  ~Older(row[target[r]], settled[target[r]])
BY DEF Typed, TypeOK, RowsSettled

LEMMA WritersKeepSettled ==
    ASSUME ~KeyReuse, Typed, Typed', IInv, SettledInv, NEW r \in Request,
           ServiceCreate(r) \/ ServiceRenew(r) \/ ServiceRevoke(r)
    PROVE  SettledInv'
<1> USE DEF Typed, TypeOK
<1>1. /\ Create(r) \/ Renew(r) \/ Revoke(r)
      /\ UNCHANGED <<settled, truth, floor>>
      /\ [Next]_storeVars
  BY DEF ServiceCreate, ServiceRenew, ServiceRevoke, history, cacheVars, Next
<1>2. /\ step[r] = "idle" /\ UNCHANGED target
      /\ Create(r) => Kind[r] = "create"
  BY <1>1, WriterStep
<1>3. TruthFar
  BY <1>1 DEF TruthFar
<1>4. RowsSettled'
  BY <1>1, RowsSettledStep
<1>5. ~Older(settled[target[r]], floor[r])
  BY DEF SettledInv, SettledFor
<1>6. CASE ServiceCreate(r) /\ step'[r] = "fill"
  <2>1. /\ step' = [step EXCEPT ![r] = "fill"] /\ pc'[r] = "done" /\ result'[r] = "ok"
        /\ use' = [use EXCEPT ![r] = seen'[r]]
    BY <1>2, <1>6 DEF ServiceCreate, AfterStore, RequestTypes
  <2>2. seen'[r] = row'[target[r]] /\ seen'[r] \in Row
    <3>1. CASE CreateInsert(r)
      BY <3>1 DEF CreateInsert, Carries
    <3>2. CASE CreateReplay(r)
      BY <2>1, <3>2 DEF CreateReplay, Answer, Exists
    <3> QED
      BY <1>6, <2>1, <3>1, <3>2 DEF ServiceCreate, Create, CreateBegin, CreateDuplicate, Goto
  <2>3. ~Older(use'[r], settled'[target[r]])
    <3>1. row'[target[r]] # NoRow /\ use'[r] = row'[target[r]]
      BY <2>1, <2>2, StoreAssumption DEF RequestTypes
    <3> QED
      BY <1>4, <3>1 DEF RowsSettled, Exists
  <2>4. SettledFor(r)'
    BY <1>1, <1>2, <1>5, <2>1, <2>3 DEF SettledFor, Judging, RequestTypes
  <2>5. \A q \in Request \ {r} : SameImage(q)
    BY <1>1, <2>1 DEF SameImage, RequestTypes
  <2> QED
    BY <1>1, <1>2, <1>3, <2>4, <2>5, QuietKeepsSettled
<1>7. CASE ~(ServiceCreate(r) /\ step'[r] = "fill")
  <2>1. /\ step'[r] \in {"idle", "bump", "done"} /\ UNCHANGED use
        /\ \A q \in Request \ {r} : step'[q] = step[q]
    BY <1>2, <1>7 DEF ServiceCreate, ServiceRenew, ServiceRevoke, AfterStore, RequestTypes
  <2>2. SettledFor(r)'
    BY <1>1, <1>2, <1>5, <2>1 DEF SettledFor, Carrying, Judging
  <2>3. \A q \in Request \ {r} : SameImage(q)
    BY <1>1, <2>1 DEF SameImage
  <2> QED
    BY <1>1, <1>2, <1>3, <2>2, <2>3, QuietKeepsSettled
<1> QED
  BY <1>6, <1>7

LEMMA ValidateKeepsSettled ==
    ASSUME Typed, SettledInv, NEW r \in Request, Validate(r)
    PROVE  /\ UNCHANGED <<settled, target>> /\ TruthFar
           /\ \A q \in Request : SameImage(q) \/ SettledFor(q)'
<1> USE DEF Typed, TypeOK
<1>1. UNCHANGED <<storeVars, truth, settled>>
  BY DEF Validate, Begin, Lookup, ConfirmLocal, ReadCache, ConfirmCached, ReadStore,
         CheckVersion, Judge, Quiet, cacheVars
<1>2. UNCHANGED <<settled, target, row>> /\ TruthFar
  BY <1>1 DEF storeVars, TruthFar
<1>3. ~Older(settled[target[r]], floor[r])
  BY DEF SettledInv, SettledFor
<1>4. settled[target[r]] \in Version
  BY DEF HistoryTypes
<1>5. CASE Begin(r)
  <2>1. /\ step'[r] = "lookup" /\ UNCHANGED use /\ floor'[r] = settled[target[r]]
        /\ \A q \in Request \ {r} : step'[q] = step[q] /\ floor'[q] = floor[q]
    BY <1>5 DEF Begin, Advance, RequestTypes
  <2>2. SettledFor(r)'
    BY <1>2, <1>4, <2>1, NothingIsOlder DEF SettledFor, Carrying, Judging
  <2> QED
    BY <1>2, <2>1, <2>2 DEF SameImage
<1>6. CASE Lookup(r) \/ ReadCache(r)
  <2>1. /\ UNCHANGED floor
        /\ step'[r] \in {"confirmLocal", "readCache", "confirmCached", "readStore"}
        /\ \A q \in Request \ {r} : step'[q] = step[q] /\ use'[q] = use[q]
    BY <1>6 DEF Lookup, ReadCache, Advance, RequestTypes
  <2>2. SettledFor(r)'
    BY <1>2, <1>3, <2>1 DEF SettledFor, Carrying, Judging
  <2> QED
    BY <1>2, <2>1, <2>2 DEF SameImage
<1>7. CASE ConfirmLocal(r) \/ ConfirmCached(r)
  <2>1. /\ step[r] \in {"confirmLocal", "confirmCached"} /\ UNCHANGED <<use, floor>>
        /\ \/ step'[r] = "judge" /\ SharedTruthConfirms(target[r], use[r])
           \/ step'[r] \in {"readCache", "readStore"}
        /\ \A q \in Request \ {r} : step'[q] = step[q]
    BY <1>7 DEF ConfirmLocal, ConfirmCached, At, Advance, RequestTypes
  <2>2. use[r] \in Row
    BY <2>1 DEF Holding, RequestTypes, Image
  <2>3. step'[r] = "judge" => ~Older(use[r], floor[r])
    BY <2>1, <2>2, ConfirmedIsSettled
  <2>4. SettledFor(r)'
    BY <1>2, <1>3, <2>1, <2>3 DEF SettledFor, Carrying, Judging
  <2> QED
    BY <1>2, <2>1, <2>4 DEF SameImage
<1>8. CASE ReadStore(r)
  <2>1. /\ UNCHANGED floor /\ use'[r] = row[target[r]]
        /\ \/ step'[r] = "fill" /\ Exists(target[r])
           \/ step'[r] = "dropLocal" /\ ~Exists(target[r])
        /\ \A q \in Request \ {r} : step'[q] = step[q] /\ use'[q] = use[q]
    BY <1>8 DEF ReadStore, Advance, RequestTypes
  <2>2. Exists(target[r]) => ~Older(use'[r], settled[target[r]])
    BY <2>1, ReadIsSettled DEF SettledInv
  <2>3. SettledFor(r)'
    BY <1>2, <1>3, <2>1, <2>2 DEF SettledFor, Carrying, Judging, Exists
  <2> QED
    BY <1>2, <2>1, <2>3 DEF SameImage
<1>9. CASE CheckVersion(r)
  <2>1. /\ step[r] = "checkVersion" /\ UNCHANGED <<use, floor>>
        /\ step'[r] \in {"stamp", "dropLocal"}
        /\ \A q \in Request \ {r} : step'[q] = step[q]
    BY <1>9 DEF CheckVersion, At, Advance, RequestTypes
  <2>2. ~Older(use[r], settled[target[r]]) /\ ~Older(use[r], floor[r])
    BY <2>1, CarriedIsSettled DEF Carrying
  <2>3. SettledFor(r)'
    BY <1>2, <1>3, <2>1, <2>2 DEF SettledFor
  <2> QED
    BY <1>2, <2>1, <2>3 DEF SameImage
<1>10. CASE Judge(r)
  <2>1. /\ step'[r] = "done" /\ floor'[r] = NoVersion
        /\ \A q \in Request \ {r} :
              step'[q] = step[q] /\ use'[q] = use[q] /\ floor'[q] = floor[q]
    BY <1>10, Return DEF Judge
  <2>2. SettledFor(r)'
    BY <1>2, <1>4, <2>1, NothingIsOlder DEF SettledFor, Carrying, Judging
  <2> QED
    BY <1>2, <2>1, <2>2 DEF SameImage
<1> QED
  BY <1>5, <1>6, <1>7, <1>8, <1>9, <1>10 DEF Validate

LEMMA RememberKeepsSettled ==
    ASSUME Typed, SettledInv, NEW r \in Request, Remember(r)
    PROVE  /\ UNCHANGED <<settled, target>> /\ TruthFar
           /\ \A q \in Request : SameImage(q) \/ SettledFor(q)'
<1> USE DEF Typed, TypeOK
<1>1. UNCHANGED <<settled, target>>
  BY DEF Remember, Fill, StampTruth, ShareTruth, Quiet, storeVars
<1>2. /\ ~Older(settled[target[r]], floor[r])
      /\ settled[target[r]] \in Version /\ target[r] \in Lease
  BY DEF SettledInv, SettledFor, HistoryTypes
<1>3. step[r] \in {"fill", "stamp", "share"}
  BY DEF Remember, Fill, StampTruth, ShareTruth, At
<1>4. use[r] \in Row /\ ~Older(use[r], settled[target[r]]) /\ ~Older(use[r], floor[r])
  BY <1>3, CarriedIsSettled DEF Carrying
<1>5. CASE Fill(r) \/ StampTruth(r)
  <2>1. /\ UNCHANGED <<use, floor, truth>>
        /\ step'[r] \in {"checkVersion", "stamp", "share"}
        /\ \A q \in Request \ {r} : step'[q] = step[q]
    BY <1>5 DEF Fill, StampTruth, Advance, RequestTypes
  <2>2. SettledFor(r)'
    BY <1>1, <1>2, <1>4, <2>1 DEF SettledFor
  <2> QED
    BY <1>1, <2>1, <2>2 DEF SameImage, TruthFar
<1>6. CASE ShareTruth(r)
  <2>1. TruthFar
    <3>1. CASE truth' = [truth EXCEPT ![target[r]] =
                   [fingerprint |-> Fingerprint(use[r]), until |-> now + TruthTTL]]
      <4>1. truth'[target[r]].fingerprint = Fingerprint(use[r])
        BY <1>2, <3>1 DEF CacheTypes
      <4>2. \A l \in Lease \ {target[r]} : truth'[l] = truth[l]
        BY <3>1 DEF CacheTypes
      <4> QED
        BY <1>4, <4>1, <4>2 DEF TruthFar
    <3>2. CASE UNCHANGED truth
      BY <3>2 DEF TruthFar
    <3> QED
      BY <1>6, <3>1, <3>2 DEF ShareTruth, OrFails
  <2>2. CASE Kind[r] = "validate"
    <3>1. /\ UNCHANGED <<use, floor>> /\ step'[r] = "judge"
          /\ \A q \in Request \ {r} : step'[q] = step[q]
      BY <1>6, <2>2 DEF ShareTruth, Advance, RequestTypes
    <3>2. SettledFor(r)'
      BY <1>1, <1>2, <1>4, <3>1 DEF SettledFor
    <3> QED
      BY <1>1, <2>1, <3>1, <3>2 DEF SameImage
  <2>3. CASE Kind[r] # "validate"
    <3>1. /\ step'[r] = "done" /\ floor'[r] = NoVersion
          /\ \A q \in Request \ {r} :
                step'[q] = step[q] /\ use'[q] = use[q] /\ floor'[q] = floor[q]
      BY <1>6, <2>3, Return DEF ShareTruth
    <3>2. SettledFor(r)'
      BY <1>1, <1>2, <3>1, NothingIsOlder DEF SettledFor, Carrying, Judging
    <3> QED
      BY <1>1, <2>1, <3>1, <3>2 DEF SameImage
  <2> QED
    BY <2>2, <2>3
<1> QED
  BY <1>5, <1>6 DEF Remember

(* The end of a renewal or of a revoke: it settles when no older image is  *)
(* on its way, and has dropped the shared truth.                           *)
LEMMA DropSharedKeepsSettled ==
    ASSUME ~KeyReuse, Typed, Typed', IInv, ~Faulty, SettledInv,
           NEW r \in Request, DropShared(r), Kind[r] # "validate"
    PROVE  SettledInv'
<1> DEFINE l == target[r]
           current == [generation |-> row[l].generation, revoked |-> row[l].revoked]
           undisturbed == \A q \in Request : target[q] = l => ~HoldsOldImage(q)
<1>1. /\ UNCHANGED storeVars /\ truth' = [truth EXCEPT ![l] = NoEntry] /\ l \in Lease
      /\ settled' = IF Exists(l) /\ undisturbed THEN [settled EXCEPT ![l] = current]
                    ELSE settled
  BY DEF DropShared, OrFails, Typed, TypeOK
<1>2. /\ UNCHANGED <<row, retired, target, now>> /\ [Next]_storeVars
  BY <1>1 DEF storeVars
<1>3. TruthFar
  BY <1>1 DEF TruthFar, Typed, CacheTypes
<1>4. /\ step'[r] = "done" /\ floor'[r] = NoVersion
      /\ \A q \in Request \ {r} :
            step'[q] = step[q] /\ use'[q] = use[q] /\ floor'[q] = floor[q]
  BY Return DEF DropShared
<1>5. \A q \in Request \ {r} : SameImage(q)
  BY <1>4 DEF SameImage
<1>6. CASE UNCHANGED settled
  <2>1. settled[l] \in Version
    BY <1>1 DEF Typed, HistoryTypes
  <2>2. SettledFor(r)'
    BY <1>2, <1>4, <1>6, <2>1, NothingIsOlder DEF SettledFor, Carrying, Judging
  <2> QED
    BY <1>2, <1>3, <1>5, <1>6, <2>2, QuietKeepsSettled
<1>7. CASE Exists(l) /\ undisturbed /\ settled' = [settled EXCEPT ![l] = current]
  <2>1. row[l] \in Row /\ current \in Version
    BY <1>1, <1>7 DEF Exists, Typed, TypeOK, Row, Version
  <2>2. /\ settled'[l] = current /\ \A k \in Lease \ {l} : settled'[k] = settled[k]
        /\ settled[l] \in Version
    BY <1>1, <1>7 DEF Typed, HistoryTypes
  <2>3. current.generation = row[l].generation /\ current.revoked = row[l].revoked
    OBVIOUS
  <2>4. ~Older(row[l], current)
    <3>1. ~Older(row[l], row[l])
      BY <2>1, NothingIsOlder
    <3> QED
      BY <2>3, <3>1 DEF Older
  <2>5. ~Older(current, settled[l])
    <3>1. ~Older(row[l], settled[l])
      BY <1>1, <1>7 DEF SettledInv, RowsSettled
    <3> QED
      BY <2>3, <3>1 DEF Older
  <2>6. \A q \in Request : target[q] = l /\ step[q] \in Carrying => ~Older(use[q], current)
    <3> SUFFICES ASSUME NEW q \in Request, target[q] = l, step[q] \in Carrying
                 PROVE  ~Older(use[q], current)
      OBVIOUS
    <3>1. ~Older(use[q], row[l])
      BY <1>7 DEF HoldsOldImage, Carrying
    <3> QED
      BY <2>3, <3>1 DEF Older
  <2> HIDE DEF current, undisturbed, l
  <2>7. RowsSettled'
    BY <1>2, <1>7, <2>2, <2>4 DEF SettledInv, RowsSettled, Exists
  <2>8. TruthSettled'
    <3> SUFFICES ASSUME NEW k \in Lease, truth'[k] # NoEntry
                 PROVE  /\ settled'[k].generation <= truth'[k].fingerprint[1]
                        /\ settled'[k].revoked => truth'[k].fingerprint[2]
      BY DEF TruthSettled
    <3>1. k # l /\ truth'[k] = truth[k]
      BY <1>1 DEF Typed, CacheTypes
    <3> QED
      BY <2>2, <3>1 DEF SettledInv, TruthSettled
  <2>9. ASSUME NEW q \in Request PROVE SettledFor(q)'
    <3>1. CASE q = r
      <4>1. ~Older(settled'[target[r]], NoVersion)
        BY <2>1, <2>2, NothingIsOlder DEF l
      <4> QED
        BY <1>2, <1>4, <3>1, <4>1 DEF SettledFor, Carrying, Judging
    <3>2. CASE q # r
      <4>1. SettledFor(q) /\ step'[q] = step[q] /\ use'[q] = use[q] /\ floor'[q] = floor[q]
        BY <1>4, <3>2 DEF SettledInv
      <4>2. CASE target[q] = l
        <5>1. ~Older(settled[l], floor[q])
          BY <4>1, <4>2 DEF SettledFor
        <5>2. floor[q] \in Version
          BY DEF Typed, RequestTypes
        <5>3. ~Older(current, floor[q])
          BY <2>1, <2>2, <2>5, <5>1, <5>2, OlderIsTransitive, VersionFields
        <5> QED
          BY <1>2, <2>2, <2>6, <4>1, <4>2, <5>3 DEF SettledFor, Judging
      <4>3. CASE target[q] # l
        <5>1. settled'[target[q]] = settled[target[q]]
          BY <2>2, <4>3 DEF Typed, TypeOK
        <5> QED
          BY <1>2, <4>1, <5>1 DEF SettledFor, Judging
      <4> QED
        BY <4>2, <4>3
    <3> QED
      BY <3>1, <3>2
  <2> QED
    BY <2>7, <2>8, <2>9 DEF SettledInv
<1> QED
  BY <1>1, <1>6, <1>7

LEMMA InvalidateKeepsSettled ==
    ASSUME Typed, SettledInv, NEW r \in Request, Invalidate(r),
           ~(DropShared(r) /\ Kind[r] # "validate")
    PROVE  /\ UNCHANGED <<settled, target>> /\ TruthFar
           /\ \A q \in Request : SameImage(q) \/ SettledFor(q)'
<1> USE DEF Typed, TypeOK
<1>1. /\ UNCHANGED <<settled, target, use, floor>>
      /\ \/ step[r] \in {"bump", "forget"} /\ step'[r] \in {"forget", "announce"}
         \/ step[r] = "announce" /\ step'[r] = "dropLocal"
         \/ step[r] \in {"dropLocal", "dropShared"} /\ step'[r] \in {"dropShared", "judge"}
      /\ \A q \in Request \ {r} : step'[q] = step[q]
  BY DEF Invalidate, BumpVersion, Forget, Announce, DropLocal, DropShared, At, Advance,
         RequestTypes, Quiet, storeVars, history
<1>2. TruthFar
  BY DEF Invalidate, BumpVersion, Forget, Announce, DropLocal, DropShared, OrFails,
         Quiet, cacheVars, CacheTypes, TruthFar
<1>3. Judging(r)' => Judging(r)
  BY <1>1 DEF Judging, WhereSteps
<1>4. SettledFor(r)'
  BY <1>1, <1>3 DEF SettledInv, SettledFor, Carrying
<1> QED
  BY <1>1, <1>2, <1>4 DEF SameImage

LEMMA OthersKeepSettled ==
    ASSUME Typed, SettledInv,
           \/ \E r \in Request : GiveUp(r)
           \/ \E i \in Instance : \/ Consume(i) \/ DropAllLeases(i) \/ DropAllTruths(i)
                                  \/ DropFails(i) \/ Restart(i)
           \/ Maintenance
           \/ ServiceTick
           \/ UNCHANGED vars
    PROVE  /\ UNCHANGED <<settled, target>> /\ TruthFar
           /\ \A q \in Request : SameImage(q) \/ SettledFor(q)'
<1> USE DEF Typed, TypeOK
<1>1. ASSUME NEW r \in Request, GiveUp(r)
      PROVE  /\ UNCHANGED <<settled, target>> /\ TruthFar
             /\ \A q \in Request : SameImage(q) \/ SettledFor(q)'
  <2>1. UNCHANGED <<settled, target, truth>>
    BY <1>1 DEF GiveUp, Abandon, storeVars, history, cacheVars
  <2>2. /\ step'[r] = "done" /\ floor'[r] = NoVersion
        /\ \A q \in Request \ {r} :
              step'[q] = step[q] /\ use'[q] = use[q] /\ floor'[q] = floor[q]
    BY <1>1, Return DEF GiveUp
  <2>3. SettledFor(r)'
    BY <2>1, <2>2, NothingIsOlder DEF SettledFor, Carrying, Judging, HistoryTypes
  <2> QED
    BY <2>1, <2>2, <2>3 DEF TruthFar, SameImage
<1>2. ASSUME NEW i \in Instance,
             Consume(i) \/ DropAllLeases(i) \/ DropAllTruths(i) \/ DropFails(i) \/ Restart(i)
      PROVE  /\ UNCHANGED <<settled, target>> /\ TruthFar
             /\ \A q \in Request : SameImage(q) \/ SettledFor(q)'
  <2>1. UNCHANGED <<storeVars, reqVars, history>>
    BY <1>2 DEF Consume, DropAllLeases, DropAllTruths, DropFails, Restart
  <2>2. TruthFar
    BY <1>2 DEF Consume, DropAllLeases, DropAllTruths, DropFails, Restart, cacheVars,
                TruthFar
  <2> QED
    BY <2>1, <2>2 DEF SameImage, storeVars, reqVars, history
<1>3. CASE Maintenance
  BY <1>3 DEF Maintenance, DeleteExpiredLeasesBatch, TruthFar, SameImage,
              cacheVars, reqVars, history
<1>4. CASE ServiceTick
  <2>1. TruthFar
    BY <1>4, KeepIsEntry DEF ServiceTick, TruthFar
  <2> QED
    BY <1>4, <2>1 DEF ServiceTick, Tick, SameImage, reqVars, history
<1>5. CASE UNCHANGED vars
  BY <1>5 DEF vars, storeVars, cacheVars, reqVars, history, TruthFar, SameImage
<1> QED
  BY <1>1, <1>2, <1>3, <1>4, <1>5

LEMMA SettledStep ==
    ASSUME ~KeyReuse
    PROVE  /\ Typed /\ Typed' /\ IInv /\ (~Faulty => SettledInv) /\ [ServiceNext]_vars
           => (~Faulty => SettledInv)'
<1> SUFFICES ASSUME Typed, Typed', IInv, ~Faulty', ~Faulty => SettledInv, [ServiceNext]_vars
             PROVE  SettledInv'
  OBVIOUS
<1>1. site' = site /\ site.requests \subseteq Request /\ [Next]_storeVars
  BY SiteTypes, ServiceStoreStep DEF ServiceNext, vars, Typed
<1>2. ~Faulty /\ SettledInv
  BY <1>1 DEF Faulty
<1>3. ASSUME NEW r \in Request, ServiceCreate(r) \/ ServiceRenew(r) \/ ServiceRevoke(r)
      PROVE  SettledInv'
  BY <1>2, <1>3, WritersKeepSettled
<1>4. CASE /\ UNCHANGED <<settled, target>> /\ TruthFar
           /\ \A q \in Request : SameImage(q) \/ SettledFor(q)'
  BY <1>1, <1>2, <1>4, QuietKeepsSettled
<1>5. ASSUME NEW r \in Request, Validate(r) \/ Remember(r) PROVE SettledInv'
  BY <1>2, <1>4, <1>5, ValidateKeepsSettled, RememberKeepsSettled
<1>6. ASSUME NEW r \in Request, Invalidate(r) PROVE SettledInv'
  BY <1>2, <1>4, <1>6, InvalidateKeepsSettled, DropSharedKeepsSettled
<1>7. CASE \/ \E r \in Request : GiveUp(r)
           \/ \E i \in Instance : \/ Consume(i) \/ DropAllLeases(i) \/ DropAllTruths(i)
                                  \/ DropFails(i) \/ Restart(i)
           \/ Maintenance
           \/ ServiceTick
           \/ UNCHANGED vars
  BY <1>2, <1>4, <1>7, OthersKeepSettled
<1> QED
  BY <1>1, <1>3, <1>5, <1>6, <1>7 DEF ServiceNext, ServiceStep

(* Where nothing fails and keys are not reused, for any instances, any      *)
(* subscriptions and any requests in flight: a validation that begins      *)
(* after a renewal or a revoke has settled is judged by no older row.      *)
THEOREM SettledWriteIsSeenHolds ==
    ASSUME ~KeyReuse PROVE ServiceSpec => []SettledWriteIsSeen
<1>1. ServiceSpec => []IInv
  BY ServiceImplementsStore, Inductive, PTL
<1>2. ServiceInit => (~Faulty => SettledInv)
  BY SettledInit
<1>3. ServiceSpec => [](~Faulty => SettledInv)
  BY <1>1, <1>2, SettledStep, AlwaysTyped, PTL DEF ServiceSpec
<1>4. Typed /\ (~Faulty => SettledInv) => SettledWriteIsSeen
  <2> SUFFICES ASSUME Typed, ~Faulty, SettledInv, NEW r \in Request, At(r, "judge"),
                      use[r] # NoRow
               PROVE  ~Older(use[r], floor[r])
    BY DEF SettledWriteIsSeen
  <2>1. Judging(r)
    BY DEF Judging, At, Typed, WhereSteps
  <2> QED
    BY <2>1 DEF SettledInv, SettledFor
<1> QED
  BY <1>3, <1>4, AlwaysTyped, PTL
=============================================================================
