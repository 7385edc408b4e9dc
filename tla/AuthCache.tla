------------------------------ MODULE AuthCache ------------------------------
(***************************************************************************)
(* Tenant keys: the admin transactions that issue and revoke them          *)
(* (internal/server/admin_store_mysql.go), the version counter they bump,  *)
(* and the copy of the active keys every instance authenticates from       *)
(* (internal/auth/cache.go).                                               *)
(*                                                                         *)
(* An instance refreshes its copy from two goroutines, the poll loop and   *)
(* the subscriber of the invalidation channel.  A refresh reads the        *)
(* version, then the rows, then swaps the copy: three steps, between which *)
(* admin transactions commit.  A refresh that finds the version it already *)
(* has reads no rows, so everything rests on the version telling the       *)
(* truth.  Keys have no expiry here.                                       *)
(***************************************************************************)
EXTENDS Integers

CONSTANTS
    Tenant,
    Key,        \* keys; each is issued at most once
    Owner,      \* Owner[k]: the tenant key k is issued to
    Instance,   \* ProxyHarbor processes
    MaxVersion, \* bound: admin transactions stop here
    MaxInbox,   \* bound: messages waiting at one subscriber
    BootRace    \* may an admin transaction commit during an initial load?

Worker == {"poll", "subscriber"}

ASSUME AuthAssumption ==
    /\ Owner \in [Key -> Tenant]
    /\ MaxVersion \in Nat
    /\ MaxInbox \in Nat
    /\ BootRace \in BOOLEAN

VARIABLES
    status,     \* status[t]: tenants.status, or "deleted" once deleted_at is set
    issued,     \* keys with a row in tenant_keys
    revoked,    \* those with revoked_at set
    version,    \* tenant_keys_version
    life,       \* life[i]: whether instance i is up, or where its boot is
    cache,      \* cache[i]: the keys in DynamicStore.byHash
    cacheVer,   \* cacheVer[i]: DynamicStore.version
    phase,      \* phase[i][w]: where the refresh by worker w is
    readVer,    \* readVer[i][w]: the version that refresh has read
    rows,       \* rows[i][w]: the rows it has read
    inbox       \* inbox[i]: auth messages not yet consumed

adminVars == <<status, issued, revoked, version>>
copyVars == <<life, cache, cacheVer>>
refreshVars == <<phase, readVer, rows>>
vars == <<adminVars, copyVars, refreshVars, inbox>>

TypeOK ==
    /\ status \in [Tenant -> {"active", "disabled", "deleted"}]
    /\ issued \in SUBSET Key
    /\ revoked \in SUBSET issued
    /\ version \in Nat
    /\ life \in [Instance -> {"down", "loading", "up"}]
    /\ cache \in [Instance -> SUBSET Key]
    /\ cacheVer \in [Instance -> Nat]
    /\ phase \in [Instance -> [Worker -> {"idle", "checked", "loaded"}]]
    /\ readVer \in [Instance -> [Worker -> Nat]]
    /\ rows \in [Instance -> [Worker -> SUBSET Key]]
    /\ inbox \in [Instance -> 0 .. MaxInbox]

(* The tenants are created first; CreateTenant touches no key. *)
Init ==
    /\ status = [t \in Tenant |-> "active"]
    /\ issued = {} /\ revoked = {} /\ version = 0
    /\ life = [i \in Instance |-> "down"]
    /\ cache = [i \in Instance |-> {}]
    /\ cacheVer = [i \in Instance |-> 0]
    /\ phase = [i \in Instance |-> [w \in Worker |-> "idle"]]
    /\ readVer = [i \in Instance |-> [w \in Worker |-> 0]]
    /\ rows = [i \in Instance |-> [w \in Worker |-> {}]]
    /\ inbox = [i \in Instance |-> 0]

-----------------------------------------------------------------------------
(* What GetTenantKeys selects. *)
ActiveKeys == {k \in issued \ revoked : status[Owner[k]] = "active"}

(* bumpTenantKeysVersion, inside every transaction below but one. *)
Bump == version < MaxVersion /\ version' = version + 1

(* emit, after the commit: the message reaches some of the instances that  *)
(* listen, none if the publisher fails or dies.                            *)
Emit ==
    \E reached \in SUBSET {i \in Instance : life[i] = "up" /\ inbox[i] < MaxInbox} :
        inbox' = [i \in Instance |-> IF i \in reached THEN inbox[i] + 1 ELSE inbox[i]]

(* An instance is between the two queries of its initial load. *)
Booting == \E i \in Instance : life[i] = "loading"

Admin == (Booting => BootRace) /\ Emit /\ UNCHANGED <<copyVars, refreshVars>>

(* The tenant row is locked and must be active. *)
CreateTenantKey(k) ==
    /\ k \notin issued /\ status[Owner[k]] = "active"
    /\ issued' = issued \union {k}
    /\ Bump /\ Admin
    /\ UNCHANGED <<status, revoked>>

(* Seeded fault: the revoke forgets the version. *)
RevokeQuietly(k) ==
    /\ k \in issued
    /\ revoked' = revoked \union {k}
    /\ Admin
    /\ UNCHANGED <<status, issued, version>>

(* A repeated revoke bumps the version again. *)
RevokeTenantKey(k) ==
    /\ k \in issued
    /\ revoked' = revoked \union {k}
    /\ Bump /\ Admin
    /\ UNCHANGED <<status, issued>>

(* Seeded fault: the tenant is closed, its keys are left as they are. *)
CloseTenantOnly(t, s) ==
    /\ s \in {"disabled", "deleted"} /\ status[t] # "deleted"
    /\ status' = [status EXCEPT ![t] = s]
    /\ Bump /\ Admin
    /\ UNCHANGED <<issued, revoked>>

(* UpdateTenant to "disabled" or "deleted", and SoftDeleteTenant: the keys  *)
(* go with the tenant, in one transaction.                                 *)
CloseTenant(t, s) ==
    /\ s \in {"disabled", "deleted"} /\ status[t] # "deleted"
    /\ status' = [status EXCEPT ![t] = s]
    /\ revoked' = revoked \union {k \in issued : Owner[k] = t}
    /\ Bump /\ Admin
    /\ UNCHANGED issued

(* UpdateTenant to "active": neither the version nor a message. *)
ReopenTenant(t) ==
    /\ status[t] = "disabled"
    /\ status' = [status EXCEPT ![t] = "active"]
    /\ Booting => BootRace
    /\ UNCHANGED <<issued, revoked, version, copyVars, refreshVars, inbox>>

-----------------------------------------------------------------------------
(* NewDynamicStoreWithContext: the rows, then the version.                 *)

BootRows(i) ==
    /\ life[i] = "down"
    /\ life' = [life EXCEPT ![i] = "loading"]
    /\ cache' = [cache EXCEPT ![i] = ActiveKeys]
    /\ UNCHANGED <<adminVars, cacheVer, refreshVars, inbox>>

BootVersion(i) ==
    /\ life[i] = "loading"
    /\ life' = [life EXCEPT ![i] = "up"]
    /\ cacheVer' = [cacheVer EXCEPT ![i] = version]
    /\ UNCHANGED <<adminVars, cache, refreshVars, inbox>>

(* The process ends, or a query of its initial load fails. *)
Stop(i) ==
    /\ life[i] # "down"
    /\ life' = [life EXCEPT ![i] = "down"]
    /\ cache' = [cache EXCEPT ![i] = {}]
    /\ cacheVer' = [cacheVer EXCEPT ![i] = 0]
    /\ phase' = [phase EXCEPT ![i] = [w \in Worker |-> "idle"]]
    /\ readVer' = [readVer EXCEPT ![i] = [w \in Worker |-> 0]]
    /\ rows' = [rows EXCEPT ![i] = [w \in Worker |-> {}]]
    /\ inbox' = [inbox EXCEPT ![i] = 0]
    /\ UNCHANGED adminVars

-----------------------------------------------------------------------------
(* refreshLocked                                                           *)

(* The refresh of w is over. *)
Release(i, w) ==
    /\ phase' = [phase EXCEPT ![i][w] = "idle"]
    /\ readVer' = [readVer EXCEPT ![i][w] = 0]
    /\ rows' = [rows EXCEPT ![i][w] = {}]

(* Seeded fault: the subscriber does not wait for a message. *)
PromptEarly(i, w) ==
    IF w = "subscriber"
    THEN inbox' = [inbox EXCEPT ![i] = @ - 1]
    ELSE UNCHANGED inbox

(* The poll loop has its ticker, the subscriber a message it consumes. *)
Prompt(i, w) ==
    IF w = "subscriber"
    THEN inbox[i] > 0 /\ inbox' = [inbox EXCEPT ![i] = @ - 1]
    ELSE UNCHANGED inbox

(* Seeded fault: the refresh does not take refreshMu. *)
Unserialized(i) == TRUE

(* refreshMu is free. *)
Unlocked(i) == \A w \in Worker : phase[i][w] = "idle"

(* The version is read; an unchanged one ends the refresh. *)
CheckVersion(i, w) ==
    /\ life[i] = "up" /\ phase[i][w] = "idle" /\ Unlocked(i)
    /\ Prompt(i, w)
    /\ IF version = cacheVer[i]
       THEN UNCHANGED refreshVars
       ELSE /\ phase' = [phase EXCEPT ![i][w] = "checked"]
            /\ readVer' = [readVer EXCEPT ![i][w] = version]
            /\ UNCHANGED rows
    /\ UNCHANGED <<adminVars, copyVars>>

LoadRows(i, w) ==
    /\ phase[i][w] = "checked"
    /\ phase' = [phase EXCEPT ![i][w] = "loaded"]
    /\ rows' = [rows EXCEPT ![i][w] = ActiveKeys]
    /\ UNCHANGED <<adminVars, copyVars, readVer, inbox>>

(* Seeded fault: the new rows are added to the old ones. *)
MergeRows(i, w) ==
    /\ phase[i][w] = "loaded"
    /\ cache' = [cache EXCEPT ![i] = @ \union rows[i][w]]
    /\ cacheVer' = [cacheVer EXCEPT ![i] = readVer[i][w]]
    /\ Release(i, w)
    /\ UNCHANGED <<adminVars, life, inbox>>

(* The copy and its version are swapped under mu. *)
ApplyRows(i, w) ==
    /\ phase[i][w] = "loaded"
    /\ cache' = [cache EXCEPT ![i] = rows[i][w]]
    /\ cacheVer' = [cacheVer EXCEPT ![i] = readVer[i][w]]
    /\ Release(i, w)
    /\ UNCHANGED <<adminVars, life, inbox>>

(* A query fails: the old copy stays. *)
RefreshFails(i, w) ==
    /\ phase[i][w] = "checked"
    /\ Release(i, w)
    /\ UNCHANGED <<adminVars, copyVars, inbox>>

Refresh(i, w) == CheckVersion(i, w) \/ LoadRows(i, w) \/ ApplyRows(i, w)

Boot(i) == BootRows(i) \/ BootVersion(i)

Next ==
    \/ \E k \in Key : CreateTenantKey(k) \/ RevokeTenantKey(k)
    \/ \E t \in Tenant : ReopenTenant(t) \/ \E s \in {"disabled", "deleted"} : CloseTenant(t, s)
    \/ \E i \in Instance :
          \/ Boot(i) \/ Stop(i)
          \/ \E w \in Worker : Refresh(i, w) \/ RefreshFails(i, w)

Spec == Init /\ [][Next]_vars

(* The poll loop runs while its process does.  refreshMu may be taken by   *)
(* the subscriber whenever the poll loop wants it, and a query may fail,   *)
(* but neither for ever.                                                   *)
Fairness ==
    \A i \in Instance :
        /\ SF_vars(CheckVersion(i, "poll"))
        /\ \A w \in Worker : SF_vars(LoadRows(i, w)) /\ SF_vars(ApplyRows(i, w))
        /\ WF_vars(BootVersion(i))

FairSpec == Spec /\ Fairness

-----------------------------------------------------------------------------
(* Requests                                                                *)

(* Authenticate: the key that is presented is looked up in the copy. *)
Authenticated(i, k) == life[i] = "up" /\ k \in cache[i]

(* A tenant in GetTenant is enabled.  The admin is told by the database. *)
Enabled(t) == status[t] = "active"

(* requireTenant: the tenants k can act for on i, whichever it claims.     *)
ActsFor(i, k) == {t \in Tenant : Authenticated(i, k) /\ t = Owner[k]}

(* Those the admin can act for, with its own key and on their behalf. *)
AdminActsFor == {t \in Tenant : Enabled(t)}

-----------------------------------------------------------------------------
(* Properties                                                              *)

(* The version tells every reader of the rows whether they have changed:   *)
(* no transaction changes the set of active keys and keeps the version.    *)
(* Reopening a tenant does not bump it, which is right only because        *)
(* closing revoked the keys and a closed tenant gets no new ones.          *)
VersionTellsTheTruth == [][ActiveKeys' # ActiveKeys => version' > version]_vars

(* An instance that holds the current version holds the current keys, so   *)
(* that skipping the rows is right, whatever committed while it loaded     *)
(* them and whichever of its two goroutines did.                           *)
CurrentVersionCurrentKeys ==
    \A i \in Instance :
        life[i] = "up" /\ cacheVer[i] = version => cache[i] = ActiveKeys

(* While an instance is up its copy never goes back to an older version,   *)
(* although two goroutines load it.                                        *)
CopyNeverGoesBack ==
    [][\A i \in Instance :
           life[i] = "up" /\ life'[i] = "up" => cacheVer'[i] >= cacheVer[i]]_vars

(* A key that is revoked eventually acts for nobody on any instance, for   *)
(* good, even if every message is lost: also the keys of a tenant that was *)
(* closed, for which the admin cannot act any more, and also when it is    *)
(* opened again.                                                           *)
RevocationConverges ==
    \A i \in Instance, k \in Key :
        k \in revoked \/ (k \in issued /\ Owner[k] \notin AdminActsFor)
            ~> [](ActsFor(i, k) = {})
=============================================================================
