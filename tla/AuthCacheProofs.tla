--------------------------- MODULE AuthCacheProofs ---------------------------
(***************************************************************************)
(* Proofs about AuthCache, for any tenants, keys and instances and for any *)
(* number of transactions and refreshes.                                   *)
(*                                                                         *)
(* VersionTellsTheTruth and CopyNeverGoesBack need no assumption;          *)
(* CurrentVersionCurrentKeys holds when no admin transaction commits       *)
(* between the two queries of an initial load (~BootRace).                 *)
(***************************************************************************)
EXTENDS AuthCache, TLAPS

(* Closing a tenant revoked its keys, and it got no new ones since. *)
ClosedHasNoKeys ==
    \A k \in issued : status[Owner[k]] # "active" => k \in revoked

(* Versions are read, never guessed; a refresh in flight belongs to an      *)
(* instance that is up, has the lock for itself, and is not older than the *)
(* copy it is about to replace.                                            *)
Refreshing ==
    \A i \in Instance :
        /\ cacheVer[i] <= version
        /\ \A w \in Worker : phase[i][w] # "idle" =>
              /\ life[i] = "up"
              /\ cacheVer[i] <= readVer[i][w] /\ readVer[i][w] <= version
              /\ \A w2 \in Worker : phase[i][w2] # "idle" => w2 = w

Base == TypeOK /\ ClosedHasNoKeys /\ Refreshing

(* Rows that go with the current version are the current rows. *)
RowsAreCurrent ==
    \A i \in Instance, w \in Worker :
        phase[i][w] = "loaded" /\ readVer[i][w] = version => rows[i][w] = ActiveKeys

(* Nothing happens during an initial load. *)
BootIsQuiet == \A i \in Instance : life[i] = "loading" => cache[i] = ActiveKeys

IInv == Base /\ RowsAreCurrent /\ BootIsQuiet /\ CurrentVersionCurrentKeys

AdminNext ==
    \/ \E k \in Key : CreateTenantKey(k) \/ RevokeTenantKey(k)
    \/ \E t \in Tenant : ReopenTenant(t) \/ \E s \in {"disabled", "deleted"} : CloseTenant(t, s)

-----------------------------------------------------------------------------
LEMMA BaseInit == Init => Base
BY AuthAssumption DEF Init, Base, TypeOK, ClosedHasNoKeys, Refreshing, Worker

(* What the admin transactions do to the version and to the instances. *)
LEMMA AdminStep ==
    ASSUME Base, AdminNext
    PROVE  /\ version' \in Nat /\ version <= version'
           /\ ActiveKeys' # ActiveKeys => version < version'
           /\ UNCHANGED <<copyVars, refreshVars>>
           /\ ~BootRace => ~Booting
           /\ Base'
<1> USE AuthAssumption DEF Base
<1>1. ASSUME NEW k \in Key, CreateTenantKey(k)
      PROVE  /\ version' = version + 1 /\ UNCHANGED <<copyVars, refreshVars>>
             /\ ~BootRace => ~Booting
             /\ TypeOK' /\ ClosedHasNoKeys'
  BY <1>1 DEF CreateTenantKey, Bump, Admin, Emit, TypeOK, ClosedHasNoKeys,
              copyVars, refreshVars
<1>2. ASSUME NEW k \in Key, RevokeTenantKey(k)
      PROVE  /\ version' = version + 1 /\ UNCHANGED <<copyVars, refreshVars>>
             /\ ~BootRace => ~Booting
             /\ TypeOK' /\ ClosedHasNoKeys'
  BY <1>2 DEF RevokeTenantKey, Bump, Admin, Emit, TypeOK, ClosedHasNoKeys,
              copyVars, refreshVars
<1>3. ASSUME NEW t \in Tenant, NEW s \in {"disabled", "deleted"}, CloseTenant(t, s)
      PROVE  /\ version' = version + 1 /\ UNCHANGED <<copyVars, refreshVars>>
             /\ ~BootRace => ~Booting
             /\ TypeOK' /\ ClosedHasNoKeys'
  BY <1>3 DEF CloseTenant, Bump, Admin, Emit, TypeOK, ClosedHasNoKeys,
              copyVars, refreshVars
<1>4. ASSUME NEW t \in Tenant, ReopenTenant(t)
      PROVE  /\ version' = version /\ ActiveKeys' = ActiveKeys
             /\ UNCHANGED <<copyVars, refreshVars>>
             /\ ~BootRace => ~Booting
             /\ TypeOK' /\ ClosedHasNoKeys'
  <2>1. \A k \in issued : Owner[k] \in Tenant /\ (Owner[k] = t => k \in revoked)
    BY <1>4 DEF ReopenTenant, TypeOK, ClosedHasNoKeys
  <2>2. ActiveKeys' = ActiveKeys
    BY <1>4, <2>1 DEF ReopenTenant, ActiveKeys, TypeOK
  <2> QED
    BY <1>4, <2>2 DEF ReopenTenant, TypeOK, ClosedHasNoKeys, copyVars, refreshVars
<1>5. /\ version' \in Nat /\ version <= version'
      /\ ActiveKeys' # ActiveKeys => version < version'
      /\ UNCHANGED <<copyVars, refreshVars>>
      /\ ~BootRace => ~Booting
      /\ TypeOK' /\ ClosedHasNoKeys'
  <2>1. version \in Nat
    BY DEF TypeOK
  <2> QED BY <1>1, <1>2, <1>3, <1>4, <2>1 DEF AdminNext
<1>6. Refreshing'
  <2>1. \A i \in Instance : cacheVer[i] \in Nat /\ \A w \in Worker : readVer[i][w] \in Nat
    BY DEF TypeOK
  <2> QED BY <1>5, <2>1 DEF Refreshing, copyVars, refreshVars, TypeOK
<1> QED BY <1>5, <1>6

-----------------------------------------------------------------------------
(* What the steps of the instances do                                      *)

InstanceNext ==
    \E i \in Instance :
        \/ Boot(i) \/ Stop(i)
        \/ \E w \in Worker : Refresh(i, w) \/ RefreshFails(i, w)

LEMMA BaseStep == Base /\ [Next]_vars => Base'
<1> SUFFICES ASSUME Base, [Next]_vars PROVE Base'
    OBVIOUS
<1> USE AuthAssumption DEF Base
<1>1. CASE AdminNext
  BY <1>1, AdminStep
<1>2. ASSUME NEW i \in Instance, BootRows(i) PROVE Base'
  BY <1>2 DEF BootRows, TypeOK, ClosedHasNoKeys, Refreshing, ActiveKeys,
              adminVars, refreshVars
<1>3. ASSUME NEW i \in Instance, BootVersion(i) PROVE Base'
  BY <1>3 DEF BootVersion, TypeOK, ClosedHasNoKeys, Refreshing, adminVars, refreshVars
<1>4. ASSUME NEW i \in Instance, Stop(i) PROVE Base'
  BY <1>4 DEF Stop, TypeOK, ClosedHasNoKeys, Refreshing, adminVars
<1>5. ASSUME NEW i \in Instance, NEW w \in Worker, CheckVersion(i, w) PROVE Base'
  <2>1. inbox' \in [Instance -> 0 .. MaxInbox]
    <3>1. inbox \in [Instance -> 0 .. MaxInbox]
      BY DEF TypeOK
    <3>2. CASE w = "subscriber"
      <4>1. inbox[i] - 1 \in 0 .. MaxInbox
        BY <1>5, <3>1, <3>2 DEF CheckVersion, Prompt
      <4>2. inbox' = [inbox EXCEPT ![i] = inbox[i] - 1]
        BY <1>5, <3>2 DEF CheckVersion, Prompt
      <4> QED BY <3>1, <4>1, <4>2
    <3>3. CASE w # "subscriber"
      BY <1>5, <3>1, <3>3 DEF CheckVersion, Prompt
    <3> QED BY <3>2, <3>3
  <2>2. CASE version = cacheVer[i]
    BY <1>5, <2>1, <2>2 DEF CheckVersion, TypeOK, ClosedHasNoKeys, Refreshing,
       adminVars, copyVars, refreshVars
  <2>3. CASE version # cacheVer[i]
    <3>1. /\ phase' = [phase EXCEPT ![i][w] = "checked"]
          /\ readVer' = [readVer EXCEPT ![i][w] = version]
          /\ UNCHANGED <<adminVars, copyVars, rows>>
          /\ life[i] = "up" /\ \A w2 \in Worker : phase[i][w2] = "idle"
      BY <1>5, <2>3 DEF CheckVersion, Unlocked
    <3>2. TypeOK' /\ ClosedHasNoKeys'
      BY <2>1, <3>1 DEF TypeOK, ClosedHasNoKeys, adminVars, copyVars
    <3>3. Refreshing'
      BY <3>1 DEF TypeOK, Refreshing, adminVars, copyVars
    <3> QED BY <3>2, <3>3
  <2> QED BY <2>2, <2>3
<1>6. ASSUME NEW i \in Instance, NEW w \in Worker, LoadRows(i, w) PROVE Base'
  BY <1>6 DEF LoadRows, TypeOK, ClosedHasNoKeys, Refreshing, ActiveKeys,
              adminVars, copyVars
<1>7. ASSUME NEW i \in Instance, NEW w \in Worker, ApplyRows(i, w) PROVE Base'
  BY <1>7 DEF ApplyRows, Release, TypeOK, ClosedHasNoKeys, Refreshing, adminVars
<1>8. ASSUME NEW i \in Instance, NEW w \in Worker, RefreshFails(i, w) PROVE Base'
  BY <1>8 DEF RefreshFails, Release, TypeOK, ClosedHasNoKeys, Refreshing,
              adminVars, copyVars
<1>9. CASE UNCHANGED vars
  BY <1>9 DEF vars, adminVars, copyVars, refreshVars, TypeOK, ClosedHasNoKeys, Refreshing
<1> QED
  BY <1>1, <1>2, <1>3, <1>4, <1>5, <1>6, <1>7, <1>8, <1>9
     DEF Next, AdminNext, Boot, Refresh

LEMMA BaseInvariant == Spec => []Base
BY BaseInit, BaseStep, PTL DEF Spec

(* Every variable keeps its type. *)
THEOREM TypeCorrect == Spec => []TypeOK
<1>1. Base => TypeOK
  BY DEF Base
<1> QED BY <1>1, BaseInvariant, PTL

(* No transaction changes the active keys and keeps the version. *)
THEOREM VersionTellsTheTruthHolds == Spec => VersionTellsTheTruth
<1>1. Base /\ [Next]_vars => (ActiveKeys' # ActiveKeys => version' > version)
  <2> SUFFICES ASSUME Base, [Next]_vars, ActiveKeys' # ActiveKeys
               PROVE  version' > version
    OBVIOUS
  <2>1. CASE AdminNext
    <3>1. version \in Nat
      BY DEF Base, TypeOK
    <3> QED BY <2>1, <3>1, AdminStep
  <2>2. CASE InstanceNext \/ UNCHANGED vars
    <3>1. UNCHANGED adminVars
      BY <2>2 DEF InstanceNext, Boot, BootRows, BootVersion, Stop, Refresh,
                  CheckVersion, LoadRows, ApplyRows, RefreshFails, vars
    <3> QED BY <3>1 DEF adminVars, ActiveKeys
  <2> QED BY <2>1, <2>2 DEF Next, AdminNext, InstanceNext
<1> QED BY <1>1, BaseInvariant, PTL DEF Spec, VersionTellsTheTruth

(* The copy of an instance that stays up only ever moves forward. *)
THEOREM CopyNeverGoesBackHolds == Spec => CopyNeverGoesBack
<1> DEFINE Forward == \A i \in Instance :
             life[i] = "up" /\ life'[i] = "up" => cacheVer'[i] >= cacheVer[i]
<1>1. Base /\ [Next]_vars => Forward
  <2> SUFFICES ASSUME Base, [Next]_vars, NEW i \in Instance,
                      life[i] = "up", life'[i] = "up"
               PROVE  cacheVer'[i] >= cacheVer[i]
    OBVIOUS
  <2> USE DEF Base
  <2>1. cacheVer[i] \in Nat
    BY DEF TypeOK
  <2>2. CASE UNCHANGED cacheVer
    BY <2>1, <2>2
  <2>3. ASSUME NEW j \in Instance, BootVersion(j) \/ Stop(j)
        PROVE  cacheVer'[i] >= cacheVer[i]
    <3>1. j # i
      BY <2>3 DEF BootVersion, Stop, TypeOK
    <3> QED BY <2>1, <2>3, <3>1 DEF BootVersion, Stop, TypeOK
  <2>4. ASSUME NEW j \in Instance, NEW w \in Worker, ApplyRows(j, w)
        PROVE  cacheVer'[i] >= cacheVer[i]
    <3>1. /\ cacheVer' = [cacheVer EXCEPT ![j] = readVer[j][w]]
          /\ cacheVer[j] <= readVer[j][w]
      BY <2>4 DEF ApplyRows, Refreshing
    <3> QED BY <2>1, <3>1 DEF TypeOK
  <2>5. CASE AdminNext
    BY <2>2, <2>5, AdminStep DEF copyVars
  <2> QED
    BY <2>2, <2>3, <2>4, <2>5
       DEF Next, AdminNext, Boot, BootRows, Refresh, CheckVersion, LoadRows,
           RefreshFails, copyVars, vars
<1> QED BY <1>1, BaseInvariant, PTL DEF Spec, CopyNeverGoesBack

-----------------------------------------------------------------------------
(* The version check is sound                                              *)

LEMMA IInvInit == Init => IInv
BY BaseInit DEF Init, IInv, RowsAreCurrent, BootIsQuiet,
                CurrentVersionCurrentKeys, Worker

LEMMA IInvStep == ASSUME ~BootRace PROVE IInv /\ [Next]_vars => IInv'
<1> SUFFICES ASSUME ~BootRace, IInv, [Next]_vars PROVE IInv'
    OBVIOUS
<1> USE DEF IInv
<1>1. Base'
  BY BaseStep
<1>2. /\ version \in Nat
      /\ \A i \in Instance :
            /\ cacheVer[i] \in Nat /\ cacheVer[i] <= version
            /\ \A w \in Worker : readVer[i][w] \in Nat
      /\ \A i \in Instance, w \in Worker :
            phase[i][w] = "loaded" => readVer[i][w] <= version
  BY DEF Base, TypeOK, Refreshing
(* An admin transaction: either nothing changes for a reader, or every      *)
(* version that was read before it is now an old one.                      *)
<1>3. CASE AdminNext
  <2>1. /\ version' \in Nat /\ version <= version'
        /\ ActiveKeys' # ActiveKeys => version < version'
        /\ UNCHANGED <<copyVars, refreshVars>>
        /\ \A i \in Instance : life[i] # "loading"
    BY <1>3, AdminStep DEF Booting
  <2>2. RowsAreCurrent'
    BY <1>2, <2>1 DEF RowsAreCurrent, refreshVars
  <2>3. BootIsQuiet'
    BY <2>1 DEF BootIsQuiet, copyVars
  <2>4. CurrentVersionCurrentKeys'
    BY <1>2, <2>1 DEF CurrentVersionCurrentKeys, copyVars
  <2> QED BY <1>1, <2>2, <2>3, <2>4
(* The other steps leave the tables alone. *)
<1>4. ASSUME UNCHANGED adminVars PROVE ActiveKeys' = ActiveKeys /\ version' = version
  BY <1>4 DEF adminVars, ActiveKeys
<1>5. ASSUME NEW i \in Instance, Boot(i) \/ Stop(i) PROVE IInv'
  <2>1. ActiveKeys' = ActiveKeys /\ version' = version
    BY <1>4, <1>5 DEF Boot, BootRows, BootVersion, Stop
  <2>2. RowsAreCurrent'
    BY <1>5, <2>1
       DEF Boot, BootRows, BootVersion, Stop, RowsAreCurrent, refreshVars, Base, TypeOK
  <2>3. BootIsQuiet' /\ CurrentVersionCurrentKeys'
    BY <1>5, <2>1
       DEF Boot, BootRows, BootVersion, Stop, BootIsQuiet,
           CurrentVersionCurrentKeys, Base, TypeOK
  <2> QED BY <1>1, <2>2, <2>3
<1>6. ASSUME NEW i \in Instance, NEW w \in Worker,
             CheckVersion(i, w) \/ LoadRows(i, w) \/ RefreshFails(i, w)
      PROVE  IInv'
  <2>1. /\ ActiveKeys' = ActiveKeys /\ version' = version
        /\ UNCHANGED copyVars
    BY <1>4, <1>6 DEF CheckVersion, LoadRows, RefreshFails
  <2>2. RowsAreCurrent'
    BY <1>6, <2>1
       DEF CheckVersion, LoadRows, RefreshFails, Release, RowsAreCurrent,
           refreshVars, Base, TypeOK
  <2>3. BootIsQuiet' /\ CurrentVersionCurrentKeys'
    BY <2>1 DEF BootIsQuiet, CurrentVersionCurrentKeys, copyVars
  <2> QED BY <1>1, <2>2, <2>3
<1>7. ASSUME NEW i \in Instance, NEW w \in Worker, ApplyRows(i, w) PROVE IInv'
  <2>1. /\ ActiveKeys' = ActiveKeys /\ version' = version
        /\ UNCHANGED life
        /\ life[i] = "up"
        /\ cache' = [cache EXCEPT ![i] = rows[i][w]]
        /\ cacheVer' = [cacheVer EXCEPT ![i] = readVer[i][w]]
        /\ phase[i][w] = "loaded"
    BY <1>4, <1>7 DEF ApplyRows, Base, Refreshing
  <2>2. RowsAreCurrent'
    BY <1>7, <2>1 DEF ApplyRows, Release, RowsAreCurrent, Base, TypeOK
  <2>3. BootIsQuiet'
    BY <2>1 DEF BootIsQuiet, Base, TypeOK
  <2>4. CurrentVersionCurrentKeys'
    BY <2>1 DEF CurrentVersionCurrentKeys, RowsAreCurrent, Base, TypeOK
  <2> QED BY <1>1, <2>2, <2>3, <2>4
<1>8. CASE UNCHANGED vars
  BY <1>1, <1>4, <1>8
     DEF vars, copyVars, refreshVars, RowsAreCurrent, BootIsQuiet,
         CurrentVersionCurrentKeys
<1> QED
  BY <1>3, <1>5, <1>6, <1>7, <1>8 DEF Next, AdminNext, Refresh

(* An instance that holds the current version holds the current keys. *)
THEOREM CurrentVersionCurrentKeysHolds ==
    ASSUME ~BootRace PROVE Spec => []CurrentVersionCurrentKeys
<1>1. Spec => []IInv
  BY IInvInit, IInvStep, PTL DEF Spec
<1>2. IInv => CurrentVersionCurrentKeys
  BY DEF IInv
<1> QED BY <1>1, <1>2, PTL
=============================================================================
