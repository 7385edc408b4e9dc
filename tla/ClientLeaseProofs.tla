--------------------------- MODULE ClientLeaseProofs ---------------------------
(***************************************************************************)
(* Proofs about ClientLease, for any calls, attempts, lifetimes and clients. *)
(*                                                                         *)
(* Whatever image of a lease is in an entry, in the hands of a call or in   *)
(* an answer that is waited for, the server backs it: it has granted it,   *)
(* and knows the lease for as long or has shortened it by a renewal since. *)
(* What the image says of the password rests on the requests that may      *)
(* still grant it, and what a Release may see again on the entries, which  *)
(* leave the map once.                                                     *)
(***************************************************************************)
EXTENDS ClientLease, TLAPS

(* A call that may have a lease of its own. *)
Creates == {"creating", "publishing", "done"}

Holds == {"locked", "renewing", "creating", "publishing"}

(* Where a call is, and what it has by then. *)
CallShape ==
    \A c \in Call :
        /\ pc[c] \in {"idle", "done"} \union
              IF op[c] = "release" THEN {"reading", "revoking"} ELSE Holds \union {"locking"}
        /\ pc[c] \in Holds => mutex = c
        /\ pc[c] \in {"idle", "locking", "locked", "renewing", "creating"} => at[c] = NoCall
        /\ pc[c] \in {"publishing", "reading", "revoking"} => at[c] # NoCall
        /\ pc[c] \in {"idle", "locking", "locked", "reading"} => held[c] = NoLease
        /\ pc[c] \in {"renewing", "publishing", "revoking"} => held[c] # NoLease
        /\ pc[c] = "renewing" => op[c] = "get"

(* A renewal is tried under the mutex, and for want of a usable lease. *)
NothingUsable == \A c \in Call : pc[c] = "renewing" => ~leaseUsable(Cached)

(* An entry is in the map from when its call stores a lease to the next     *)
(* Release, and never again.                                               *)
EntryOnce ==
    /\ slot # NoCall => at[slot] # NoCall
    /\ \A c \in Call : at[c] # NoCall =>
          /\ at[at[c]] # NoCall
          /\ op[c] = "release" => at[c] # slot

(* A create is asked for by the call that has the name of the lease, and   *)
(* granted to one of the attempts that are no longer on the wire.          *)
Grants ==
    /\ \A l \in Lease : lease[l] # NoLease =>
          /\ l \notin gone /\ pc[l] \in Creates
          /\ lease[l].holder <= attempt[l] /\ lease[l].expires <= now + Longest
    /\ \A q \in wire : q.verb = "create" =>
          /\ q.id = q.by /\ pc[q.by] \in Creates /\ q.attempt <= attempt[q.by]
          /\ lease[q.id] # NoLease => lease[q.id].holder # q.attempt

(* An image is of some generation of its lease.  It counts on the lease for *)
(* as long as the server, if that is the last; otherwise the lease was     *)
(* prolonged after the image was granted, for Shortest at least.           *)
Backed(x) ==
    /\ x.expires <= now + Longest
    /\ IF lease[x.id] = NoLease
       THEN x.id \in gone /\ x.expires < now + (Longest - Shortest)
       ELSE /\ x.generation <= lease[x.id].generation
            /\ x.generation = lease[x.id].generation => x.expires = lease[x.id].expires
            /\ x.expires <= lease[x.id].expires + (Longest - Shortest)

Right(x) ==
    lease[x.id] # NoLease =>
        \/ x.password = lease[x.id].holder
        \/ x.password = Missing /\ lease[x.id].holder < attempt[x.id]

(* No renewal of the lease was ever granted. *)
Unrenewed(x) == lease[x.id] # NoLease /\ lease[x.id].generation = 1

(* Before its first renewal a lease is in one entry only. *)
CreatedIn(x, e) == Unrenewed(x) => pc[x.id] = "done" /\ at[x.id] = e

EntriesSound ==
    \A e \in Call : entry[e] # NoLease =>
        Backed(entry[e]) /\ Right(entry[e]) /\ CreatedIn(entry[e], e)

HeldSound ==
    \A c \in Call : held[c] # NoLease =>
        /\ Backed(held[c]) /\ Right(held[c])
        /\ op[c] = "release" => CreatedIn(held[c], at[c])
        /\ pc[c] = "publishing" /\ Unrenewed(held[c]) => held[c].id = c

AnswersSound ==
    \A c \in Call : pc[c] \in Waiting /\ answer[c] \in Image =>
        /\ answer[c].id = Named(c) /\ Backed(answer[c])
        /\ pc[c] = "creating" => Right(answer[c])
        /\ pc[c] = "renewing" => ~Unrenewed(answer[c])
        /\ pc[c] = "revoking" =>
              lease[answer[c].id] = NoLease \/ lease[answer[c].id].revoked

ClientInv ==
    /\ ClientTypeOK /\ CallShape /\ NothingUsable /\ EntryOnce /\ Grants
    /\ EntriesSound /\ HeldSound /\ AnswersSound /\ ReleaseAnswerHolds

-----------------------------------------------------------------------------
(* What a step of a call may do                                            *)

LEMMA InitShape == ClientInit => ClientInv
<1> SUFFICES ASSUME ClientInit PROVE ClientInv
  OBVIOUS
<1>1. ClientTypeOK
  BY RegisterAssumption, ClientAssumption
     DEF ClientInit, RegisterInit, ClientTypeOK, RegisterTypeOK, Image, Request, Call, Attempt
<1>2. CallShape /\ NothingUsable /\ EntryOnce /\ Grants
  BY DEF ClientInit, RegisterInit, CallShape, NothingUsable, EntryOnce, Grants, Holds, Call
<1>3. EntriesSound /\ HeldSound /\ AnswersSound /\ ReleaseAnswerHolds
  BY DEF ClientInit, RegisterInit, EntriesSound, HeldSound, AnswersSound, ReleaseAnswerHolds,
         Waiting, Call
<1> QED
  BY <1>1, <1>2, <1>3 DEF ClientInv

(* It changes nothing of another call. *)
Alone(c) ==
    /\ UNCHANGED <<serverVars, client>>
    /\ pc' = [pc EXCEPT ![c] = pc'[c]] /\ at' = [at EXCEPT ![c] = at'[c]]
    /\ held' = [held EXCEPT ![c] = held'[c]] /\ result' = [result EXCEPT ![c] = result'[c]]
    /\ attempt' = [attempt EXCEPT ![c] = attempt'[c]]
    /\ answer' = [answer EXCEPT ![c] = answer'[c]]
    /\ result'[c] \in {result[c], "ok", "expired", "failed"}

(* It ends, with or without the mutex. *)
Ends(c) ==
    /\ pc'[c] = "done"
    /\ mutex' = IF mutex = c THEN NoCall ELSE mutex
    /\ UNCHANGED <<attempt, answer, wire>>

(* It sends a request, n-th of its kind. *)
Sends(c, verb, id, n) ==
    /\ \/ verb = "create" /\ pc'[c] = "creating"
       \/ verb = "renew" /\ pc'[c] = "renewing"
       \/ verb = "revoke" /\ pc'[c] = "revoking"
    /\ attempt'[c] = n /\ answer'[c] = Silence
    /\ wire' = wire \union {[by |-> c, verb |-> verb, id |-> id, attempt |-> n]}
    /\ UNCHANGED mutex

(* It takes what is cached, or goes for the mutex and takes that. *)
Looks(c) ==
    /\ pc[c] \in {"idle", "locking", "locked"} /\ op[c] # "release"
    /\ UNCHANGED <<slot, entry, at, wire, attempt, answer>>
    /\ \/ /\ leaseUsable(Cached) /\ held'[c] = Cached /\ Ends(c)
       \/ held'[c] = held[c] /\ pc[c] = "idle" /\ pc'[c] = "locking" /\ UNCHANGED mutex
       \/ /\ held'[c] = held[c] /\ pc[c] = "locking" /\ pc'[c] = "locked"
          /\ mutex = NoCall /\ mutex' = c

(* It asks for a renewal, for a create, or again. *)
Asks(c) ==
    /\ UNCHANGED <<slot, entry, at>>
    /\ \/ /\ pc[c] = "locked" /\ op[c] = "get" /\ ~leaseUsable(Cached) /\ Cached # NoLease
          /\ held'[c] = Cached /\ Sends(c, "renew", Cached.id, 1)
       \/ /\ pc[c] \in {"locked", "renewing"}
          /\ pc[c] = "locked" /\ op[c] = "get" => ~leaseUsable(Cached)
          /\ held'[c] = NoLease /\ Sends(c, "create", c, 1)
       \/ /\ pc[c] \in Waiting /\ attempt[c] < client.retries
          /\ held'[c] = held[c] /\ Sends(c, Verb(c), Named(c), attempt[c] + 1)

(* It has a lease and looks for the entry, or stores it there. *)
Stores(c) ==
    \/ /\ pc[c] \in {"renewing", "creating"} /\ answer[c] \in Image /\ pc'[c] = "publishing"
       /\ held'[c] = IF pc[c] = "creating" THEN answer[c]
                     ELSE [answer[c] EXCEPT !.password = held[c].password]
       /\ slot' = IF slot = NoCall THEN c ELSE slot
       /\ at'[c] = slot'
       /\ UNCHANGED <<entry, mutex, attempt, answer, wire>>
    \/ /\ pc[c] = "publishing" /\ entry' = [entry EXCEPT ![at[c]] = held[c]]
       /\ Ends(c) /\ result'[c] = "ok" /\ UNCHANGED <<slot, at, held>>

(* It gives up, or has its answer. *)
Stops(c) ==
    /\ pc[c] \in Waiting \union {"locked"} /\ Ends(c)
    /\ held'[c] \in {held[c], NoLease}
    /\ pc[c] = "revoking" /\ result'[c] = "ok" => answer[c] \in Image
    /\ UNCHANGED <<slot, entry, at>>

(* It empties the map, reads what it took and asks for its end. *)
Releases(c) ==
    /\ op[c] = "release"
    /\ \/ /\ pc[c] = "idle" /\ at'[c] = slot /\ slot' = NoCall /\ held'[c] = held[c]
          /\ \/ slot = NoCall /\ Ends(c)
             \/ slot # NoCall /\ pc'[c] = "reading" /\ UNCHANGED <<mutex, attempt, answer, wire>>
          /\ UNCHANGED entry
       \/ /\ pc[c] = "reading" /\ held'[c] = entry[at[c]]
          /\ \/ entry[at[c]] = NoLease /\ Ends(c)
             \/ entry[at[c]] # NoLease /\ Sends(c, "revoke", entry[at[c]].id, 1)
          /\ UNCHANGED <<slot, entry, at>>

LEMMA SendSends ==
    ASSUME ClientTypeOK, NEW c \in Call, NEW verb \in {"create", "renew", "revoke"}, NEW id, NEW n,
           Send(c, verb, id, n), UNCHANGED mutex
    PROVE  Sends(c, verb, id, n)
<1>1. DOMAIN pc = Call /\ DOMAIN attempt = Call /\ DOMAIN answer = Call
  BY DEF ClientTypeOK
<1>2. /\ attempt'[c] = n /\ answer'[c] = Silence
      /\ wire' = wire \union {[by |-> c, verb |-> verb, id |-> id, attempt |-> n]}
  BY <1>1 DEF Send, RequestOf
<1>3. \/ verb = "create" /\ pc'[c] = "creating"
      \/ verb = "renew" /\ pc'[c] = "renewing"
      \/ verb = "revoke" /\ pc'[c] = "revoking"
  <2>1. CASE verb = "create"
    BY <1>1, <2>1 DEF Send, Goto
  <2>2. CASE verb = "renew"
    BY <1>1, <2>2 DEF Send, Goto
  <2>3. CASE verb = "revoke"
    BY <1>1, <2>3 DEF Send, Goto
  <2> QED
    BY <2>1, <2>2, <2>3
<1> QED
  BY <1>2, <1>3 DEF Sends

LEMMA CallSteps ==
    ASSUME ClientInv, NEW c \in Call, CallStep(c)
    PROVE  /\ Alone(c)
           /\ Looks(c) \/ Asks(c) \/ Stores(c) \/ Stops(c) \/ Releases(c)
<1> USE ClientAssumption DEF ClientInv, ClientTypeOK, CallShape, Alone, Holds
<1> USE DEF Goto, NoRequest, Return, Unlocked, Ends
<1>r. UNCHANGED <<serverVars, client>>
  BY DEF CallStep
<1>1. CASE ReuseCached(c) \/ MissCached(c) \/ Lock(c) \/ ReuseLocked(c)
  <2>1. Alone(c)
    BY <1>1, <1>r DEF ReuseCached, MissCached, Lock, ReuseLocked
  <2>2. Looks(c)
    BY <1>1, <1>r DEF ReuseCached, MissCached, Lock, ReuseLocked, Looks
  <2> QED
    BY <2>1, <2>2
<1>2. CASE tryRenew(c) \/ Retry(c)
  <2>1. Alone(c)
    BY <1>2, <1>r DEF tryRenew, Retry, Send
  <2>2. CASE tryRenew(c)
    <3>1. Sends(c, "renew", Cached.id, 1)
      BY <2>2, SendSends DEF tryRenew
    <3> QED
      BY <2>1, <2>2, <3>1 DEF tryRenew, Asks, RenewDue, leaseShouldRenew
  <2>3. CASE Retry(c)
    <3>1. /\ pc[c] \in Waiting /\ attempt[c] < client.retries
          /\ Send(c, Verb(c), Named(c), attempt[c] + 1)
          /\ UNCHANGED <<slot, entry, mutex, at, held>>
      BY <2>3 DEF Retry
    <3>2. \/ pc[c] = "creating" /\ Verb(c) = "create"
          \/ pc[c] = "renewing" /\ Verb(c) = "renew"
          \/ pc[c] = "revoking" /\ Verb(c) = "revoke"
      BY <3>1 DEF Verb, Waiting
    <3>3. Sends(c, Verb(c), Named(c), attempt[c] + 1)
      BY <3>1, <3>2, SendSends
    <3> QED
      BY <2>1, <3>1, <3>3 DEF Asks
  <2> QED
    BY <1>2, <2>1, <2>2, <2>3
<1>3. CASE ReacquireLocked(c) \/ ReacquireAfterRenew(c)
  <2>1. Alone(c)
    BY <1>3, <1>r DEF ReacquireLocked, ReacquireAfterRenew, Reacquire, Send
  <2>2. pc[c] \in {"locked", "renewing"}
        /\ (pc[c] = "locked" /\ op[c] = "get" => ~leaseUsable(Cached)) /\ Reacquire(c)
    BY <1>3 DEF ReacquireLocked, ReacquireAfterRenew
  <2>3. CASE Return(c, "expired") /\ NoRequest
    <3>1. held'[c] = NoLease /\ UNCHANGED <<slot, entry, at>>
      BY <2>2 DEF Reacquire
    <3> QED
      BY <2>1, <2>2, <2>3, <3>1 DEF Stops, Waiting
  <2>4. CASE Send(c, "create", c, 1) /\ UNCHANGED <<mutex, result>>
    <3>1. held'[c] = NoLease /\ UNCHANGED <<slot, entry, at>>
      BY <2>2 DEF Reacquire
    <3>2. Sends(c, "create", c, 1)
      BY <2>4, SendSends
    <3> QED
      BY <2>1, <2>2, <3>1, <3>2 DEF Asks
  <2> QED
    BY <2>1, <2>2, <2>3, <2>4 DEF Reacquire
<1>4. CASE StoreRenewed(c) \/ StoreCreated(c) \/ Publish(c)
  <2>1. Alone(c)
    BY <1>4, <1>r DEF StoreRenewed, StoreCreated, Publish, Load
  <2>2. Stores(c)
    BY <1>4, <1>r DEF StoreRenewed, StoreCreated, Publish, Load, Stores
  <2> QED
    BY <2>1, <2>2
<1>5. CASE CreateFailed(c) \/ RevokeAnswered(c) \/ Cancel(c)
  <2>1. Alone(c)
    BY <1>5, <1>r DEF CreateFailed, RevokeAnswered, Cancel
  <2>2. Stops(c)
    BY <1>5, <1>r DEF CreateFailed, RevokeAnswered, Cancel, Stops, Waiting
  <2> QED
    BY <2>1, <2>2
<1>6. CASE LoadAndDelete(c) \/ ReadEntry(c)
  <2>1. Alone(c)
    BY <1>6, <1>r DEF LoadAndDelete, ReadEntry, Send
  <2>2. Releases(c)
    BY <1>6, <1>r DEF LoadAndDelete, ReadEntry, Send, Sends, RequestOf, Releases
  <2> QED
    BY <2>1, <2>2
<1> QED
  BY <1>1, <1>2, <1>3, <1>4, <1>5, <1>6 DEF CallStep, GetProxy, Release

LEMMA Known ==
    ASSUME ClientTypeOK
    PROVE  /\ Call = Lease /\ NoCall \notin Call /\ NoLease \notin Image /\ Silence \notin Image
           /\ Refused \notin Image
           /\ Cached \in Image \union {NoLease}
           /\ \A x \in Image : x.id \in Call /\ x.expires \in Nat /\ x.generation \in Nat
           /\ \A x \in Image, y \in Image : [x EXCEPT !.password = y.password] \in Image
           /\ client.retries \in Attempt /\ now \in Nat
           /\ Longest \in Nat /\ Shortest \in Nat /\ Shortest <= Longest
           /\ \A l \in Lease : lease[l] # NoLease => lease[l] \in Grantable
BY RegisterAssumption, ClientAssumption
   DEF ClientTypeOK, RegisterTypeOK, Call, Cached, Image

LEMMA CallKeepsTypes ==
    ASSUME ClientInv, NEW c \in Call, CallStep(c)
    PROVE  ClientTypeOK'
<1> USE DEF ClientInv, CallShape
<1>1. /\ Alone(c)
      /\ Looks(c) \/ Asks(c) \/ Stores(c) \/ Stops(c) \/ Releases(c)
  BY CallSteps
<1>2. /\ NoCall \notin Call /\ NoLease \notin Image /\ Silence \notin Image
      /\ Cached \in Image \union {NoLease} /\ \A x \in Image : x.id \in Lease
      /\ \A x \in Image, y \in Image : [x EXCEPT !.password = y.password] \in Image
      /\ client.retries \in 1 .. MaxAttempts /\ MaxAttempts \in Nat /\ Call = Lease
  BY Known, ClientAssumption DEF Attempt
<1>0. c \in Lease /\ 1 \in Attempt
  BY <1>2 DEF Attempt
<1> DEFINE Places == Waiting \union {"idle", "locking", "locked", "publishing", "reading", "done"}
<1>3. ASSUME NEW verb, NEW id \in Lease, NEW n \in Attempt, Sends(c, verb, id, n)
      PROVE  /\ pc'[c] \in Places /\ attempt'[c] \in 0 .. MaxAttempts
             /\ answer'[c] \in Image \union {Silence, Refused}
             /\ wire' \subseteq Request /\ mutex' \in Call \union {NoCall}
  <2>1. verb \in {"create", "renew", "revoke"} /\ pc'[c] \in Waiting
    BY <1>3 DEF Sends, Waiting
  <2>2. [by |-> c, verb |-> verb, id |-> id, attempt |-> n] \in Request
    BY <1>3, <2>1 DEF Request
  <2> QED
    BY <1>2, <1>3, <2>1, <2>2 DEF Sends, ClientTypeOK, Attempt
<1>4. ASSUME Ends(c)
      PROVE  /\ pc'[c] \in Places /\ attempt'[c] \in 0 .. MaxAttempts
             /\ answer'[c] \in Image \union {Silence, Refused}
             /\ wire' \subseteq Request /\ mutex' \in Call \union {NoCall}
  BY <1>4 DEF Ends, ClientTypeOK
<1>5. /\ pc'[c] \in Places /\ attempt'[c] \in 0 .. MaxAttempts
      /\ answer'[c] \in Image \union {Silence, Refused}
      /\ wire' \subseteq Request /\ mutex' \in Call \union {NoCall}
      /\ slot' \in Call \union {NoCall} /\ at'[c] \in Call \union {NoCall}
      /\ held'[c] \in Image \union {NoLease} /\ entry' \in [Call -> Image \union {NoLease}]
  <2>1. CASE Looks(c)
    BY <1>2, <1>4, <2>1 DEF Looks, ClientTypeOK
  <2>2. CASE Asks(c)
    <3>1. /\ slot' \in Call \union {NoCall} /\ at'[c] \in Call \union {NoCall}
          /\ entry' \in [Call -> Image \union {NoLease}]
      BY <2>2 DEF Asks, ClientTypeOK
    <3>2. CASE pc[c] = "locked" /\ held'[c] = Cached /\ Cached # NoLease
               /\ Sends(c, "renew", Cached.id, 1)
      BY <1>2, <1>3, <3>1, <3>2 DEF Attempt
    <3>3. CASE held'[c] = NoLease /\ Sends(c, "create", c, 1)
      BY <1>0, <1>3, <3>1, <3>3
    <3>4. CASE /\ pc[c] \in Waiting /\ attempt[c] < client.retries
               /\ held'[c] = held[c] /\ Sends(c, Verb(c), Named(c), attempt[c] + 1)
      <4>1. Named(c) \in Lease
        BY <1>2, <3>4 DEF Named, Waiting, ClientTypeOK
      <4>2. attempt[c] + 1 \in Attempt
        BY <1>2, <3>4 DEF Attempt, ClientTypeOK
      <4>3. held[c] \in Image \union {NoLease}
        BY DEF ClientTypeOK
      <4> QED
        BY <1>3, <3>1, <3>4, <4>1, <4>2, <4>3
    <3> QED
      BY <2>2, <3>2, <3>3, <3>4 DEF Asks
  <2>3. CASE Stores(c)
    BY <1>2, <1>4, <2>3 DEF Stores, ClientTypeOK
  <2>4. CASE Stops(c)
    BY <1>2, <1>4, <2>4 DEF Stops, ClientTypeOK
  <2>5. CASE Releases(c)
    <3>1. CASE pc[c] = "reading"
      <4>1. entry[at[c]] \in Image \union {NoLease}
        BY <3>1 DEF ClientTypeOK
      <4>2. /\ held'[c] = entry[at[c]] /\ UNCHANGED <<slot, entry, at>>
            /\ Ends(c) \/ (entry[at[c]] # NoLease /\ Sends(c, "revoke", entry[at[c]].id, 1))
        BY <2>5, <3>1 DEF Releases
      <4> QED
        BY <1>0, <1>2, <1>3, <1>4, <4>1, <4>2 DEF ClientTypeOK
    <3>2. CASE pc[c] # "reading"
      BY <1>4, <2>5, <3>2 DEF Releases, ClientTypeOK
    <3> QED
      BY <3>1, <3>2
  <2> QED
    BY <1>1, <2>1, <2>2, <2>3, <2>4, <2>5
<1> HIDE DEF Places
<1>6. pc' \in [Call -> Places] /\ at' \in [Call -> Call \union {NoCall}]
      /\ held' \in [Call -> Image \union {NoLease}] /\ attempt' \in [Call -> 0 .. MaxAttempts]
      /\ answer' \in [Call -> Image \union {Silence, Refused}]
      /\ result' \in [Call -> {"none", "ok", "expired", "failed"}]
  BY <1>1, <1>5 DEF Alone, ClientTypeOK, Places
<1>7. RegisterTypeOK' /\ renewBefore' \in [Lease -> Nat] /\ client' \in Clients
  BY <1>1 DEF Alone, ClientTypeOK, RegisterTypeOK, serverVars, registerVars
<1> QED
  BY <1>5, <1>6, <1>7 DEF ClientTypeOK, Places

(* It never goes back behind its create, and keeps its entry. *)
LEMMA CallGoesOn ==
    ASSUME ClientInv, NEW c \in Call, CallStep(c)
    PROVE  /\ pc[c] # "done"
           /\ pc[c] \in Creates => pc'[c] \in Creates /\ attempt[c] <= attempt'[c]
           /\ at[c] # NoCall => at'[c] = at[c]
           /\ \/ slot' \in {slot, NoCall}
              \/ slot' = c /\ slot = NoCall /\ at[c] = NoCall /\ at'[c] = c
<1> USE DEF ClientInv, CallShape
<1>1. Looks(c) \/ Asks(c) \/ Stores(c) \/ Stops(c) \/ Releases(c)
  BY CallSteps
<1>2. attempt[c] \in Nat /\ NoCall \notin Call
  BY Known DEF ClientTypeOK
<1>3. CASE Looks(c)
  BY <1>3 DEF Looks, Creates
<1>4. CASE Asks(c)
  BY <1>2, <1>4 DEF Asks, Sends, Creates, Waiting, Verb
<1>5. CASE Stores(c)
  BY <1>2, <1>5 DEF Stores, Creates, Ends
<1>6. CASE Stops(c)
  BY <1>2, <1>6 DEF Stops, Creates, Ends, Waiting
<1>7. CASE Releases(c)
  BY <1>2, <1>7 DEF Releases, Creates, Ends
<1> QED
  BY <1>1, <1>3, <1>4, <1>5, <1>6, <1>7

LEMMA CallKeepsImages ==
    ASSUME ClientInv, NEW c \in Call, CallStep(c), NEW x \in Image
    PROVE  /\ Backed(x) => Backed(x)'
           /\ Right(x) => Right(x)'
           /\ Unrenewed(x)' <=> Unrenewed(x)
           /\ \A e : CreatedIn(x, e) => CreatedIn(x, e)'
<1> USE DEF ClientInv
<1>1. UNCHANGED <<now, lease, gone>> /\ x.id \in Call /\ x.id \in Lease
  BY CallSteps, Known DEF Alone, serverVars, registerVars
<1>2. lease[x.id] # NoLease => pc[x.id] \in Creates /\ lease[x.id].holder \in Nat
  BY <1>1, Known, ClientAssumption DEF Grants, Grantable, Attempt
<1>3. pc[x.id] \in Creates => pc'[x.id] \in Creates /\ attempt[x.id] <= attempt'[x.id]
  BY <1>1, CallSteps, CallGoesOn DEF Alone, ClientTypeOK
<1>4. attempt[x.id] \in Nat /\ attempt'[x.id] \in Nat
  BY <1>1, CallKeepsTypes DEF ClientTypeOK
<1>5. pc[x.id] = "done" => pc'[x.id] = "done" /\ at'[x.id] = at[x.id]
  BY <1>1, CallSteps, CallGoesOn DEF Alone, ClientTypeOK
<1>6. Right(x) => Right(x)'
  BY <1>1, <1>2, <1>3, <1>4 DEF Right
<1>7. \A e : CreatedIn(x, e) => CreatedIn(x, e)'
  BY <1>1, <1>5 DEF CreatedIn, Unrenewed
<1> QED
  BY <1>1, <1>6, <1>7 DEF Backed, Unrenewed

LEMMA VerbOf ==
    ASSUME NEW c, pc[c] \in Waiting
    PROVE  \/ pc[c] = "creating" /\ Verb(c) = "create" /\ Named(c) = c
           \/ pc[c] = "renewing" /\ Verb(c) = "renew" /\ Named(c) = held[c].id
           \/ pc[c] = "revoking" /\ Verb(c) = "revoke" /\ Named(c) = held[c].id
BY DEF Waiting, Verb, Named

LEMMA OthersStay ==
    ASSUME ClientTypeOK, NEW c \in Call, Alone(c), NEW d \in Call, d # c
    PROVE  /\ pc'[d] = pc[d] /\ at'[d] = at[d] /\ held'[d] = held[d]
           /\ result'[d] = result[d] /\ attempt'[d] = attempt[d] /\ answer'[d] = answer[d]
BY DEF ClientTypeOK, Alone

LEMMA StoredImage ==
    ASSUME ClientInv, NEW c \in Call, Stores(c), pc[c] # "publishing"
    PROVE  /\ held'[c] \in Image
           /\ held'[c].id = answer[c].id /\ held'[c].expires = answer[c].expires
           /\ held'[c].generation = answer[c].generation
           /\ pc[c] = "creating" => held'[c] = answer[c]
           /\ pc[c] = "renewing" => held'[c].password = held[c].password
<1>1. /\ pc[c] \in {"renewing", "creating"} /\ answer[c] \in Image
      /\ held'[c] = IF pc[c] = "creating" THEN answer[c]
                    ELSE [answer[c] EXCEPT !.password = held[c].password]
  BY DEF Stores
<1>2. pc[c] = "renewing" => held[c] \in Image
  BY DEF ClientInv, CallShape, ClientTypeOK
<1> QED
  BY <1>1, <1>2 DEF Image

LEMMA CallKeepsShape ==
    ASSUME ClientInv, NEW c \in Call, CallStep(c)
    PROVE  CallShape' /\ NothingUsable' /\ EntryOnce'
<1> USE DEF ClientInv
<1>1. /\ Alone(c) /\ UNCHANGED client
      /\ Looks(c) \/ Asks(c) \/ Stores(c) \/ Stops(c) \/ Releases(c)
  BY CallSteps DEF Alone
<1>2. /\ NoCall \notin Call /\ NoLease \notin Image /\ Silence \notin Image
      /\ Cached \in Image \union {NoLease}
  BY Known
<1>3. \A d \in Call \ {c} : pc'[d] = pc[d] /\ at'[d] = at[d] /\ held'[d] = held[d]
  BY <1>1, OthersStay
<1>4. /\ pc[c] \in {"idle", "done"} \union
                     IF op[c] = "release" THEN {"reading", "revoking"} ELSE Holds \union {"locking"}
      /\ pc[c] \in Holds => mutex = c
      /\ pc[c] \in {"idle", "locking", "locked", "renewing", "creating"} => at[c] = NoCall
      /\ pc[c] \in {"publishing", "reading", "revoking"} => at[c] # NoCall
      /\ pc[c] \in {"idle", "locking", "locked", "reading"} => held[c] = NoLease
      /\ pc[c] \in {"renewing", "publishing", "revoking"} => held[c] # NoLease
      /\ pc[c] = "renewing" => op[c] = "get"
  BY DEF CallShape
<1>5. /\ pc'[c] \in {"idle", "done"} \union
                     IF op[c] = "release" THEN {"reading", "revoking"} ELSE Holds \union {"locking"}
      /\ pc'[c] \in Holds => mutex' = c
      /\ pc'[c] \in {"idle", "locking", "locked", "renewing", "creating"} => at'[c] = NoCall
      /\ pc'[c] \in {"publishing", "reading", "revoking"} => at'[c] # NoCall
      /\ pc'[c] \in {"idle", "locking", "locked", "reading"} => held'[c] = NoLease
      /\ pc'[c] \in {"renewing", "publishing", "revoking"} => held'[c] # NoLease
      /\ pc'[c] = "renewing" => op[c] = "get"
  <2>1. CASE Looks(c)
    BY <1>2, <1>4, <2>1 DEF Looks, Ends, Holds
  <2>2. CASE Asks(c)
    <3>1. pc[c] \in Waiting =>
             \/ pc[c] = "creating" /\ Verb(c) = "create"
             \/ pc[c] = "renewing" /\ Verb(c) = "renew"
             \/ pc[c] = "revoking" /\ Verb(c) = "revoke"
      BY VerbOf
    <3> QED
      BY <1>2, <1>4, <2>2, <3>1 DEF Asks, Sends, Holds
  <2>3. CASE Stores(c)
    <3>1. pc[c] # "publishing" => held'[c] \in Image
      BY <1>4, <2>3, StoredImage DEF Stores
    <3> QED
      BY <1>2, <1>4, <2>3, <3>1 DEF Stores, Ends, Holds
  <2>4. CASE Stops(c)
    BY <1>2, <1>4, <2>4 DEF Stops, Ends, Holds
  <2>5. CASE Releases(c)
    BY <1>2, <1>4, <2>5 DEF Releases, Ends, Sends, Holds
  <2> QED
    BY <1>1, <2>1, <2>2, <2>3, <2>4, <2>5
<1>6. \A d \in Call \ {c} : mutex = d => mutex' = d
  BY <1>1, <1>2 DEF Looks, Asks, Stores, Stops, Releases, Ends, Sends
<1>7. CallShape'
  <2>1. op' = op
    BY <1>1 DEF op
  <2> QED
    BY <1>3, <1>5, <1>6, <2>1 DEF CallShape
<1>8. NothingUsable'
  <2>1. ASSUME NEW d \in Call, d # c, pc'[d] = "renewing" PROVE ~leaseUsable(Cached)'
    <3>1. mutex = d /\ pc[d] = "renewing" /\ ~leaseUsable(Cached)
      BY <1>3, <2>1 DEF CallShape, NothingUsable, Holds
    <3>2. pc[c] \notin Holds
      BY <1>4, <2>1, <3>1
    <3>3. UNCHANGED entry /\ slot' \in {slot, NoCall}
      BY <1>1, <3>2 DEF Looks, Asks, Stores, Stops, Releases, Holds
    <3>4. Cached' \in {Cached, NoLease} /\ UNCHANGED <<now, client>>
      BY <1>1, <1>2, <3>3 DEF Cached, Alone, serverVars, registerVars
    <3> QED
      BY <3>1, <3>4 DEF leaseUsable, Remaining
  <2>2. ASSUME pc'[c] = "renewing" PROVE ~leaseUsable(Cached)'
    <3>1. Asks(c)
      BY <1>1, <2>2 DEF Looks, Stores, Stops, Releases, Ends, Sends
    <3>2. pc[c] = "renewing" \/ ~leaseUsable(Cached)
      BY <2>2, <3>1, VerbOf DEF Asks, Sends
    <3>3. ~leaseUsable(Cached) /\ UNCHANGED <<slot, entry, now, client>>
      BY <1>1, <3>1, <3>2 DEF Asks, NothingUsable, Alone, serverVars, registerVars
    <3> QED
      BY <3>3 DEF leaseUsable, Remaining, Cached
  <2> QED
    BY <2>1, <2>2 DEF NothingUsable
<1>9. EntryOnce'
  <2>1. /\ at[c] # NoCall => at'[c] = at[c]
        /\ \/ slot' \in {slot, NoCall}
           \/ slot' = c /\ slot = NoCall /\ at[c] = NoCall /\ at'[c] = c
    BY CallGoesOn
  <2>2. /\ slot \in Call \union {NoCall} /\ slot' \in Call \union {NoCall}
        /\ \A d \in Call : at[d] \in Call \union {NoCall} /\ at'[d] \in Call \union {NoCall}
    BY CallKeepsTypes DEF ClientTypeOK
  <2>3. at'[c] # at[c] => at'[c] = (IF op[c] = "release" THEN slot ELSE slot')
                          /\ (op[c] = "release" => slot' = NoCall)
    BY <1>1, <1>4 DEF Looks, Asks, Stores, Stops, Releases, Waiting, Holds
  <2>4. op' = op /\ \A d \in Call : at[d] # NoCall => at'[d] = at[d]
    BY <1>1, <1>3, <2>1 DEF op
  <2>5. slot' # NoCall => at'[slot'] # NoCall
    BY <1>2, <1>3, <2>1, <2>2, <2>4 DEF EntryOnce
  <2>6. ASSUME NEW d \in Call, at'[d] # NoCall
        PROVE  at'[at'[d]] # NoCall /\ (op[d] = "release" => at'[d] # slot')
    <3>1. CASE at'[d] = at[d]
      BY <1>2, <2>1, <2>2, <2>4, <2>6, <3>1 DEF EntryOnce
    <3>2. CASE at'[d] # at[d]
      <4>1. d = c
        BY <1>3, <3>2
      <4> QED
        BY <1>2, <2>2, <2>3, <2>4, <2>5, <2>6, <3>2, <4>1 DEF EntryOnce
    <3> QED
      BY <3>1, <3>2
  <2> QED
    BY <2>4, <2>5, <2>6 DEF EntryOnce
<1> QED
  BY <1>7, <1>8, <1>9

LEMMA CallKeepsGrants ==
    ASSUME ClientInv, NEW c \in Call, CallStep(c)
    PROVE  Grants'
<1> USE DEF ClientInv
<1>1. /\ Alone(c) /\ UNCHANGED <<now, lease, gone>>
      /\ Looks(c) \/ Asks(c) \/ Stores(c) \/ Stops(c) \/ Releases(c)
  BY CallSteps DEF Alone, serverVars, registerVars
<1>2. \A d \in Call : pc[d] \in Creates => pc'[d] \in Creates /\ attempt[d] <= attempt'[d]
  <2>1. ASSUME NEW d \in Call, d # c PROVE pc'[d] = pc[d] /\ attempt'[d] = attempt[d]
    BY <1>1, <2>1, OthersStay
  <2>2. \A d \in Call : attempt[d] \in Nat
    BY DEF ClientTypeOK
  <2> QED
    BY <2>1, <2>2, CallGoesOn
<1>3. /\ Call = Lease /\ wire \subseteq Request
      /\ \A d \in Call : attempt[d] \in Nat /\ attempt'[d] \in Nat
      /\ \A l \in Lease : lease[l] # NoLease => lease[l].holder \in Nat
  <2>1. \A d \in Call : attempt[d] \in Nat /\ attempt'[d] \in Nat
    BY CallKeepsTypes DEF ClientTypeOK
  <2>2. Call = Lease /\ wire \subseteq Request
    BY Known DEF ClientTypeOK
  <2>3. \A l \in Lease : lease[l] # NoLease => lease[l].holder \in Attempt
    BY Known, ClientAssumption DEF Grantable
  <2> QED
    BY <2>1, <2>2, <2>3 DEF Attempt
<1>4. ASSUME NEW l \in Lease, lease[l] # NoLease
      PROVE  pc'[l] \in Creates /\ lease[l].holder <= attempt'[l]
  BY <1>2, <1>3, <1>4 DEF Grants
<1>5. ASSUME NEW q \in wire, q.verb = "create"
      PROVE  /\ q.id = q.by /\ pc'[q.by] \in Creates /\ q.attempt <= attempt'[q.by]
             /\ lease[q.id] # NoLease => lease[q.id].holder # q.attempt
  <2>1. q.by \in Call /\ q.attempt \in Nat
    BY <1>3, ClientAssumption DEF Request, Attempt
  <2> QED
    BY <1>2, <1>3, <1>5, <2>1 DEF Grants
<1>6. ASSUME NEW q \in wire' \ wire, q.verb = "create"
      PROVE  /\ q.id = q.by /\ pc'[q.by] \in Creates /\ q.attempt <= attempt'[q.by]
             /\ lease[q.id] # NoLease => lease[q.id].holder # q.attempt
  <2>1. Asks(c) \/ Releases(c)
    BY <1>1, <1>6 DEF Looks, Stores, Stops, Ends
  <2>2. PICK id, n :
            /\ q = [by |-> c, verb |-> "create", id |-> id, attempt |-> n]
            /\ Sends(c, "create", id, n) /\ id = c
            /\ (n = 1 /\ pc[c] \notin Creates) \/ n = attempt[c] + 1
    <3>1. Asks(c)
      BY <1>1, <1>6, <2>1 DEF Releases, Sends, Ends
    <3>2. CASE held'[c] = NoLease /\ Sends(c, "create", c, 1) /\ pc[c] \in {"locked", "renewing"}
      BY <1>6, <3>2 DEF Sends, Creates
    <3>3. CASE pc[c] \in Waiting /\ Sends(c, Verb(c), Named(c), attempt[c] + 1)
      BY <1>6, <3>3, VerbOf DEF Sends
    <3>4. CASE Sends(c, "renew", Cached.id, 1)
      BY <1>6, <3>4 DEF Sends
    <3> QED
      BY <3>1, <3>2, <3>3, <3>4 DEF Asks
  <2>3. q.by = c /\ q.id = c /\ q.attempt = n /\ attempt'[c] = n /\ pc'[c] = "creating"
    BY <2>2 DEF Sends
  <2>4. lease[c] # NoLease => pc[c] \in Creates /\ lease[c].holder <= attempt[c]
    BY <1>3 DEF Grants
  <2> QED
    BY <1>3, <2>2, <2>3, <2>4 DEF Creates
<1>7. \A l \in Lease : lease[l] # NoLease => l \notin gone /\ lease[l].expires <= now + Longest
  BY DEF Grants
<1> QED
  BY <1>1, <1>4, <1>5, <1>6, <1>7 DEF Grants

LEMMA CallKeepsEntries ==
    ASSUME ClientInv, NEW c \in Call, CallStep(c)
    PROVE  EntriesSound'
<1> USE DEF ClientInv
<1>1. /\ Alone(c)
      /\ Looks(c) \/ Asks(c) \/ Stores(c) \/ Stops(c) \/ Releases(c)
  BY CallSteps
<1>2. /\ entry \in [Call -> Image \union {NoLease}]
      /\ \A d \in Call : held[d] \in Image \union {NoLease} /\ at[d] \in Call \union {NoCall}
  BY DEF ClientTypeOK
<1>3. CASE UNCHANGED entry
  BY <1>2, <1>3, CallKeepsImages DEF EntriesSound
<1>4. CASE /\ pc[c] = "publishing" /\ pc'[c] = "done" /\ UNCHANGED <<at, held>>
           /\ entry' = [entry EXCEPT ![at[c]] = held[c]]
  <2>1. /\ held[c] \in Image /\ at[c] \in Call
        /\ Backed(held[c]) /\ Right(held[c]) /\ (Unrenewed(held[c]) => held[c].id = c)
    BY <1>2, <1>4 DEF CallShape, HeldSound
  <2>2. Backed(held[c])' /\ Right(held[c])'
    BY <1>4, <2>1, CallKeepsImages
  <2>3. CreatedIn(held[c], at[c])'
    BY <1>4, <2>1, CallKeepsImages DEF CreatedIn
  <2>4. ASSUME NEW e \in Call, entry'[e] # NoLease
        PROVE  (Backed(entry[e]) /\ Right(entry[e]) /\ CreatedIn(entry[e], e))'
    <3>1. CASE e = at[c]
      BY <1>2, <1>4, <2>2, <2>3, <3>1 DEF Backed, Right, CreatedIn, Unrenewed
    <3>2. CASE e # at[c]
      <4>1. entry'[e] = entry[e] /\ entry[e] \in Image
        BY <1>2, <1>4, <2>4, <3>2
      <4>2. Backed(entry[e]) /\ Right(entry[e]) /\ CreatedIn(entry[e], e)
        BY <2>4, <4>1 DEF EntriesSound
      <4> HIDE DEF ClientInv
      <4>3. \A x \in Image : /\ Backed(x) => Backed(x)'
                             /\ Right(x) => Right(x)'
                             /\ \A f : CreatedIn(x, f) => CreatedIn(x, f)'
        BY CallKeepsImages
      <4>4. PICK x \in Image : x = entry[e] /\ x = entry'[e]
        BY <4>1
      <4>5. Backed(x) /\ Right(x) /\ CreatedIn(x, e)
        BY <4>2, <4>4
      <4>6. Backed(x)' /\ Right(x)' /\ CreatedIn(x, e)'
        BY <4>3, <4>5
      <4> QED
        BY <4>4, <4>6 DEF Backed, Right, CreatedIn, Unrenewed
    <3> QED
      BY <3>1, <3>2
  <2> QED
    BY <2>4 DEF EntriesSound
<1> QED
  BY <1>1, <1>3, <1>4 DEF Looks, Asks, Stores, Stops, Releases, Ends

LEMMA CallKeepsHeld ==
    ASSUME ClientInv, NEW c \in Call, CallStep(c)
    PROVE  HeldSound'
<1> USE DEF ClientInv
<1>1. /\ Alone(c) /\ UNCHANGED client
      /\ Looks(c) \/ Asks(c) \/ Stores(c) \/ Stops(c) \/ Releases(c)
  BY CallSteps DEF Alone
<1>2. /\ entry \in [Call -> Image \union {NoLease}] /\ Cached \in Image \union {NoLease}
      /\ \A d \in Call : held[d] \in Image \union {NoLease} /\ at[d] \in Call \union {NoCall}
      /\ NoLease \notin Image /\ NoCall \notin Call
  BY Known DEF ClientTypeOK
<1>3. \A x \in Image : /\ Backed(x) => Backed(x)' /\ (Right(x) => Right(x)')
                       /\ Unrenewed(x)' <=> Unrenewed(x)
                       /\ \A e : CreatedIn(x, e) => CreatedIn(x, e)'
  BY CallKeepsImages
<1>4. ASSUME NEW d \in Call, d # c, held'[d] # NoLease
      PROVE  /\ Backed(held[d])' /\ Right(held[d])'
             /\ op[d] = "release" => CreatedIn(held[d], at[d])'
             /\ pc'[d] = "publishing" /\ Unrenewed(held[d])' => held'[d].id = d
  <2>1. pc'[d] = pc[d] /\ at'[d] = at[d] /\ held'[d] = held[d]
    BY <1>1, <1>4, OthersStay
  <2>2. held[d] \in Image
    BY <1>2, <1>4, <2>1
  <2>3. /\ Backed(held[d]) /\ Right(held[d])
        /\ op[d] = "release" => CreatedIn(held[d], at[d])
        /\ pc[d] = "publishing" /\ Unrenewed(held[d]) => held[d].id = d
    BY <1>4, <2>1 DEF HeldSound
  <2> QED
    BY <1>3, <2>1, <2>2, <2>3 DEF Backed, Right, CreatedIn, Unrenewed
(* What it has in hand is what it had, what is in an entry, or an answer.  *)
<1>5. ASSUME held'[c] # NoLease
      PROVE  /\ held'[c] \in Image /\ Backed(held'[c]) /\ Right(held'[c])
             /\ op[c] = "release" => CreatedIn(held'[c], at'[c])
             /\ pc'[c] = "publishing" /\ Unrenewed(held'[c]) => held'[c].id = c
  <2>1. CASE held'[c] = held[c] /\ pc'[c] # "publishing" /\ (op[c] = "release" => at'[c] = at[c])
    BY <1>2, <1>5, <2>1 DEF HeldSound
  <2>2. CASE held'[c] = Cached /\ pc'[c] # "publishing" /\ op[c] # "release"
    <3>1. slot \in Call /\ Cached = entry[slot]
      BY <1>5, <2>2 DEF Cached, ClientTypeOK
    <3> QED
      BY <1>2, <1>5, <2>2, <3>1 DEF EntriesSound
  <2>3. CASE /\ pc[c] = "reading" /\ held'[c] = entry[at[c]] /\ pc'[c] # "publishing"
             /\ at' = at
    <3>1. at[c] \in Call
      BY <1>2, <2>3 DEF CallShape
    <3> QED
      BY <1>2, <1>5, <2>3, <3>1 DEF EntriesSound
  <2>4. CASE Stores(c) /\ pc[c] # "publishing"
    <3>1. /\ held'[c] \in Image
          /\ held'[c].id = answer[c].id /\ held'[c].expires = answer[c].expires
          /\ held'[c].generation = answer[c].generation
          /\ pc[c] = "creating" => held'[c] = answer[c]
          /\ pc[c] = "renewing" => held'[c].password = held[c].password
      BY <2>4, StoredImage
    <3>2. /\ pc[c] \in {"renewing", "creating"} /\ answer[c] \in Image /\ op[c] # "release"
      BY <2>4 DEF Stores, CallShape
    <3>3. /\ answer[c].id = Named(c) /\ Backed(answer[c])
          /\ pc[c] = "creating" => Right(answer[c])
          /\ pc[c] = "renewing" => ~Unrenewed(answer[c])
      BY <3>2 DEF AnswersSound, Waiting
    <3>4. pc[c] = "renewing" => held[c] # NoLease /\ Right(held[c]) /\ Named(c) = held[c].id
      BY DEF CallShape, HeldSound, Named
    <3>5. Backed(held'[c])
      BY <3>1, <3>3 DEF Backed
    <3>6. Right(held'[c])
      <4>1. CASE pc[c] = "creating"
        BY <3>1, <3>3, <4>1
      <4>2. CASE pc[c] = "renewing"
        BY <3>1, <3>3, <3>4, <4>2 DEF Right
      <4> QED
        BY <3>2, <4>1, <4>2
    <3>7. Unrenewed(held'[c]) => held'[c].id = c
      BY <3>1, <3>2, <3>3 DEF Unrenewed, Named
    <3> QED
      BY <3>1, <3>2, <3>5, <3>6, <3>7
  <2>5. CASE pc[c] = "idle" /\ held'[c] = held[c]
    BY <1>5, <2>5 DEF CallShape
  <2>6. CASE Looks(c)
    BY <1>5, <2>1, <2>2, <2>6 DEF Looks, Ends
  <2>7. CASE Asks(c)
    <3>1. op[c] = "release" => pc[c] # "locked"
      BY DEF CallShape, Holds
    <3> QED
      BY <1>5, <2>1, <2>2, <2>7, <3>1 DEF Asks, Sends
  <2>8. CASE Stores(c) /\ pc[c] = "publishing"
    BY <1>5, <2>1, <2>8 DEF Stores, Ends
  <2>9. CASE Stops(c)
    BY <1>5, <2>1, <2>9 DEF Stops, Ends
  <2>10. CASE Releases(c)
    BY <1>5, <2>3, <2>5, <2>10 DEF Releases, Ends, Sends
  <2> QED
    BY <1>1, <2>4, <2>6, <2>7, <2>8, <2>9, <2>10
<1>6. ASSUME held'[c] # NoLease
      PROVE  /\ Backed(held[c])' /\ Right(held[c])'
             /\ op[c] = "release" => CreatedIn(held[c], at[c])'
             /\ pc'[c] = "publishing" /\ Unrenewed(held[c])' => held'[c].id = c
  <2>1. held'[c] \in Image
    BY <1>5, <1>6
  <2>2. PICK x \in Image : x = held'[c]
    BY <2>1
  <2>3. PICK e : e = at'[c]
    OBVIOUS
  <2>4. /\ Backed(x) /\ Right(x) /\ (op[c] = "release" => CreatedIn(x, e))
        /\ pc'[c] = "publishing" /\ Unrenewed(x) => x.id = c
    BY <1>5, <1>6, <2>2, <2>3
  <2> QED
    BY <1>3, <2>2, <2>3, <2>4 DEF Backed, Right, CreatedIn, Unrenewed
<1>7. op' = op
  BY <1>1 DEF op
<1> QED
  BY <1>4, <1>6, <1>7 DEF HeldSound

LEMMA CallKeepsAnswers ==
    ASSUME ClientInv, NEW c \in Call, CallStep(c)
    PROVE  AnswersSound' /\ ReleaseAnswerHolds'
<1> USE DEF ClientInv
<1>1. /\ Alone(c) /\ UNCHANGED <<client, lease>>
      /\ Looks(c) \/ Asks(c) \/ Stores(c) \/ Stops(c) \/ Releases(c)
  BY CallSteps DEF Alone, serverVars, registerVars
<1>2. Silence \notin Image /\ op' = op
  BY <1>1, Known DEF op
<1>3. \A x \in Image : /\ Backed(x) => Backed(x)' /\ (Right(x) => Right(x)')
                       /\ Unrenewed(x)' <=> Unrenewed(x)
  BY CallKeepsImages
(* It waits for no answer it did not wait for before. *)
<1>4. pc'[c] \in Waiting => answer'[c] = Silence
  BY <1>1 DEF Looks, Asks, Stores, Stops, Releases, Ends, Sends, Waiting
<1>5. ASSUME NEW d \in Call, pc'[d] \in Waiting, answer'[d] \in Image
      PROVE  /\ answer'[d].id = Named(d)' /\ Backed(answer[d])'
             /\ pc'[d] = "creating" => Right(answer[d])'
             /\ pc'[d] = "renewing" => ~Unrenewed(answer[d])'
             /\ pc'[d] = "revoking" =>
                   lease[answer'[d].id] = NoLease \/ lease[answer'[d].id].revoked
  <2>1. d # c
    BY <1>2, <1>4, <1>5
  <2>2. pc'[d] = pc[d] /\ answer'[d] = answer[d] /\ held'[d] = held[d]
    BY <1>1, <2>1, OthersStay
  <2>3. /\ answer[d].id = Named(d) /\ Backed(answer[d])
        /\ pc[d] = "creating" => Right(answer[d])
        /\ pc[d] = "renewing" => ~Unrenewed(answer[d])
        /\ pc[d] = "revoking" => lease[answer[d].id] = NoLease \/ lease[answer[d].id].revoked
    BY <1>5, <2>2 DEF AnswersSound
  <2>4. Named(d)' = Named(d)
    BY <2>2 DEF Named
  <2> QED
    BY <1>1, <1>3, <1>5, <2>2, <2>3, <2>4 DEF Backed, Right, Unrenewed
<1>6. ASSUME NEW d \in Call, pc'[d] = "done", op[d] = "release", result'[d] = "ok",
             held'[d] # NoLease
      PROVE  lease[held'[d].id] = NoLease \/ lease[held'[d].id].revoked
  <2>1. CASE d # c
    <3>1. pc'[d] = pc[d] /\ result'[d] = result[d] /\ held'[d] = held[d]
      BY <1>1, <2>1, OthersStay
    <3> QED
      BY <1>6, <3>1 DEF ReleaseAnswerHolds
  <2>2. CASE d = c
    <3>1. pc[c] \in {"idle", "reading", "revoking"}
      BY <1>6, <2>2, CallGoesOn DEF CallShape
    <3>2. CASE pc[c] = "revoking"
      <4>1. answer[c] \in Image /\ held'[c] = held[c]
        BY <1>1, <1>6, <2>2, <3>2
           DEF Looks, Asks, Stores, Stops, Releases, Ends, Sends, Waiting
      <4>2. Named(c) = held[c].id
        BY <3>2 DEF Named
      <4> QED
        BY <2>2, <3>2, <4>1, <4>2 DEF AnswersSound, Waiting
    <3>3. CASE pc[c] \in {"idle", "reading"}
      <4>1. held'[c] = NoLease
        BY <1>1, <1>6, <2>2, <3>3
           DEF CallShape, Looks, Asks, Stores, Stops, Releases, Ends, Sends, Waiting
      <4> QED
        BY <1>6, <2>2, <4>1
    <3> QED
      BY <3>1, <3>2, <3>3
  <2> QED
    BY <2>1, <2>2
<1>7. AnswersSound'
  BY <1>1, <1>5 DEF AnswersSound
<1>8. ReleaseAnswerHolds'
  BY <1>1, <1>2, <1>6 DEF ReleaseAnswerHolds
<1> QED
  BY <1>7, <1>8

LEMMA CallKeepsInv == ASSUME ClientInv, NEW c \in Call, CallStep(c) PROVE ClientInv'
BY CallKeepsTypes, CallKeepsShape, CallKeepsGrants, CallKeepsEntries, CallKeepsHeld,
   CallKeepsAnswers DEF ClientInv

-----------------------------------------------------------------------------
(* What a step of the server may do                                        *)

(* Leases are granted once, prolonged, revoked and forgotten.              *)
RegisterMoves ==
    /\ now' \in Nat /\ now <= now' /\ gone \subseteq gone'
    /\ lease' \in [Lease -> Grantable \union {NoLease}]
    /\ \A l \in Lease :
          \/ lease'[l] = lease[l] /\ (l \in gone' => l \in gone)
          \/ lease[l] = NoLease /\ l \notin gone' /\ lease'[l] # NoLease
          \/ /\ lease[l] # NoLease /\ lease'[l] # NoLease /\ (l \in gone' => l \in gone)
             /\ lease[l].holder = lease'[l].holder
             /\ lease[l].revoked => lease'[l].revoked
             /\ \/ /\ lease'[l].generation = lease[l].generation
                   /\ lease'[l].expires = lease[l].expires
                \/ /\ lease'[l].generation = lease[l].generation + 1
                   /\ now + Shortest <= lease'[l].expires
          \/ lease[l] # NoLease /\ lease'[l] = NoLease /\ lease[l].expires < now /\ l \in gone'

LEMMA MovesKeepImages ==
    ASSUME ClientInv, RegisterMoves, UNCHANGED <<pc, at, attempt>>, NEW x \in Image, Backed(x)
    PROVE  /\ Backed(x)'
           /\ Right(x) => Right(x)'
           /\ Unrenewed(x)' => Unrenewed(x)
           /\ \A e : CreatedIn(x, e) => CreatedIn(x, e)'
           /\ lease[x.id] = NoLease \/ lease[x.id].revoked
                 => lease'[x.id] = NoLease \/ lease'[x.id].revoked
<1>1. /\ x.id \in Lease /\ x.expires \in Nat /\ x.generation \in Nat /\ now \in Nat
      /\ now' \in Nat /\ now <= now'
      /\ Longest \in Nat /\ Shortest \in Nat /\ Shortest <= Longest
      /\ \A l \in Lease : lease[l] # NoLease => lease[l] \in Grantable /\ l \notin gone
  BY Known DEF ClientInv, Grants, RegisterMoves
<1>2. \A l \in Lease : lease'[l] # NoLease => lease'[l] \in Grantable
  BY DEF RegisterMoves
<1>3. /\ \A l \in Lease : lease[l] # NoLease =>
            lease[l].expires \in Nat /\ lease[l].generation \in Nat \ {0}
      /\ \A l \in Lease : lease'[l] # NoLease =>
            lease'[l].expires \in Nat /\ lease'[l].generation \in Nat \ {0}
  BY <1>1, <1>2 DEF Grantable
<1>4. Backed(x)'
  BY <1>1, <1>3 DEF RegisterMoves, Backed
<1>5. Right(x) => Right(x)'
  BY <1>1, <1>3 DEF RegisterMoves, Backed, Right
<1>6. Unrenewed(x)' => Unrenewed(x)
  BY <1>1, <1>3 DEF RegisterMoves, Backed, Unrenewed
<1>7. \A e : CreatedIn(x, e) => CreatedIn(x, e)'
  BY <1>6 DEF CreatedIn
<1>8. lease[x.id] = NoLease \/ lease[x.id].revoked
          => lease'[x.id] = NoLease \/ lease'[x.id].revoked
  BY <1>1 DEF RegisterMoves, Backed
<1> QED
  BY <1>4, <1>5, <1>6, <1>7, <1>8

(* What the calls know stays sound while the server moves.                 *)
LEMMA MovesKeepCalls ==
    ASSUME ClientInv, RegisterMoves,
           UNCHANGED <<client, slot, entry, mutex, pc, at, held, result, attempt>>
    PROVE  /\ CallShape' /\ NothingUsable' /\ EntryOnce'
           /\ EntriesSound' /\ HeldSound' /\ ReleaseAnswerHolds'
<1> USE DEF ClientInv
<1>1. /\ entry \in [Call -> Image \union {NoLease}] /\ held \in [Call -> Image \union {NoLease}]
      /\ op' = op
  BY DEF ClientTypeOK, op
<1>2. CallShape' /\ EntryOnce'
  BY <1>1 DEF CallShape, EntryOnce
<1>3. NothingUsable'
  <2>1. ASSUME leaseUsable(Cached)' PROVE leaseUsable(Cached)
    <3>1. Cached' = Cached /\ Cached # NoLease /\ client' = client
      BY <2>1 DEF leaseUsable, Cached
    <3>2. Cached.expires \in Nat /\ now \in Nat /\ now' \in Nat /\ now <= now'
          /\ client.skew \in Nat
      BY <3>1, Known, ClientAssumption DEF RegisterMoves, ClientTypeOK
    <3> QED
      BY <2>1, <3>1, <3>2 DEF leaseUsable, Remaining
  <2> QED
    BY <2>1 DEF NothingUsable
<1>4. EntriesSound'
  <2>1. ASSUME NEW e \in Call, entry[e] # NoLease
        PROVE  (Backed(entry[e]) /\ Right(entry[e]) /\ CreatedIn(entry[e], e))'
    <3>1. PICK x \in Image : x = entry[e]
      BY <1>1, <2>1
    <3>2. Backed(x) /\ Right(x) /\ CreatedIn(x, e)
      BY <2>1, <3>1 DEF EntriesSound
    <3> QED
      BY <3>1, <3>2, MovesKeepImages DEF Backed, Right, CreatedIn, Unrenewed
  <2> QED
    BY <2>1 DEF EntriesSound
<1>5. HeldSound'
  <2>1. ASSUME NEW c \in Call, held[c] # NoLease
        PROVE  /\ Backed(held[c])' /\ Right(held[c])'
               /\ op[c] = "release" => CreatedIn(held[c], at[c])'
               /\ pc[c] = "publishing" /\ Unrenewed(held[c])' => held[c].id = c
    <3>1. PICK x \in Image : x = held[c]
      BY <1>1, <2>1
    <3>2. /\ Backed(x) /\ Right(x) /\ (op[c] = "release" => CreatedIn(x, at[c]))
          /\ pc[c] = "publishing" /\ Unrenewed(x) => x.id = c
      BY <2>1, <3>1 DEF HeldSound
    <3> QED
      BY <3>1, <3>2, MovesKeepImages DEF Backed, Right, CreatedIn, Unrenewed
  <2> QED
    BY <1>1, <2>1 DEF HeldSound
<1>6. ReleaseAnswerHolds'
  <2>1. ASSUME NEW c \in Call, held[c] # NoLease,
               lease[held[c].id] = NoLease \/ lease[held[c].id].revoked
        PROVE  lease'[held[c].id] = NoLease \/ lease'[held[c].id].revoked
    BY <1>1, <2>1, MovesKeepImages DEF HeldSound
  <2> QED
    BY <1>1, <2>1 DEF ReleaseAnswerHolds
<1> QED
  BY <1>2, <1>3, <1>4, <1>5, <1>6

(* An answer to q, as the call that waits for it needs it. *)
Fits(q, a) ==
    \/ a = Refused
    \/ /\ a \in Image /\ a.id = q.id /\ Backed(a)'
       /\ q.verb = "create" /\ attempt[q.by] = q.attempt => Right(a)'
       /\ q.verb = "renew" => ~Unrenewed(a)'
       /\ q.verb = "revoke" => lease'[a.id] = NoLease \/ lease'[a.id].revoked

LEMMA ShownFits ==
    ASSUME NEW l \in Lease, NEW p \in Attempt \union {Missing}, lease'[l] \in Grantable,
           renewBefore'[l] \in Nat
    PROVE  /\ Shows(l, p)' \in Image /\ Shows(l, p)'.id = l /\ Shows(l, p)'.password = p
           /\ Shows(l, p)'.generation = lease'[l].generation
           /\ Shows(l, p)'.expires = lease'[l].expires
BY DEF Shows, Image, Grantable

(* What the server shows of a lease that it knows, it backs. *)
LEMMA ShownBacked ==
    ASSUME NEW l \in Lease, NEW p \in Attempt \union {Missing}, lease'[l] \in Grantable,
           renewBefore'[l] \in Nat, now' \in Nat, lease'[l].expires <= now' + Longest,
           NEW a, a = Shows(l, p)'
    PROVE  Backed(a)'
<1>1. /\ a.id = l /\ a.generation = lease'[l].generation
      /\ a.expires = lease'[l].expires /\ lease'[l].expires \in Nat
  BY ShownFits DEF Grantable
<1>2. /\ lease'[l] # NoLease /\ Longest \in Nat /\ Shortest \in Nat /\ Shortest <= Longest
      /\ lease'[l].generation \in Nat
  BY RegisterAssumption, ClientAssumption DEF Grantable
<1> QED
  BY <1>1, <1>2 DEF Backed

LEMMA ServeFits ==
    ASSUME ClientInv, NEW q \in wire, Serve(q)
    PROVE  /\ RegisterMoves /\ renewBefore' \in [Lease -> Nat]
           /\ \E a : Reply(q, a) /\ Fits(q, a)
<1> USE DEF ClientInv
<1>1. /\ q.by \in Call /\ q.id \in Lease /\ q.attempt \in Attempt
      /\ q.verb \in {"create", "renew", "revoke"}
  BY DEF ClientTypeOK, Request
<1>2. /\ now \in Nat /\ Longest \in Nat /\ NoLease \notin Grantable /\ Holder = Attempt
      /\ Attempt \subseteq Nat /\ Shortest \in Nat \ {0}
      /\ lease \in [Lease -> Grantable \union {NoLease}] /\ attempt \in [Call -> 0 .. MaxAttempts]
      /\ renewBefore \in [Lease -> Nat]
      /\ \A l \in Lease : lease[l] # NoLease =>
            l \notin gone /\ lease[l].expires <= now + Longest /\ lease[l].holder <= attempt[l]
  <2>1. /\ now \in Nat /\ Longest \in Nat /\ NoLease \notin Grantable /\ Holder = Attempt
        /\ Shortest \in Nat \ {0}
        /\ lease \in [Lease -> Grantable \union {NoLease}]
        /\ renewBefore \in [Lease -> Nat]
        /\ attempt \in [Call -> 0 .. MaxAttempts]
    BY RegisterAssumption, ClientAssumption DEF ClientTypeOK, RegisterTypeOK
  <2>2. Attempt \subseteq Nat
    BY ClientAssumption DEF Attempt
  <2>3. \A l \in Lease : lease[l] # NoLease =>
            l \notin gone /\ lease[l].expires <= now + Longest /\ lease[l].holder <= attempt[l]
    BY DEF Grants
  <2> QED
    BY <2>1, <2>2, <2>3
<1>3. /\ UNCHANGED <<client, slot, entry, mutex, pc, at, held, result, attempt>>
      /\ ServeCreate(q) \/ ServeRenew(q) \/ ServeRevoke(q) \/ ServeRefusal(q)
  BY DEF Serve
<1>4. \A ttl \in Shortest .. Longest :
         /\ ttl \in Nat /\ now + ttl \in Nat /\ now + ttl \div 2 \in Nat
         /\ now + Shortest <= now + ttl /\ now + ttl <= now + Longest
  BY <1>2
(* The register is as it was. *)
<1>5. CASE /\ UNCHANGED serverVars
           /\ \/ Reply(q, Refused)
              \/ /\ lease[q.id] # NoLease /\ Reply(q, Shows(q.id, Missing)')
                 /\ q.verb = "create" \/ (q.verb = "revoke" /\ lease[q.id].revoked)
  <2>1. RegisterMoves /\ renewBefore' \in [Lease -> Nat]
    BY <1>2, <1>5 DEF RegisterMoves, serverVars, registerVars
  <2>2. CASE Reply(q, Refused)
    BY <2>1, <2>2 DEF Fits
  <2>3. CASE /\ lease[q.id] # NoLease /\ Reply(q, Shows(q.id, Missing)')
             /\ q.verb = "create" \/ (q.verb = "revoke" /\ lease[q.id].revoked)
    <3>0. PICK a : a = Shows(q.id, Missing)'
      OBVIOUS
    <3>1. /\ UNCHANGED <<lease, now, renewBefore>> /\ lease[q.id] \in Grantable
          /\ lease[q.id].expires <= now + Longest
      BY <1>1, <1>2, <1>5, <2>3 DEF serverVars, registerVars
    <3>2. a \in Image /\ a.id = q.id /\ a.password = Missing /\ Backed(a)'
      BY <1>1, <1>2, <3>0, <3>1, ShownFits, ShownBacked
    <3>3. q.verb = "create" =>
             lease[q.id].holder # q.attempt /\ q.id = q.by /\ lease[q.id].holder \in Nat
      BY <1>1, <1>2, <2>3 DEF Grants, Grantable
    <3>4. q.verb = "create" /\ attempt[q.by] = q.attempt => Right(a)'
      BY <1>1, <1>2, <1>3, <2>3, <3>1, <3>2, <3>3 DEF Right
    <3>5. Fits(q, a)
      BY <2>3, <3>1, <3>2, <3>4 DEF Fits
    <3> QED
      BY <2>1, <2>3, <3>0, <3>5
  <2> QED
    BY <1>5, <2>2, <2>3
<1>6. ASSUME NEW ttl \in Shortest .. Longest, q.verb = "create",
             Grant(q.id, q.attempt, now + ttl), SetRenewBefore(q.id, ttl),
             Reply(q, Shows(q.id, q.attempt)')
      PROVE  /\ RegisterMoves /\ renewBefore' \in [Lease -> Nat]
             /\ \E a : Reply(q, a) /\ Fits(q, a)
  <2>0. PICK a : a = Shows(q.id, q.attempt)'
    OBVIOUS
  <2> DEFINE x == [generation |-> 1, expires |-> now + ttl, revoked |-> FALSE,
                   holder |-> q.attempt]
  <2>1. x \in Grantable
    BY <1>1, <1>2, <1>4 DEF Grantable
  <2>2. /\ lease[q.id] = NoLease /\ q.id \notin gone /\ UNCHANGED <<now, gone>>
        /\ lease' = [lease EXCEPT ![q.id] = x]
    BY <1>6 DEF Grant
  <2>3. lease'[q.id] = x /\ x # NoLease
    BY <1>1, <1>2, <2>1, <2>2
  <2>4. RegisterMoves
    BY <1>1, <1>2, <2>1, <2>2 DEF RegisterMoves
  <2>5. renewBefore' \in [Lease -> Nat]
    BY <1>2, <1>4, <1>6 DEF SetRenewBefore
  <2>6. a \in Image /\ a.id = q.id /\ a.password = q.attempt /\ Backed(a)'
    <3>1. x.expires <= now' + Longest /\ now' \in Nat
      BY <1>2, <1>4, <2>2
    <3> HIDE DEF x
    <3> QED
      BY <1>1, <2>0, <2>1, <2>3, <2>5, <3>1, ShownFits, ShownBacked
  <2>7. Fits(q, a)
    BY <1>6, <2>3, <2>6 DEF Fits, Right
  <2> QED
    BY <1>6, <2>0, <2>4, <2>5, <2>7
<1>7. ASSUME NEW ttl \in Shortest .. Longest, q.verb = "renew",
             Prolong(q.id, now + ttl), SetRenewBefore(q.id, ttl),
             Reply(q, Shows(q.id, Missing)')
      PROVE  /\ RegisterMoves /\ renewBefore' \in [Lease -> Nat]
             /\ \E a : Reply(q, a) /\ Fits(q, a)
  <2>0. PICK a : a = Shows(q.id, Missing)'
    OBVIOUS
  <2> DEFINE x == Prolonged(lease[q.id], now + ttl)
  <2>1. lease[q.id] \in Grantable /\ lease[q.id] # NoLease
    BY <1>1, <1>2, <1>7 DEF Prolong, Alive
  <2>2. /\ x \in Grantable
        /\ x.expires = now + ttl /\ x.holder = lease[q.id].holder
        /\ x.generation = lease[q.id].generation + 1 /\ x.revoked = lease[q.id].revoked
        /\ lease[q.id].generation \in Nat \ {0}
    BY <1>2, <1>4, <2>1 DEF Grantable, Prolonged
  <2>3. /\ UNCHANGED <<now, gone>> /\ lease' = [lease EXCEPT ![q.id] = x]
    BY <1>7 DEF Prolong
  <2>4. lease'[q.id] = x /\ x # NoLease
    BY <1>1, <1>2, <2>2, <2>3
  <2> HIDE DEF x
  <2>5. RegisterMoves
    BY <1>1, <1>2, <1>4, <2>1, <2>2, <2>3 DEF RegisterMoves
  <2>6. renewBefore' \in [Lease -> Nat]
    BY <1>2, <1>4, <1>7 DEF SetRenewBefore
  <2>7. a \in Image /\ a.id = q.id /\ Backed(a)'
    <3>1. x.expires <= now' + Longest /\ now' \in Nat
      BY <1>2, <1>4, <2>2, <2>3
    <3> QED
      BY <1>1, <2>0, <2>2, <2>4, <2>6, <3>1, ShownFits, ShownBacked
  <2>8. Fits(q, a)
    BY <1>7, <2>2, <2>4, <2>7 DEF Fits, Unrenewed
  <2> QED
    BY <1>7, <2>0, <2>5, <2>6, <2>8
<1>8. CASE /\ q.verb = "revoke" /\ Revoke(q.id) /\ UNCHANGED renewBefore
           /\ Reply(q, Shows(q.id, Missing)')
  <2>0. PICK a : a = Shows(q.id, Missing)'
    OBVIOUS
  <2> DEFINE x == Revoked(lease[q.id])
  <2>1. lease[q.id] \in Grantable /\ lease[q.id] # NoLease
    BY <1>1, <1>2, <1>8 DEF Revoke
  <2>2. /\ x \in Grantable
        /\ x.expires = lease[q.id].expires /\ x.holder = lease[q.id].holder
        /\ x.generation = lease[q.id].generation /\ x.revoked
        /\ lease[q.id].generation \in Nat /\ lease[q.id].expires \in Nat
    BY <2>1 DEF Grantable, Revoked
  <2>3. /\ UNCHANGED <<now, gone>> /\ lease' = [lease EXCEPT ![q.id] = x]
    BY <1>8 DEF Revoke
  <2>4. lease'[q.id] = x /\ x # NoLease
    BY <1>1, <1>2, <2>2, <2>3
  <2> HIDE DEF x
  <2>5. RegisterMoves /\ renewBefore' \in [Lease -> Nat]
    BY <1>1, <1>2, <1>8, <2>1, <2>2, <2>3 DEF RegisterMoves
  <2>6. a \in Image /\ a.id = q.id /\ Backed(a)'
    <3>1. x.expires <= now' + Longest /\ now' \in Nat
      BY <1>1, <1>2, <2>1, <2>2, <2>3
    <3> QED
      BY <1>1, <2>0, <2>2, <2>4, <2>5, <3>1, ShownFits, ShownBacked
  <2>7. Fits(q, a)
    BY <1>8, <2>2, <2>4, <2>6 DEF Fits
  <2> QED
    BY <1>8, <2>0, <2>5, <2>7
<1> QED
  BY <1>3, <1>5, <1>6, <1>7, <1>8
     DEF ServeCreate, ServeRenew, ServeRevoke, ServeRefusal, serverVars

LEMMA ServeKeepsInv == ASSUME ClientInv, NEW q \in wire, Serve(q) PROVE ClientInv'
<1> USE DEF ClientInv
<1>1. /\ q.by \in Call /\ q.id \in Lease /\ q.attempt \in Attempt /\ q \in Request
      /\ q.verb \in {"create", "renew", "revoke"}
  BY DEF ClientTypeOK, Request
<1>2. /\ UNCHANGED <<client, slot, entry, mutex, pc, at, held, result, attempt>>
      /\ RegisterMoves /\ renewBefore' \in [Lease -> Nat]
  BY ServeFits DEF Serve
<1>3. PICK a : Reply(q, a) /\ Fits(q, a)
  BY ServeFits
<1>4. /\ CallShape' /\ NothingUsable' /\ EntryOnce'
      /\ EntriesSound' /\ HeldSound' /\ ReleaseAnswerHolds'
  BY <1>2, MovesKeepCalls
<1>5. wire' = wire \ {q} /\ Call = Lease
  BY <1>3, Known DEF Reply
<1>6. /\ answer' \in [Call -> Image \union {Silence, Refused}]
      /\ \A d \in Call : d # q.by => answer'[d] = answer[d]
      /\ answer'[q.by] # answer[q.by] =>
            /\ answer'[q.by] = a /\ pc[q.by] \in Waiting /\ attempt[q.by] = q.attempt
            /\ q.verb = Verb(q.by) /\ q.id = Named(q.by)
  <2>1. a \in Image \union {Refused}
    BY <1>3 DEF Fits
  <2>2. answer' = answer \/ /\ answer' = [answer EXCEPT ![q.by] = a] /\ pc[q.by] \in Waiting
                            /\ attempt[q.by] = q.attempt
                            /\ q = RequestOf(q.by, Verb(q.by), Named(q.by), q.attempt)
    BY <1>3 DEF Reply
  <2>3. q = RequestOf(q.by, Verb(q.by), Named(q.by), q.attempt)
            => q.verb = Verb(q.by) /\ q.id = Named(q.by)
    BY DEF RequestOf
  <2> QED
    BY <1>1, <2>1, <2>2, <2>3 DEF ClientTypeOK
<1>7. ClientTypeOK'
  <2>1. RegisterTypeOK'
    <3>1. gone' \subseteq Lease /\ now' \in Nat
      BY <1>2 DEF Serve, ServeCreate, ServeRenew, ServeRevoke, ServeRefusal, Grant, Prolong,
                  Revoke, serverVars, registerVars, ClientTypeOK, RegisterTypeOK
    <3> QED
      BY <1>2, <3>1 DEF RegisterMoves, RegisterTypeOK
  <2> QED
    BY <1>2, <1>5, <1>6, <2>1 DEF ClientTypeOK
<1>8. Grants'
  <2>0. /\ lease \in [Lease -> Grantable \union {NoLease}] /\ now \in Nat /\ Longest \in Nat
        /\ \A ttl \in Shortest .. Longest : now + ttl \in Nat /\ now + ttl <= now + Longest
        /\ 0 <= now + Longest
    BY RegisterAssumption, ClientAssumption DEF ClientTypeOK, RegisterTypeOK
  <2>1. PICK until \in Nat :
           /\ until <= now + Longest /\ now' = now /\ gone' = gone
           /\ \/ lease' = lease
              \/ /\ q.verb = "create" /\ lease[q.id] = NoLease /\ q.id \notin gone
                 /\ lease' = [lease EXCEPT ![q.id] = [generation |-> 1, expires |-> until,
                                 revoked |-> FALSE, holder |-> q.attempt]]
              \/ /\ lease[q.id] # NoLease
                 /\ lease' = [lease EXCEPT ![q.id] = Prolonged(lease[q.id], until)]
              \/ /\ lease[q.id] # NoLease
                 /\ lease' = [lease EXCEPT ![q.id] = Revoked(lease[q.id])]
    <3>1. CASE UNCHANGED registerVars \/ Revoke(q.id)
      BY <2>0, <3>1 DEF registerVars, Revoke
    <3>2. ASSUME NEW ttl \in Shortest .. Longest, q.verb = "create",
                 Grant(q.id, q.attempt, now + ttl)
          PROVE  /\ now' = now /\ gone' = gone
                 /\ lease[q.id] = NoLease /\ q.id \notin gone
                 /\ lease' = [lease EXCEPT ![q.id] = [generation |-> 1, expires |-> now + ttl,
                                 revoked |-> FALSE, holder |-> q.attempt]]
      BY <3>2 DEF Grant
    <3>3. ASSUME NEW ttl \in Shortest .. Longest, Prolong(q.id, now + ttl)
          PROVE  /\ now' = now /\ gone' = gone /\ lease[q.id] # NoLease
                 /\ lease' = [lease EXCEPT ![q.id] = Prolonged(lease[q.id], now + ttl)]
      BY <3>3 DEF Prolong, Alive
    <3> QED
      BY <2>0, <3>1, <3>2, <3>3
         DEF Serve, ServeCreate, ServeRenew, ServeRevoke, ServeRefusal, serverVars
  <2>2. lease \in [Lease -> Grantable \union {NoLease}] /\ now \in Nat /\ Longest \in Nat
    BY <2>0
  <2>3. ASSUME NEW l \in Lease, lease'[l] # NoLease
        PROVE  /\ l \notin gone' /\ pc[l] \in Creates
               /\ lease'[l].holder <= attempt[l] /\ lease'[l].expires <= now + Longest
    <3>1. CASE lease[l] # NoLease
      <4>1. /\ l \notin gone /\ pc[l] \in Creates
            /\ lease[l].holder <= attempt[l] /\ lease[l].expires <= now + Longest
        BY <3>1 DEF Grants
      <4> QED
        BY <1>1, <2>1, <2>2, <2>3, <3>1, <4>1 DEF Prolonged, Revoked
    <3>2. CASE lease[l] = NoLease
      <4>1. l = q.id /\ q.verb = "create" /\ q.id \notin gone
            /\ lease'[l].holder = q.attempt /\ lease'[l].expires <= now + Longest
        BY <1>1, <2>1, <2>2, <2>3, <3>2
      <4> QED
        BY <1>1, <2>1, <2>2, <4>1 DEF Grants
    <3> QED
      BY <3>1, <3>2
  <2>4. ASSUME NEW p \in wire', p.verb = "create"
        PROVE  /\ p.id = p.by /\ pc[p.by] \in Creates /\ p.attempt <= attempt[p.by]
               /\ lease'[p.id] # NoLease => lease'[p.id].holder # p.attempt
    <3>1. p \in wire /\ p # q /\ p \in Request
      BY <1>5, <2>4 DEF ClientTypeOK
    <3>2. /\ p.id = p.by /\ pc[p.by] \in Creates /\ p.attempt <= attempt[p.by]
          /\ lease[p.id] # NoLease => lease[p.id].holder # p.attempt
      BY <2>4, <3>1 DEF Grants
    <3>3. q.verb = "create" /\ p.id = q.id => p.attempt # q.attempt
      BY <1>1, <2>4, <3>1 DEF Grants, Request
    <3>4. p.id \in Lease
      BY <3>1 DEF Request
    <3> QED
      BY <1>1, <2>1, <2>2, <3>2, <3>3, <3>4 DEF Prolonged, Revoked
  <2> QED
    BY <1>2, <2>1, <2>3, <2>4 DEF Grants
<1>9. AnswersSound'
  <2>1. ASSUME NEW d \in Call, pc[d] \in Waiting, answer'[d] \in Image
        PROVE  /\ answer'[d].id = Named(d) /\ Backed(answer[d])'
               /\ pc[d] = "creating" => Right(answer[d])'
               /\ pc[d] = "renewing" => ~Unrenewed(answer[d])'
               /\ pc[d] = "revoking" =>
                     lease'[answer'[d].id] = NoLease \/ lease'[answer'[d].id].revoked
    <3>1. PICK x \in Image : x = answer'[d]
      BY <2>1
    <3>2. CASE x = answer[d]
      <4>1. /\ x.id = Named(d) /\ Backed(x) /\ (pc[d] = "creating" => Right(x))
            /\ pc[d] = "renewing" => ~Unrenewed(x)
            /\ pc[d] = "revoking" => lease[x.id] = NoLease \/ lease[x.id].revoked
        BY <2>1, <3>2 DEF AnswersSound
      <4> QED
        BY <1>2, <3>1, <4>1, MovesKeepImages DEF Backed, Right, Unrenewed
    <3>3. CASE x # answer[d]
      <4>1. d = q.by /\ x = a /\ attempt[d] = q.attempt /\ q.verb = Verb(d) /\ q.id = Named(d)
        BY <1>6, <3>1, <3>3
      <4>2. /\ x.id = q.id /\ Backed(x)' /\ (q.verb = "create" => Right(x)')
            /\ q.verb = "renew" => ~Unrenewed(x)'
            /\ q.verb = "revoke" => lease'[x.id] = NoLease \/ lease'[x.id].revoked
        BY <1>3, <4>1, Known DEF Fits
      <4> QED
        BY <2>1, <3>1, <4>1, <4>2, VerbOf DEF Backed, Right, Unrenewed
    <3> QED
      BY <3>2, <3>3
  <2>2. \A d \in Call : Named(d)' = Named(d)
    BY <1>2 DEF Named
  <2> QED
    BY <1>2, <2>1, <2>2 DEF AnswersSound
<1> QED
  BY <1>4, <1>7, <1>8, <1>9

LEMMA TimeKeepsInv == ASSUME ClientInv, ServerTime PROVE ClientInv'
<1> USE DEF ClientInv
<1>1. UNCHANGED <<clientVars, renewBefore>> /\ (Pass \/ \E batch \in SUBSET Lease : Forget(batch))
  BY DEF ServerTime
<1>2. /\ now \in Nat /\ lease \in [Lease -> Grantable \union {NoLease}] /\ gone \subseteq Lease
      /\ NoLease \notin Grantable /\ Longest \in Nat
      /\ \A l \in Lease : lease[l] # NoLease => lease[l].expires \in Nat
  <2>1. now \in Nat /\ lease \in [Lease -> Grantable \union {NoLease}] /\ gone \subseteq Lease
    BY DEF ClientTypeOK, RegisterTypeOK
  <2> QED
    BY <2>1, RegisterAssumption DEF Grantable
<1>3. /\ RegisterMoves /\ gone' \subseteq Lease
      /\ \A l \in Lease : lease'[l] # NoLease =>
            lease'[l] = lease[l] /\ lease[l] # NoLease /\ (l \in gone' => l \in gone)
  <2>1. CASE Pass
    BY <1>2, <2>1 DEF Pass, RegisterMoves
  <2>2. ASSUME NEW batch \in SUBSET Lease, Forget(batch)
        PROVE  /\ RegisterMoves /\ gone' \subseteq Lease
               /\ \A l \in Lease : lease'[l] # NoLease =>
                     lease'[l] = lease[l] /\ lease[l] # NoLease /\ (l \in gone' => l \in gone)
    BY <1>2, <2>2 DEF Forget, RegisterMoves
  <2> QED
    BY <1>1, <2>1, <2>2
<1>4. UNCHANGED <<renewBefore, client, slot, entry, mutex, pc, at, held, result, attempt,
                  answer, wire>>
  BY <1>1 DEF clientVars, callVars
<1>5. /\ CallShape' /\ NothingUsable' /\ EntryOnce'
      /\ EntriesSound' /\ HeldSound' /\ ReleaseAnswerHolds'
  BY <1>3, <1>4, MovesKeepCalls
<1>6. ClientTypeOK'
  BY <1>3, <1>4 DEF RegisterMoves, RegisterTypeOK, ClientTypeOK
<1>7. Grants'
  <2>1. ASSUME NEW l \in Lease, lease'[l] # NoLease
        PROVE  /\ l \notin gone' /\ pc[l] \in Creates
               /\ lease'[l].holder <= attempt[l] /\ lease'[l].expires <= now' + Longest
    <3>1. /\ lease'[l] = lease[l] /\ lease[l] # NoLease /\ (l \in gone' => l \in gone)
          /\ lease[l].expires \in Nat /\ now' \in Nat /\ now <= now'
      BY <1>2, <1>3, <2>1 DEF RegisterMoves
    <3>2. /\ l \notin gone /\ pc[l] \in Creates
          /\ lease[l].holder <= attempt[l] /\ lease[l].expires <= now + Longest
      BY <3>1 DEF Grants
    <3> QED
      BY <1>2, <3>1, <3>2
  <2>2. ASSUME NEW q \in wire, q.verb = "create"
        PROVE  /\ q.id = q.by /\ pc[q.by] \in Creates /\ q.attempt <= attempt[q.by]
               /\ lease'[q.id] # NoLease => lease'[q.id].holder # q.attempt
    <3>1. q.id \in Lease
      BY DEF ClientTypeOK, Request
    <3> QED
      BY <1>3, <2>2, <3>1 DEF Grants
  <2> QED
    BY <1>4, <2>1, <2>2 DEF Grants
<1>8. AnswersSound'
  <2>1. ASSUME NEW d \in Call, pc[d] \in Waiting, answer[d] \in Image
        PROVE  /\ answer[d].id = Named(d) /\ Backed(answer[d])'
               /\ pc[d] = "creating" => Right(answer[d])'
               /\ pc[d] = "renewing" => ~Unrenewed(answer[d])'
               /\ pc[d] = "revoking" =>
                     lease'[answer[d].id] = NoLease \/ lease'[answer[d].id].revoked
    <3>1. PICK x \in Image : x = answer[d]
      BY <2>1
    <3>2. /\ x.id = Named(d) /\ Backed(x) /\ (pc[d] = "creating" => Right(x))
          /\ pc[d] = "renewing" => ~Unrenewed(x)
          /\ pc[d] = "revoking" => lease[x.id] = NoLease \/ lease[x.id].revoked
      BY <2>1, <3>1 DEF AnswersSound
    <3> QED
      BY <1>3, <1>4, <3>1, <3>2, MovesKeepImages DEF Backed, Right, Unrenewed
  <2>2. \A d \in Call : Named(d)' = Named(d)
    BY <1>4 DEF Named
  <2> QED
    BY <1>4, <2>1, <2>2 DEF AnswersSound
<1> QED
  BY <1>5, <1>6, <1>7, <1>8

-----------------------------------------------------------------------------
(* The theorems                                                            *)

LEMMA ClientInvStep == ClientInv /\ [ClientNext]_vars => ClientInv'
<1> SUFFICES ASSUME ClientInv, [ClientNext]_vars PROVE ClientInv'
  OBVIOUS
<1>1. CASE UNCHANGED vars
  <2> USE <1>1 DEF vars, serverVars, clientVars, callVars, registerVars
  <2>1. op' = op /\ Cached' = Cached /\ \A c \in Call : Named(c)' = Named(c)
    BY DEF op, Cached, Named
  <2>2. ClientTypeOK' /\ CallShape' /\ EntryOnce' /\ Grants'
    BY <2>1 DEF ClientInv, ClientTypeOK, RegisterTypeOK, CallShape, EntryOnce, Grants
  <2>3. NothingUsable'
    BY <2>1 DEF ClientInv, NothingUsable, leaseUsable, Remaining
  <2>4. EntriesSound' /\ HeldSound'
    BY <2>1 DEF ClientInv, EntriesSound, HeldSound, Backed, Right, CreatedIn, Unrenewed
  <2>5. AnswersSound' /\ ReleaseAnswerHolds'
    BY <2>1 DEF ClientInv, AnswersSound, Backed, Right, Unrenewed, ReleaseAnswerHolds
  <2> QED
    BY <2>2, <2>3, <2>4, <2>5 DEF ClientInv
<1> QED
  BY <1>1, CallKeepsInv, ServeKeepsInv, TimeKeepsInv DEF ClientNext

LEMMA ClientInvAlways == ClientSpec => []ClientInv
BY InitShape, ClientInvStep, PTL DEF ClientSpec

(* The calls, the entries and the requests keep their types (leases.go,    *)
(* client.go).                                                             *)
THEOREM ClientTypeCorrect == ClientSpec => []ClientTypeOK
<1>1. ClientInv => ClientTypeOK
  BY DEF ClientInv
<1> QED
  BY <1>1, ClientInvAlways, PTL

(* No cached password is wrong, and none is lost but to a replay of the    *)
(* create (leases.go: tryRenew keeps the password; client.go: do).         *)
THEOREM PasswordsAreRightOrLost == ClientSpec => []PasswordIsRightOrLost
<1>1. ClientInv => PasswordIsRightOrLost
  BY DEF ClientInv, EntriesSound, Right, PasswordIsRightOrLost
<1> QED
  BY <1>1, ClientInvAlways, PTL

(* No entry counts on a lease for longer than the server but for what a    *)
(* renewal since has taken off, and by no more than lifetimes differ       *)
(* (leases.go: tryRenew, storeLease; service.go: RenewLease).              *)
THEOREM CacheIsBacked == ClientSpec => []CacheFollowsServer
<1>1. ClientInv => CacheFollowsServer
  BY DEF ClientInv, EntriesSound, Backed, CacheFollowsServer
<1> QED
  BY <1>1, ClientInvAlways, PTL

(* A Release that succeeds has ended the lease for good (leases.go:        *)
(* Release).                                                               *)
THEOREM ReleasesHold == ClientSpec => []ReleaseAnswerHolds
<1>1. ClientInv => ReleaseAnswerHolds
  BY DEF ClientInv
<1> QED
  BY <1>1, ClientInvAlways, PTL

(* What brings a released lease back into the map is a renewal (leases.go: *)
(* Release does not take the mutex of the key).                            *)
THEOREM RevivalsAreRenewals == ClientSpec => []RevivedOnlyByRenewal
<1>1. ClientInv => RevivedOnlyByRenewal
  <2> SUFFICES ASSUME ClientInv, NEW c \in Call, pc[c] = "done", op[c] = "release",
                      held[c] # NoLease, Cached # NoLease, Cached.id = held[c].id,
                      lease[Cached.id] # NoLease, ~ lease[Cached.id].generation > 1
               PROVE  FALSE
    BY DEF RevivedOnlyByRenewal
  <2> USE DEF ClientInv
  <2>1. slot \in Call /\ Cached = entry[slot] /\ Cached \in Image
    BY Known DEF Cached, ClientTypeOK
  <2>2. lease[Cached.id].generation \in Nat \ {0}
    BY <2>1, Known DEF Grantable
  <2>3. Unrenewed(Cached) /\ Unrenewed(held[c])
    BY <2>2 DEF Unrenewed
  <2>4. at[Cached.id] = slot
    BY <2>1, <2>3 DEF EntriesSound, CreatedIn
  <2>5. at[held[c].id] = at[c]
    BY <2>3 DEF HeldSound, CreatedIn
  <2>6. slot # NoCall
    BY <2>1, Known
  <2> QED
    BY <2>4, <2>5, <2>6 DEF EntryOnce
<1> QED
  BY <1>1, ClientInvAlways, PTL

(* No create is sent beside a usable lease, also after a renewal that      *)
(* failed (leases.go: GetProxy looks again under the mutex).               *)
THEOREM CreatesAreNeeded == ClientSpec => NoNeedlessCreate
<1> DEFINE Needed == \A c \in Call :
               pc[c] # "creating" /\ pc'[c] = "creating" /\ op[c] = "get" => ~leaseUsable(Cached)
<1>1. ClientInv /\ [ClientNext]_vars => [Needed]_vars
  <2> SUFFICES ASSUME ClientInv, ClientNext, NEW c \in Call, pc[c] # "creating",
                      pc'[c] = "creating", op[c] = "get"
               PROVE  ~leaseUsable(Cached)
    BY DEF vars
  <2>1. ASSUME NEW d \in Call, CallStep(d) PROVE d = c
    <3>1. Alone(d) /\ ClientTypeOK
      BY <2>1, CallSteps DEF ClientInv
    <3> QED
      BY <2>1, <3>1, OthersStay
  <2>2. CallStep(c)
    BY <2>1 DEF ClientNext, Serve, ServerTime, clientVars, callVars
  <2>3. Asks(c)
    BY <2>2, CallSteps DEF Looks, Stores, Stops, Releases, Ends, Sends
  <2>4. \/ pc[c] = "locked" /\ ~leaseUsable(Cached)
        \/ pc[c] = "renewing"
        \/ pc[c] \in Waiting /\ Sends(c, Verb(c), Named(c), attempt[c] + 1)
    BY <2>3 DEF Asks
  <2>5. pc[c] \in Waiting /\ Sends(c, Verb(c), Named(c), attempt[c] + 1) => pc[c] = "creating"
    BY VerbOf DEF Sends
  <2> QED
    BY <2>4, <2>5 DEF ClientInv, NothingUsable
<1> QED
  BY <1>1, ClientInvAlways, PTL DEF ClientSpec, NoNeedlessCreate
=============================================================================
