----------------------------- MODULE LeaseRegister -----------------------------
(***************************************************************************)
(* What the lease part of storage.Store (internal/storage/store.go)        *)
(* promises, whatever the driver: leases that are granted once, prolonged  *)
(* while they live, revoked for good, and forgotten only when their time   *)
(* is over.  Every change is one step.                                     *)
(*                                                                         *)
(* LeaseDrivers shows that the three stores keep the promise, statement by *)
(* statement; ClientLease relies on it.                                    *)
(***************************************************************************)
EXTENDS Integers

CONSTANTS
    Lease,      \* lease IDs
    Holder,     \* who may hold the password of a lease
    Longest,    \* the longest lifetime a policy grants
    NoLease     \* "not granted, or forgotten"

Grantable == [generation : Nat \ {0}, expires : Nat, revoked : BOOLEAN, holder : Holder]

ASSUME RegisterAssumption ==
    /\ Longest \in Nat \ {0}
    /\ NoLease \notin Grantable

VARIABLES
    now,     \* the clock
    lease,   \* lease[l]: lease l as the store knows it
    gone     \* the leases that were forgotten

registerVars == <<now, lease, gone>>

RegisterTypeOK ==
    /\ now \in Nat
    /\ lease \in [Lease -> Grantable \union {NoLease}]
    /\ gone \in SUBSET Lease

RegisterInit ==
    /\ now = 0
    /\ lease = [l \in Lease |-> NoLease]
    /\ gone = {}

Alive(x) == x # NoLease /\ ~x.revoked /\ now < x.expires

(* The lifetime counts from some moment before the store is reached, so    *)
(* that it may be over by now.                                             *)
Grant(l, h, until) ==
    /\ lease[l] = NoLease /\ l \notin gone
    /\ until <= now + Longest
    /\ lease' = [lease EXCEPT ![l] = [generation |-> 1, expires |-> until,
                                      revoked |-> FALSE, holder |-> h]]
    /\ UNCHANGED <<now, gone>>

(* Only the lifetime changes: the next generation of the same lease. *)
Prolonged(x, until) ==
    [generation |-> x.generation + 1, expires |-> until,
     revoked |-> x.revoked, holder |-> x.holder]

Revoked(x) ==
    [generation |-> x.generation, expires |-> x.expires,
     revoked |-> TRUE, holder |-> x.holder]

Prolong(l, until) ==
    /\ Alive(lease[l])
    /\ until <= now + Longest
    /\ lease' = [lease EXCEPT ![l] = Prolonged(lease[l], until)]
    /\ UNCHANGED <<now, gone>>

Revoke(l) ==
    /\ lease[l] # NoLease /\ ~lease[l].revoked
    /\ lease' = [lease EXCEPT ![l] = Revoked(lease[l])]
    /\ UNCHANGED <<now, gone>>

Forget(batch) ==
    /\ \A l \in batch : lease[l] # NoLease /\ lease[l].expires < now
    /\ lease' = [l \in Lease |-> IF l \in batch THEN NoLease ELSE lease[l]]
    /\ gone' = gone \union batch
    /\ UNCHANGED now

Pass ==
    /\ now' = now + 1
    /\ UNCHANGED <<lease, gone>>

RegisterNext ==
    \/ \E l \in Lease, until \in 1 .. now + Longest :
          Prolong(l, until) \/ \E h \in Holder : Grant(l, h, until)
    \/ \E l \in Lease : Revoke(l)
    \/ \E batch \in SUBSET Lease : Forget(batch)
    \/ Pass

RegisterSpec == RegisterInit /\ [][RegisterNext]_registerVars
=============================================================================
