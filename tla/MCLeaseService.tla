---------------------------- MODULE MCLeaseService ----------------------------
(* Small instances of LeaseService: one lease and two instances, a and b.  *)
(* c1 creates the lease on b, n1 renews it and x1 revokes it on a; v1 and  *)
(* v2 validate on b, v3 on a, all with the password c1 was given.          *)
EXTENDS LeaseService, TLC

CONSTANTS a, b, c1, n1, x1, v1, v2, v3

MCKind == [r \in Request |-> CASE r = c1 -> "create"
                               [] r = n1 -> "renew"
                               [] r = x1 -> "revoke"
                               [] OTHER  -> "validate"]

MCHome == [r \in Request |-> IF r \in {c1, v1, v2} THEN b ELSE a]

MCPresents == [r \in Request |-> c1]

(* The validations on b are interchangeable. *)
Validators == Permutations({v1, v2})

(* A renewal and a revoke against two validations, at one moment. *)
Racing ==
    [requests |-> {c1, n1, x1, v1, v2}, lifetimes |-> {4}, horizon |-> 0,
     cacheTTL |-> 2, truthTTL |-> 1, subscribed |-> {}, patience |-> 0,
     faulty |-> FALSE, mortal |-> {}]

(* A renewal and a validation while leases and cache entries expire. *)
Expiring ==
    [Racing EXCEPT !.requests = {c1, n1, v1}, !.lifetimes = {1, 2}, !.horizon = 2]

(* A revoke and two validations of a long lease; everything may fail. *)
Failing ==
    [requests |-> {c1, x1, v1, v2}, lifetimes |-> {4}, horizon |-> 2,
     cacheTTL |-> 3, truthTTL |-> 2, subscribed |-> {}, patience |-> 0,
     faulty |-> TRUE, mortal |-> {b}]

(* Revoke and validation on one instance, messages to both instances;      *)
(* the lease is so short that maintenance finds its row.                   *)
Near == [Racing EXCEPT !.requests = {c1, x1, v3}, !.lifetimes = {1},
                       !.horizon = 2, !.subscribed = {a, b}]

(* A message arrives and is not wholly applied. *)
Garbled == [Failing EXCEPT !.requests = {c1, x1, v1}, !.horizon = 0,
                           !.subscribed = {b}, !.mortal = {}]

(* A revoke and a validation that may last a tick. *)
Slow ==
    [requests |-> {c1, x1, v1}, lifetimes |-> {4}, horizon |-> 3,
     cacheTTL |-> 2, truthTTL |-> 1, subscribed |-> {}, patience |-> 1,
     faulty |-> TRUE, mortal |-> {b}]

MCSites == {Racing, Expiring, Failing, Near, Garbled, Slow}

(* The revoke and a validation on one instance, no other instance that     *)
(* could hear of it, and nothing fails; requests take no time.             *)
MCPrompt ==
    {[requests |-> {c1, x1, v3}, lifetimes |-> {4}, horizon |-> 3,
      cacheTTL |-> 2, truthTTL |-> 1, subscribed |-> {}, patience |-> 0,
      faulty |-> FALSE, mortal |-> {}]}

MCTTL == {1, 2, 4}
=============================================================================
