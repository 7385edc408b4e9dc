----------------------------- MODULE MCClientLease -----------------------------
(* Four clients, three calls of one key each.                              *)
EXTENDS ClientLease, TLC

CONSTANTS c1, c2, c3

(* The defaults; a Release beside a renewal.  The first failure counts. *)
Default ==
    [calls |-> c1 :> "get" @@ c2 :> "get" @@ c3 :> "release",
     autoRenew |-> TRUE, autoReacquire |-> TRUE, skew |-> 1, retries |-> 1, horizon |-> 3]

(* The same with retries, whose requests may be executed twice and late. *)
Patient == [Default EXCEPT !.retries = 2, !.horizon = 2]

(* Expiry is an error. *)
Strict ==
    [calls |-> c1 :> "get" @@ c2 :> "force" @@ c3 :> "get",
     autoRenew |-> TRUE, autoReacquire |-> FALSE, skew |-> 1, retries |-> 1, horizon |-> 5]

(* A skew of more than half the lifetime, and no renewals. *)
Eager ==
    [calls |-> c1 :> "get" @@ c2 :> "get" @@ c3 :> "release",
     autoRenew |-> FALSE, autoReacquire |-> TRUE, skew |-> 2, retries |-> 1, horizon |-> 3]

MCClients == {Default, Patient, Strict, Eager}
=============================================================================
