----------------------------- MODULE MCLeaseStore -----------------------------
(* What the three stores keep: one lease that everybody fights over, and   *)
(* the ledger of events.  Neither looks at the other, so that a behaviour  *)
(* takes the steps of one of them.                                         *)
EXTENDS LeaseStoreProofs, LeaseDrivers, Ledger, TLC

CONSTANTS c1, c2, n1, n2, v1, Parts

MCKind == (c1 :> "create") @@ (c2 :> "create") @@ (n1 :> "renew")
          @@ (n2 :> "renew") @@ (v1 :> "revoke")

MCTTL == {1, 2}

CONSTANTS e1, e2, e3, e4, e5, e6, e7, e8, u1, u2, u3, a1, a2, ta, tb

(* Two batches of usage that name the same two IDs in opposite orders, one *)
(* for another tenant; a batch without a tenant; a batch of audit events,  *)
(* one without an ID, and a handler that writes what is there already.     *)
MCEventID == e1 :> 1 @@ e2 :> 2 @@ e3 :> 2 @@ e4 :> 1 @@ e5 :> 1 @@ e6 :> 2
             @@ e7 :> NoID @@ e8 :> 1

MCTenantID == [e \in Event |-> CASE e = e3 -> tb [] e = e6 -> NoTenant [] OTHER -> ta]

MCTable == [c \in Call |-> IF c \in {a1, a2} THEN "audit" ELSE "usage"]

MCRoute == [c \in Call |-> IF c = a2 THEN "handler" ELSE "batch"]

MCEvents == u1 :> <<e1, e2>> @@ u2 :> <<e3, e4>> @@ u3 :> <<e6>>
            @@ a1 :> <<e7, e5>> @@ a2 :> <<e8>>

(* Requests of one kind are interchangeable, and so are connections. *)
Callers == Permutations({c1, c2}) \union Permutations({n1, n2}) \union Permutations(Worker)

VARIABLE part

MCInit == DriverInit /\ LedgerInit /\ store = driver /\ part \in Parts

MCNext ==
    /\ UNCHANGED part
    /\ \/ part = "leases" /\ DriverNext /\ UNCHANGED ledgerVars
       \/ part = "ledger" /\ LedgerNext /\ UNCHANGED driverVars

MCVars == <<driverVars, ledgerVars, part>>

MCSpec == MCInit /\ [][MCNext]_MCVars
=============================================================================
