------------------------------- MODULE MCCreate -------------------------------
(***************************************************************************)
(* What a create asks before it writes: what do the policy and the list of *)
(* proxies say, is the host safe, and which proxy is it?  None of the      *)
(* three looks at the state of another, so that a behaviour takes the      *)
(* steps of one of them.                                                   *)
(***************************************************************************)
EXTENDS HotRead, Selection, HostSafety, TLC

CONSTANTS a, b, h1, h2, c1, c2, c3, r1, r2, w1, w2

MCWeight == 1 :> 1 @@ 2 :> 2 @@ 3 :> 3

Always(S) == [p \in S |-> 0]

(* Two instances, three proxies that stay: fairness. *)
SteadyMode ==
    [shared |-> TRUE, members |-> {a, b}, catalogs |-> {Always({1, 2, 3})}, creates |-> 3,
     horizon |-> 1, lag |-> 0, faulty |-> FALSE]

(* Proxies come and go under creates that the clock overtakes. *)
Moving ==
    [shared |-> TRUE, members |-> {a, b}, catalogs |-> {Always({1}), Always({2}), 1 :> 0 @@ 2 :> 1},
     creates |-> 2, horizon |-> 1, lag |-> 1, faulty |-> FALSE]

Failing ==
    [shared |-> TRUE, members |-> {a, b}, catalogs |-> {Always({1, 2})}, creates |-> 1,
     horizon |-> 0, lag |-> 0, faulty |-> TRUE]

FailingAlone == [Failing EXCEPT !.members = {a}, !.creates = 3]

(* The local selector alone, for any number of creates. *)
Single ==
    [shared |-> FALSE, members |-> {a}, catalogs |-> {Always({}), Always({1, 2}), Always({2, 3}), Always({1, 2, 3})},
     creates |-> 0, horizon |-> 0, lag |-> 0, faulty |-> FALSE]

(* Two proxies that stay, and creates that last a tick. *)
Lagging ==
    [SteadyMode EXCEPT !.catalogs = {Always({1, 2})}, !.horizon = 2, !.lag = 1]

MCModes == {SteadyMode, Moving, Failing, FailingAlone, Lagging, Single}

-----------------------------------------------------------------------------
(* Two checks of one host, which can be canceled, and one of another that  *)
(* competes for the only entry of the cache.                               *)
MCHostOf == c1 :> h1 @@ c2 :> h1 @@ c3 :> h2

VARIABLE part

MCInit ==
    /\ Init /\ SelectInit /\ HostInit
    /\ part \in {"reads", "selection", "hosts"}
    /\ IF part = "selection" THEN TRUE ELSE mode = Single /\ catalog = Always({})
    /\ IF part = "hosts" THEN dns[h1] = "public" /\ dns[h2] = "internal"
       ELSE dns = [h \in Host |-> "public"]

MCNext ==
    /\ UNCHANGED part
    /\ \/ part = "reads" /\ Next /\ UNCHANGED <<selectVars, hostVars>>
       \/ part = "selection" /\ SelectNext /\ UNCHANGED <<vars, hostVars>>
       \/ part = "hosts" /\ HostNext /\ UNCHANGED <<vars, selectVars>>

MCSpec ==
    /\ MCInit /\ [][MCNext]_<<vars, selectVars, hostVars, part>>
    /\ \A r \in Reader :
           WF_vars(part = "reads" /\ Step(r) /\ UNCHANGED <<selectVars, hostVars, part>>)
    /\ \A c \in Check :
           WF_hostVars(part = "hosts" /\ CheckStep(c) /\ UNCHANGED <<vars, selectVars, part>>)
=============================================================================
