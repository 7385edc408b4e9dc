------------------------------- MODULE Selection -------------------------------
(***************************************************************************)
(* How a create picks its proxy (internal/control/service.go:              *)
(* selectLeaseProxy; internal/control/selector): the selector that many    *)
(* instances share in Redis (redis_zfair.go), whose two scripts are one    *)
(* step each, and the selector every instance has in memory (local.go),    *)
(* which is the fallback of the first.                                     *)
(*                                                                         *)
(* A proxy that is listed is healthy and has a positive weight and score;  *)
(* its weight stands for the product with its score and latency.  There    *)
(* are fewer proxies than max_promote and max_scan.                        *)
(***************************************************************************)
EXTENDS Integers, Functions, FiniteSets

CONSTANTS
    Proxy,       \* proxy IDs, in their order: numbers
    Instance,    \* the instances of the control plane, one create each
    Weight,      \* Weight[p]
    Quantum,     \* what a selection costs a proxy of weight 1
    Modes,       \* what is checked: see ModeAssumption
    Evals,       \* bound: evaluations before the fallback script, 20 in the code
    MaxClock,     \* bound: the clock stops here
    None,        \* no answer so far
    Refusal      \* the error no_healthy_proxy

Clock == 0 .. MaxClock

(* A listed proxy is known with the end of its last circuit, which is over *)
(* when the store lists it; it is an empty circuit when it never failed.   *)
Listing == UNION {[listed -> Clock] : listed \in SUBSET Proxy}

ASSUME ModeAssumption ==
    /\ Proxy \subseteq Nat /\ IsFiniteSet(Proxy) /\ Quantum \in Nat
    /\ Weight \in [Proxy -> Nat \ {0}]
    /\ \A p \in Proxy : Quantum % Weight[p] = 0
    /\ Evals \in Nat \ {0} /\ MaxClock \in Nat
    /\ Modes \subseteq [shared : BOOLEAN,           \* zfair, or the local selector only
                        members : SUBSET Instance,  \* the instances that serve
                        catalogs : SUBSET Listing,  \* what the store may list
                        creates : Nat,              \* bound: creates of an instance
                        horizon : Clock,             \* bound on the clock
                        lag : Nat,                  \* ticks a create may last
                        faulty : BOOLEAN]           \* Redis may fail

VARIABLES
    mode,
    clock,     \* milliseconds, the same for all instances
    catalog,   \* what the store lists
    node,      \* node[p]: the hash of p in Redis, for the p that have one
    ready,     \* ready[p]: the score of p in the ready set, for its members
    delayed,   \* delayed[p]: the same for the delayed set
    stage,        \* stage[i]: where the create on i is
    left,      \* left[i]: the creates i has still to begin
    view,      \* view[i]: the eligible candidates of the create
    stamp,     \* stamp[i]: the clock when the request was built
    todo,      \* todo[i]: candidates whose node i has still to write
    synced,    \* synced[i]: the candidates of the last sync, and its time
    plan,      \* plan[i]: the scores i has read for the ready set
    tries,     \* tries[i]: evaluations of the create so far
    answer,    \* answer[i]: the proxy of the last create of i
    charged,   \* charged[p]: how often a script picked p
    credit,    \* credit[i]: the map of the local selector
    waited     \* waited[i][p]: local selections in which p was eligible
               \* and not picked, since it was last picked or not eligible

redisVars == <<node, ready, delayed, charged>>
localVars == <<credit, waited>>
selectVars == <<mode, clock, catalog, redisVars, localVars, stage, left, view, stamp,
          todo, synced, plan, tries, answer>>

Remote == {"syncing", "evaluating", "seeding", "placing", "fallback"}

SelectionTypeOK ==
    /\ mode \in Modes /\ clock \in Clock /\ catalog \in Listing
    /\ DOMAIN node \subseteq Proxy
    /\ \A p \in DOMAIN node : node[p] \in [until : Clock, next : Clock, runtime : Nat]
    /\ DOMAIN ready \subseteq Proxy /\ \A p \in DOMAIN ready : ready[p] \in Nat
    /\ delayed \in Listing
    /\ stage \in [Instance -> Remote \union {"idle", "local"}]
    /\ left \in [Instance -> Nat] /\ tries \in [Instance -> 0 .. Evals]
    /\ view \in [Instance -> Listing] /\ stamp \in [Instance -> Clock]
    /\ todo \in [Instance -> SUBSET Proxy]
    /\ \A i \in Instance : /\ DOMAIN plan[i] \subseteq Proxy
                           /\ DOMAIN credit[i] \subseteq Proxy
    /\ answer \in [Instance -> Proxy \union {None, Refusal}]
    /\ charged \in [Proxy -> Nat] /\ waited \in [Instance -> [Proxy -> Nat]]

Empty == [p \in {} |-> 0]

SelectInit ==
    /\ mode \in Modes
    /\ clock = 0
    /\ catalog \in mode.catalogs
    /\ node = Empty /\ ready = Empty /\ delayed = Empty
    /\ stage = [i \in Instance |-> "idle"]
    /\ left = [i \in Instance |-> mode.creates]
    /\ view = [i \in Instance |-> Empty]
    /\ stamp = [i \in Instance |-> 0]
    /\ todo = [i \in Instance |-> {}]
    /\ synced = [i \in Instance |-> [of |-> Empty, at |-> 0]]
    /\ plan = [i \in Instance |-> Empty]
    /\ tries = [i \in Instance |-> 0]
    /\ answer = [i \in Instance |-> None]
    /\ charged = [p \in Proxy |-> 0]
    /\ credit = [i \in Instance |-> Empty]
    /\ waited = [i \in Instance |-> [p \in Proxy |-> 0]]

-----------------------------------------------------------------------------
(* Sets of Redis, as functions                                             *)

Without(f, S) == Restrict(f, DOMAIN f \ S)

With(f, g) ==
    [p \in DOMAIN f \union DOMAIN g |-> IF p \in DOMAIN g THEN g[p] ELSE f[p]]

(* The member of S with the lowest score; of several, the first one. *)
Before(score, p, q) == score[p] < score[q] \/ (score[p] = score[q] /\ p <= q)

Lowest(score, S) == CHOOSE p \in S : \A q \in S : Before(score, p, q)

-----------------------------------------------------------------------------
(* The scripts: functions of the three keys                                *)

Charge(p) == Quantum \div Weight[p]

Keys == [node |-> node, ready |-> ready, delayed |-> delayed]

(* The moment from which a node may be picked. *)
Due(x) == IF x.until > x.next THEN x.until ELSE x.next

(* Places the nodes S: into the ready set, or into the delayed set while a *)
(* circuit or a later clock forbids them.  The circuit is looked at first. *)
Place(k, S, t) ==
    LET late == {p \in S : Due(k.node[p]) > t} IN
    [k EXCEPT !.ready = With(k.ready, [p \in S \ late |-> k.node[p].runtime]),
              !.delayed = With(k.delayed,
                  [p \in late |-> IF k.node[p].until > t THEN k.node[p].until
                                  ELSE k.node[p].next])]

Adopt(k, allowed, t) ==
    Place(k, (allowed \intersect DOMAIN k.node)
                 \ (DOMAIN k.ready \union DOMAIN k.delayed), t)

Promote(k, allowed, t) ==
    LET due == {p \in DOMAIN k.delayed : k.delayed[p] <= t}
        back == due \intersect allowed \intersect DOMAIN k.node
    IN  [k EXCEPT !.delayed = Without(k.delayed, due),
                  !.ready = With(k.ready, [p \in back |-> k.node[p].runtime])]

Rebuild(k, allowed, t) ==
    LET S == allowed \intersect DOMAIN k.node
        again == {p \in S : Due(k.node[p]) <= t}
    IN  IF k.ready # Empty THEN k
        ELSE [Place(k, S, t) EXCEPT !.delayed = Without(@, again)]

Prepared(k, allowed, t) ==
    Rebuild(Promote(Adopt(k, allowed, t), allowed, t), allowed, t)

Pickable(k, allowed, t) ==
    {p \in DOMAIN k.ready \intersect allowed \intersect DOMAIN k.node :
        Due(k.node[p]) <= t}

(* The scan pops members until one can be picked: those before it are      *)
(* dropped with their nodes, or delayed.                                   *)
Popped(k, allowed, t) ==
    LET S == Pickable(k, allowed, t) IN
    IF S = {} THEN DOMAIN k.ready
    ELSE {p \in DOMAIN k.ready : p # Lowest(k.ready, S) /\ Before(k.ready, p, Lowest(k.ready, S))}

Scanned(k, allowed, t) ==
    LET gone == Popped(k, allowed, t)
        late == gone \intersect allowed \intersect DOMAIN k.node
        bare == [k EXCEPT !.ready = Without(k.ready, gone),
                          !.node = Without(k.node, gone \ allowed)]
    IN  Place(bare, late, t)

(* Seeded fault: the new score is written to the hash and not to the set. *)
PaidInHash(k, p, t) ==
    [k EXCEPT !.node[p].runtime = k.ready[p] + Charge(p), !.node[p].next = t]

(* What the picked proxy pays. *)
Paid(k, p, t) ==
    LET v == k.ready[p] + Charge(p) IN
    [k EXCEPT !.ready[p] = v, !.node[p].runtime = v, !.node[p].next = t]

-----------------------------------------------------------------------------
(* The instances                                                           *)

Enter(i, where) == stage' = [stage EXCEPT ![i] = where]

Give(i, a) == Enter(i, "idle") /\ answer' = [answer EXCEPT ![i] = a]

(* The script ran and its reply is lost: the create goes on elsewhere. *)
Lost(i, where) == mode.faulty /\ Enter(i, where) /\ UNCHANGED answer

SetKeys(k) == node' = k.node /\ ready' = k.ready /\ delayed' = k.delayed

allowed(i) == DOMAIN view[i]

(* The candidates are listed and filtered, the request is built.  Without  *)
(* an eligible candidate no selector is asked.                             *)
BeginCreate(i) ==
    LET eligible == Restrict(catalog, {p \in DOMAIN catalog : catalog[p] <= clock}) IN
    /\ stage[i] = "idle" /\ i \in mode.members
    /\ mode.shared => left[i] > 0
    /\ left' = [left EXCEPT ![i] = IF mode.shared THEN @ - 1 ELSE @]
    /\ view' = [view EXCEPT ![i] = eligible]
    /\ stamp' = [stamp EXCEPT ![i] = clock]
    /\ tries' = [tries EXCEPT ![i] = 0]
    /\ todo' = [todo EXCEPT ![i] = DOMAIN eligible]
    /\ IF eligible = Empty THEN Give(i, Refusal)
       ELSE Enter(i, IF mode.shared THEN "syncing" ELSE "local") /\ UNCHANGED answer
    /\ UNCHANGED <<redisVars, localVars, synced, plan>>

(* The same candidates were written less than a tick ago. *)
UpToDate(i) == synced[i].of = view[i] /\ synced[i].at = clock

SkipSync(i) ==
    /\ stage[i] = "syncing" /\ todo[i] = allowed(i) /\ UpToDate(i)
    /\ todo' = [todo EXCEPT ![i] = {}]
    /\ Enter(i, "evaluating")
    /\ UNCHANGED <<redisVars, localVars, left, view, stamp, synced, plan, tries, answer>>

(* Seeded fault: a new node is eligible from the next tick on. *)
WriteNodeLater(i) ==
    \E p \in todo[i] :
        /\ stage[i] = "syncing"
        /\ node' = With(node, [q \in {p} |->
               IF p \in DOMAIN node THEN [node[p] EXCEPT !.until = view[i][p]]
               ELSE [until |-> view[i][p], next |-> clock + 1, runtime |-> 0]])
        /\ todo' = [todo EXCEPT ![i] = @ \ {p}]
        /\ UNCHANGED <<ready, delayed, charged, localVars, stage, left, view, stamp,
                       synced, plan, tries, answer>>

(* Other commands run between those of the pipeline.  A hash without a     *)
(* runtime counts as one with runtime 0.                                   *)
WriteNode(i) ==
    \E p \in todo[i] :
        /\ stage[i] = "syncing"
        /\ node' = With(node, [q \in {p} |->
               IF p \in DOMAIN node THEN [node[p] EXCEPT !.until = view[i][p]]
               ELSE [until |-> view[i][p], next |-> 0, runtime |-> 0]])
        /\ todo' = [todo EXCEPT ![i] = @ \ {p}]
        /\ UNCHANGED <<ready, delayed, charged, localVars, stage, left, view, stamp,
                       synced, plan, tries, answer>>

EndSync(i) ==
    /\ stage[i] = "syncing" /\ todo[i] = {}
    /\ synced' = [synced EXCEPT ![i] = [of |-> view[i], at |-> stamp[i]]]
    /\ Enter(i, "evaluating")
    /\ UNCHANGED <<redisVars, localVars, left, view, stamp, todo, plan, tries, answer>>

(* The select script. *)
Evaluate(i) ==
    LET t == stamp[i]
        k == Prepared(Keys, allowed(i), t)
        S == Pickable(k, allowed(i), t)
        p == Lowest(k.ready, S)
        scanned == Scanned(k, allowed(i), t)
    IN
    /\ stage[i] = "evaluating"
    /\ IF S = {}
       THEN /\ SetKeys(scanned)
            /\ Enter(i, "seeding")
            /\ UNCHANGED <<answer, charged>>
       ELSE /\ SetKeys(Paid(scanned, p, t))
            /\ charged' = [charged EXCEPT ![p] = @ + 1]
            /\ Give(i, p) \/ Lost(i, "seeding")
    /\ UNCHANGED <<localVars, left, view, stamp, todo, synced, plan, tries>>

(* After an empty answer the candidates are put into the ready set: their  *)
(* runtimes are read, and written as scores by a pipeline that follows.    *)
(* The rebuild in the middle of the evaluations does the same; the lock it *)
(* takes delays the others and keeps nobody out.                           *)
SeedRead(i) ==
    /\ stage[i] = "seeding"
    /\ plan' = [plan EXCEPT ![i] =
           [p \in allowed(i) |-> IF p \in DOMAIN node THEN node[p].runtime ELSE 0]]
    /\ Enter(i, "placing")
    /\ UNCHANGED <<redisVars, localVars, left, view, stamp, todo, synced, tries, answer>>

(* Seeded fault: ZINCRBY instead of ZADD. *)
SeededOnTop(i) ==
    With(ready, [p \in DOMAIN plan[i] |->
                    plan[i][p] + (IF p \in DOMAIN ready THEN ready[p] ELSE 0)])

Seeded(i) == With(ready, plan[i])

TryAgain(i) ==
    /\ plan' = [plan EXCEPT ![i] = Empty]
    /\ tries' = [tries EXCEPT ![i] = @ + 1]
    /\ Enter(i, IF tries[i] + 1 < Evals THEN "evaluating" ELSE "fallback")
    /\ UNCHANGED <<node, delayed, charged, localVars, left, view, stamp, todo, synced, answer>>

SeedWrite(i) == stage[i] = "placing" /\ ready' = Seeded(i) /\ TryAgain(i)

SeedFails(i) ==
    /\ mode.faulty /\ stage[i] \in {"seeding", "placing"}
    /\ UNCHANGED ready
    /\ TryAgain(i)

(* Seeded fault: an empty answer is no reason for the local selector. *)
EmptyAnswerRefused(i) == Give(i, Refusal)

EmptyAnswer(i) == Enter(i, "local") /\ UNCHANGED answer

(* The fallback script asks the hashes, with a clock of its own, and       *)
(* leaves the sets alone.                                                  *)
Fallback(i) ==
    LET S == {p \in allowed(i) \intersect DOMAIN node : node[p].until <= clock} IN
    /\ stage[i] = "fallback"
    /\ IF S = {} THEN EmptyAnswer(i) /\ UNCHANGED <<node, charged>>
       ELSE \E p \in S :
              /\ \A q \in S : node[p].runtime <= node[q].runtime
              /\ node' = [node EXCEPT ![p].runtime = @ + Charge(p), ![p].next = clock]
              /\ charged' = [charged EXCEPT ![p] = @ + 1]
              /\ Give(i, p) \/ Lost(i, "local")
    /\ UNCHANGED <<ready, delayed, localVars, left, view, stamp, todo, synced, plan, tries>>

(* Redis is gone, or its time is up; the answers of the scripts are never    *)
(* malformed, nor stale.                                                   *)
RedisFails(i) ==
    /\ mode.faulty
    /\ stage[i] \in Remote
    /\ Enter(i, "local")
    /\ UNCHANGED <<redisVars, localVars, left, view, stamp, todo, synced, plan, tries, answer>>

-----------------------------------------------------------------------------
(* The local selector                                                      *)

TotalWeight(S) == FoldFunctionOnSet(LAMBDA a, b : a + b, 0, Weight, S)

(* Proxies that are not eligible lose their entry; the others gain their   *)
(* weight, and the one with the most pays for all.                         *)
Raised(i) ==
    [p \in allowed(i) |->
        Weight[p] + (IF p \in DOMAIN credit[i] THEN credit[i][p] ELSE 0)]

Richest(gain) ==
    CHOOSE p \in DOMAIN gain :
        \A q \in DOMAIN gain : gain[p] > gain[q] \/ (gain[p] = gain[q] /\ p <= q)

(* Seeded fault: the picked proxy pays its own weight. *)
Cost1(S, p) == Weight[p]

Cost(S, p) == TotalWeight(S)

LocalSelect(i) ==
    LET gain == Raised(i)
        p == Richest(gain)
    IN
    /\ stage[i] = "local"
    /\ credit' = [credit EXCEPT ![i] = [gain EXCEPT ![p] = @ - Cost(allowed(i), p)]]
    /\ waited' = [waited EXCEPT ![i] =
           [q \in Proxy |-> IF q \in allowed(i) \ {p} THEN waited[i][q] + 1 ELSE 0]]
    /\ Give(i, p)
    /\ UNCHANGED <<redisVars, left, view, stamp, todo, synced, plan, tries>>

-----------------------------------------------------------------------------
InstanceStep(i) ==
    /\ \/ BeginCreate(i)
       \/ SkipSync(i) \/ WriteNode(i) \/ EndSync(i)
       \/ Evaluate(i) \/ SeedRead(i) \/ SeedWrite(i) \/ SeedFails(i) \/ Fallback(i)
       \/ RedisFails(i)
       \/ LocalSelect(i)
    /\ UNCHANGED <<mode, clock, catalog>>

(* Proxies are added, removed, disabled or have their circuit opened. *)
Change ==
    /\ catalog' \in mode.catalogs \ {catalog}
    /\ UNCHANGED <<mode, clock, redisVars, localVars, stage, left, view, stamp, todo,
                   synced, plan, tries, answer>>

(* Bound: a create lasts at most mode.lag ticks. *)
ClockTick ==
    /\ clock < mode.horizon
    /\ \A i \in Instance : stage[i] # "idle" => clock < stamp[i] + mode.lag
    /\ clock' = clock + 1
    /\ UNCHANGED <<mode, catalog, redisVars, localVars, stage, left, view, stamp, todo,
                   synced, plan, tries, answer>>

SelectNext == (\E i \in Instance : InstanceStep(i)) \/ Change \/ ClockTick

SelectSpec == SelectInit /\ [][SelectNext]_selectVars

-----------------------------------------------------------------------------
(* Properties                                                              *)

(* A create that found an eligible proxy is not refused, and is given one  *)
(* of those it found: whatever becomes of Redis, of the nodes that other   *)
(* instances with other candidates delete, and of a clock that another     *)
(* instance has moved on.                                                  *)
NeverRefusedInVain ==
    \A i \in Instance :
        stage[i] = "idle" /\ answer[i] # None =>
            IF view[i] = Empty THEN answer[i] = Refusal ELSE answer[i] \in allowed(i)

(* No proxy pays for more selections than it got. *)
NeverOvercharged ==
    /\ \A p \in DOMAIN node : node[p].runtime <= charged[p] * Charge(p)
    /\ \A p \in DOMAIN ready : ready[p] <= charged[p] * Charge(p)

(* While the candidates stay the same, all of them without a circuit, and  *)
(* Redis answers within the tick a create began in, the instances together *)
(* share out their creates by weight: no proxy is ahead of another by more *)
(* than one selection.  (Creates that the clock overtakes are not always   *)
(* charged: a script with an older clock passes over what later ones have  *)
(* picked, and the scores its instance then puts back were read before.)   *)
Steady ==
    /\ mode.catalogs = {catalog} /\ \A p \in DOMAIN catalog : catalog[p] = 0
    /\ mode.lag = 0 /\ ~mode.faulty

FairTogether ==
    Steady =>
        \A p, q \in DOMAIN catalog :
            charged[p] * Charge(p) <= charged[q] * Charge(q) + Charge(p)

(* However candidates come and go, no proxy saves up or owes more credit   *)
(* than a round for each of the others is worth, so that what has been     *)
(* cannot starve it or let it take all, and no eligible proxy waits longer *)
(* than its weight takes to make up for twice as much.                     *)
CreditIsBounded ==
    LET most == (Cardinality(Proxy) - 1) * TotalWeight(Proxy) IN
    \A i \in Instance :
        /\ \A p \in DOMAIN credit[i] : credit[i][p] \in -most .. most
        /\ \A p \in Proxy : Weight[p] * waited[i][p] <= 2 * most
=============================================================================
