------------------------------ MODULE HostSafety ------------------------------
(***************************************************************************)
(* May a lease be created for this host?  (internal/control/service.go:    *)
(* isSafeHost and its helpers.)  Host names are resolved; concurrent       *)
(* lookups of one host are coalesced, and only the answer "unsafe" is kept *)
(* for a while.  Names and addresses that are judged without a lookup are  *)
(* left out.                                                               *)
(*                                                                         *)
(* A section under hostSafetyMu is one step.  A lookup may last Patience   *)
(* ticks, the timeout of the resolver; everything else is done within the  *)
(* tick.                                                                   *)
(***************************************************************************)
EXTENDS Integers, FiniteSets, Functions

CONSTANTS
    Host,
    Check,       \* calls of isSafeHost, each with a context of its own
    HostOf,      \* HostOf[c]: the host c asks about
    Impatient,   \* bound: the checks whose context may end
    KeepTime,    \* hostSafetyTTL
    CacheMax,    \* hostSafetyCacheMax
    Patience,    \* the timeout of a lookup
    Horizon,     \* bound: the clock stops here
    Changes,     \* bound: how often the DNS changes
    Nobody       \* "no lookup of the host is under way"

Moment == 0 .. Horizon
Record == {"public", "internal", "failing"}

ASSUME HostAssumption ==
    /\ HostOf \in [Check -> Host]
    /\ {KeepTime, CacheMax, Patience} \subseteq Nat \ {0}
    /\ Horizon \in Nat /\ Changes \in Nat
    /\ Impatient \subseteq Check /\ Nobody \notin Check

VARIABLES
    moment,     \* the clock
    dns,        \* dns[h]: what the resolver would answer
    last,       \* last[h][r]: when it would last have answered r; -1 for never
    changes,    \* how often the DNS has changed
    kept,       \* kept[h]: when the entry of h in the cache ends
    inflight,   \* inflight[h]: the check that resolves h for all
    step,       \* step[c]: where check c is
    owner,      \* owner[c]: the check whose lookup c waits for
    since,      \* since[c]: when the lookup of c began
    found,      \* found[c]: what the lookup of c was answered
    outcome,    \* outcome[c]: what c, as owner, has told those that wait
    gone,       \* checks whose context has ended
    verdict     \* verdict[c]: what c has returned within this tick

worldVars == <<moment, dns, last, changes>>
hostVars == <<worldVars, kept, inflight, step, owner, since, found, outcome, gone,
              verdict>>

HostTypeOK ==
    /\ moment \in Moment
    /\ dns \in [Host -> Record] /\ last \in [Host -> [Record -> Moment \union {-1}]]
    /\ changes \in 0 .. Changes
    /\ DOMAIN kept \subseteq Host /\ Cardinality(DOMAIN kept) <= CacheMax
    /\ inflight \in [Host -> Check \union {Nobody}]
    /\ step \in [Check -> {"idle", "joining", "waiting", "resolving", "keeping",
                           "finishing", "done"}]
    /\ owner \in [Check -> Check \union {Nobody}]
    /\ since \in [Check -> Moment]
    /\ found \in [Check -> Record]
    /\ outcome \in [Check -> {"none", "safe", "unsafe", "retry"}]
    /\ gone \in SUBSET Check
    /\ verdict \in [Check -> {"none", "safe", "unsafe"}]

HostInit ==
    /\ moment = 0 /\ changes = 0
    /\ dns \in [Host -> Record]
    /\ last = [h \in Host |-> [r \in Record |-> IF r = dns[h] THEN 0 ELSE -1]]
    /\ kept = [h \in {} |-> 0]
    /\ inflight = [h \in Host |-> Nobody]
    /\ step = [c \in Check |-> "idle"]
    /\ owner = [c \in Check |-> Nobody]
    /\ since = [c \in Check |-> 0]
    /\ found = [c \in Check |-> "failing"]
    /\ outcome = [c \in Check |-> "none"]
    /\ gone = {}
    /\ verdict = [c \in Check |-> "none"]

-----------------------------------------------------------------------------
Move(c, where) == step' = [step EXCEPT ![c] = where]

Decide(c, v) ==
    /\ Move(c, "done")
    /\ verdict' = [verdict EXCEPT ![c] = v]

(* lookupHostSafety: entries are unsafe, and end. *)
Kept(h) == h \in DOMAIN kept /\ moment < kept[h]

Ask(c) ==
    /\ step[c] = "idle"
    /\ IF Kept(HostOf[c]) THEN Decide(c, "unsafe")
       ELSE Move(c, "joining") /\ UNCHANGED verdict
    /\ UNCHANGED <<kept, inflight, owner, since, found, outcome>>

(* Seeded fault: the call is put into the map before the look whether      *)
(* there is one, so that the first check waits as well, for itself.        *)
JoinOwn(c) ==
    LET h == HostOf[c]
        first == IF inflight[h] = Nobody THEN c ELSE inflight[h]
    IN
    /\ step[c] = "joining"
    /\ inflight' = [inflight EXCEPT ![h] = first]
    /\ owner' = [owner EXCEPT ![c] = first]
    /\ Move(c, "waiting")
    /\ UNCHANGED verdict
    /\ UNCHANGED <<kept, since, found, outcome>>

(* beginHostSafetyLookup: the first one resolves, the others wait for it. *)
Join(c) ==
    LET h == HostOf[c] IN
    /\ step[c] = "joining"
    /\ IF inflight[h] = Nobody
       THEN /\ inflight' = [inflight EXCEPT ![h] = c]
            /\ since' = [since EXCEPT ![c] = moment]
            /\ Move(c, "resolving")
            /\ UNCHANGED owner
       ELSE /\ owner' = [owner EXCEPT ![c] = inflight[h]]
            /\ Move(c, "waiting")
            /\ UNCHANGED <<inflight, since>>
    /\ UNCHANGED verdict
    /\ UNCHANGED <<kept, found, outcome>>

(* The resolver answers with what held at some moment of the lookup; one   *)
(* that is silent until the timeout is "failing".                          *)
Resolve(c) ==
    /\ step[c] = "resolving"
    /\ \E r \in Record :
           /\ last[HostOf[c]][r] >= since[c]
           /\ found' = [found EXCEPT ![c] = r]
    /\ Move(c, "keeping")
    /\ UNCHANGED verdict
    /\ UNCHANGED <<kept, inflight, owner, since, outcome>>

(* The context of the lookup ends with that of its owner. *)
ResolveNothing(c) ==
    /\ step[c] = "resolving" /\ c \in gone
    /\ found' = [found EXCEPT ![c] = "failing"]
    /\ Move(c, "keeping")
    /\ UNCHANGED verdict
    /\ UNCHANGED <<kept, inflight, owner, since, outcome>>

(* Seeded fault: without the second look nothing more is dropped. *)
RoomOnce(h) ==
    {IF Cardinality(DOMAIN kept) < CacheMax THEN DOMAIN kept
     ELSE {g \in DOMAIN kept : moment < kept[g]}}

(* storeHostSafety: a full cache drops what has ended, or any one entry. *)
Room(h) ==
    LET fresh == {g \in DOMAIN kept : moment < kept[g]} IN
    CASE Cardinality(DOMAIN kept) < CacheMax -> {DOMAIN kept}
      [] Cardinality(DOMAIN kept) >= CacheMax /\ Cardinality(fresh) < CacheMax -> {fresh}
      [] OTHER -> {fresh \ {g} : g \in fresh}

Keep(h) ==
    \E stay \in Room(h) :
        kept' = [g \in stay \union {h} |->
                    IF g = h THEN moment + KeepTime ELSE kept[g]]

(* Seeded fault: an owner that was canceled tells the others "unsafe". *)
Told1(c) == IF c \notin gone /\ found[c] = "public" THEN "safe" ELSE "unsafe"

(* What the owner makes of the answer: its own end is looked at first. *)
Told(c) ==
    IF c \in gone THEN "retry"
    ELSE IF found[c] = "public" THEN "safe" ELSE "unsafe"

(* The end of resolveHostSafety, whose locals are forgotten.  A context    *)
(* that ends after it changes nothing.                                     *)
Conclude(c) ==
    /\ step[c] = "keeping"
    /\ IF c \notin gone /\ found[c] = "internal" THEN Keep(HostOf[c]) ELSE UNCHANGED kept
    /\ outcome' = [outcome EXCEPT ![c] = Told(c)]
    /\ found' = [found EXCEPT ![c] = "failing"]
    /\ since' = [since EXCEPT ![c] = 0]
    /\ Move(c, "finishing")
    /\ UNCHANGED verdict
    /\ UNCHANGED <<inflight, owner>>

(* Seeded fault: the lookup is not taken out of the map. *)
FinishLookupInPlace(c) ==
    /\ step[c] = "finishing"
    /\ Decide(c, IF outcome[c] = "safe" THEN "safe" ELSE "unsafe")
    /\ UNCHANGED <<kept, inflight, owner, since, found, outcome>>

(* finishHostSafetyLookup *)
FinishLookup(c) ==
    /\ step[c] = "finishing"
    /\ inflight' = [inflight EXCEPT ![HostOf[c]] = Nobody]
    /\ Decide(c, IF outcome[c] = "safe" THEN "safe" ELSE "unsafe")
    /\ UNCHANGED <<kept, owner, since, found, outcome>>

(* The lookup of owner[c] is finished; a check that goes on after the      *)
(* owner was canceled begins anew.                                         *)
Wake(c) ==
    /\ step[c] = "waiting" /\ step[owner[c]] = "done"
    /\ IF outcome[owner[c]] = "retry" /\ c \notin gone
       THEN Move(c, "joining") /\ UNCHANGED verdict
       ELSE Decide(c, IF outcome[owner[c]] = "safe" THEN "safe" ELSE "unsafe")
    /\ UNCHANGED <<kept, inflight, owner, since, found, outcome>>

LeaveQueue(c) ==
    /\ step[c] = "waiting" /\ c \in gone
    /\ Decide(c, "unsafe")
    /\ UNCHANGED <<kept, inflight, owner, since, found, outcome>>

CheckStep(c) ==
    /\ \/ Ask(c) \/ Join(c) \/ Resolve(c) \/ ResolveNothing(c)
       \/ Conclude(c) \/ FinishLookup(c) \/ Wake(c) \/ LeaveQueue(c)
    /\ UNCHANGED <<worldVars, gone>>

(* The caller of c goes away or has waited enough. *)
End(c) ==
    /\ c \in Impatient \ gone /\ step[c] \notin {"idle", "done"}
    /\ gone' = gone \union {c}
    /\ UNCHANGED <<worldVars, kept, inflight, step, owner, since, found, outcome,
                   verdict>>

ChangeDNS ==
    \E h \in Host, r \in Record :
        /\ changes < Changes /\ r # dns[h]
        /\ changes' = changes + 1
        /\ dns' = [dns EXCEPT ![h] = r]
        /\ last' = [last EXCEPT ![h][r] = moment]
        /\ UNCHANGED <<moment, kept, inflight, step, owner, since, found, outcome,
                       gone, verdict>>

(* Time passes while checks wait for a resolver, and only then. *)
Resting(c) ==
    \/ step[c] \in {"idle", "done"}
    \/ step[c] = "resolving" /\ moment < since[c] + Patience
    \/ step[c] = "waiting" /\ step[owner[c]] # "done"

HostTick ==
    /\ moment < Horizon /\ \A c \in Check : Resting(c)
    /\ moment' = moment + 1
    /\ last' = [h \in Host |-> [last[h] EXCEPT ![dns[h]] = moment + 1]]
    /\ verdict' = [c \in Check |-> "none"]
    /\ UNCHANGED <<dns, changes, kept, inflight, step, owner, since, found, outcome,
                   gone>>

HostNext == (\E c \in Check : CheckStep(c) \/ End(c)) \/ ChangeDNS \/ HostTick

(* A lookup ends with its timeout at the latest. *)
HostSpec ==
    HostInit /\ [][HostNext]_hostVars /\ \A c \in Check : WF_hostVars(CheckStep(c))

-----------------------------------------------------------------------------
(* Properties                                                              *)

Lately(h, age, r) == last[h][r] >= 0 /\ moment - age <= last[h][r]

(* "Safe" is never an old answer: the host had a public address within the *)
(* timeout of one lookup before the verdict, whoever resolved it.          *)
SafeIsRecent ==
    \A c \in Check : verdict[c] = "safe" => Lately(HostOf[c], Patience, "public")

(* "Unsafe" has a cause.  A check whose context goes on is not refused     *)
(* because that of another one ended: the host was internal when a lookup  *)
(* that is still kept was made, or it could not be resolved just now.      *)
RefusedForCause ==
    \A c \in Check \ gone :
        verdict[c] = "unsafe" =>
            \/ Lately(HostOf[c], Patience + KeepTime - 1, "internal")
            \/ Lately(HostOf[c], Patience, "failing")

(* Every check ends, however often the owner it waits for is canceled. *)
EveryCheckEnds == \A c \in Check : step[c] # "idle" ~> step[c] = "done"
=============================================================================
