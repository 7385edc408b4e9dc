------------------------------ MODULE ProxyHealth ------------------------------
(***************************************************************************)
(* Proxy health: what gateway requests report about the proxies they used  *)
(* (internal/server/gateway.go), the recorder of one process that queues,  *)
(* coalesces and writes it (internal/control/health/recorder.go), and the  *)
(* health columns of the proxy rows in each of the three stores            *)
(* (internal/storage: mysql.go, sqlite.go, memory.go).                     *)
(*                                                                         *)
(* The recorder has two goroutines: the flush loop, and whoever calls      *)
(* Close.  Either drains the queue and writes it, delta by delta.  A       *)
(* statement is sent, commits and is answered in three steps, between      *)
(* which its context may be canceled; one that failed may commit later.    *)
(*                                                                         *)
(* Times are ticks that remain, so that there is no clock.                 *)
(***************************************************************************)
EXTENDS Integers, SequencesExt

CONSTANTS
    Proxy,
    Deployments,  \* the deployments to consider
    Full,         \* the best health score
    Reward,       \* SuccessReward
    Penalties,    \* FailurePenalty, whatever the kind
    Threshold,    \* CircuitOpenThreshold
    BaseCooldown, MaxCooldown,
    MaxFlight,    \* bound: requests under way per proxy
    MaxEvents,    \* bound: no deployment reports more outcomes than this
    NoRow         \* "no update of this proxy is under way"

(* A deployment: its storage driver, its proxies, the capacity of its       *)
(* queue, whether statements fail, whether admins write proxies, and how   *)
(* many outcomes are reported (a bound).                                   *)
Deployment ==
    [driver : {"mysql", "sqlite", "memory"}, proxies : SUBSET Proxy, buffer : Nat \ {0},
     faulty : BOOLEAN, admins : BOOLEAN, events : 0 .. MaxEvents]

ASSUME HealthAssumption ==
    /\ Full \in Nat \ {0} /\ Reward \in Nat \ {0}
    /\ Penalties \subseteq Nat \ {0}
    /\ Threshold \in Nat \ {0}
    /\ BaseCooldown \in Nat \ {0} /\ MaxCooldown \in Nat \ {0}
    /\ MaxFlight \in Nat /\ MaxEvents \in Nat
    /\ Deployments \subseteq Deployment

(* A row of proxies; `cool` is what remains of circuit_open_until.  *)
Row == [healthy : BOOLEAN, score : 0 .. Full, failures : Nat, cool : 0 .. MaxCooldown]

(* An outcome: the penalty it carries, none if the request succeeded.      *)
(* Outcomes are numbered in the order in which they are reported.          *)
Event == [proxy : Proxy, penalty : Penalties \union {0}, id : 1 .. MaxEvents]

(* A delta stands for a failure, or for some successes in a row. *)
Delta == [proxy : Proxy, penalty : Penalties \union {0}, ids : SUBSET (1 .. MaxEvents)]

Writer == {"loop", "closer"}

VARIABLES
    site,       \* this deployment
    row,        \* row[p]: the health columns of proxy p
    flight,     \* flight[p]: gateway requests under way through p
    reported,   \* how many outcomes have been reported
    queue,      \* CoalescingRecorder.events
    closed,     \* CoalescingRecorder.closed, done and the cancel of ctx
    loop,       \* where the flush loop is
    closer,     \* where Close is
    expired,    \* the context of Close is over
    batch,      \* batch[w]: the deltas writer w has yet to write
    attempt,    \* attempt[w]: which attempt at the first of them this is
    sent,       \* sent[w]: what has become of the statement of that attempt
    stray,      \* deltas of failed statements that may yet commit
    held,       \* held[p]: the row an admin request has read and will write
    hits        \* hits[e]: how often outcome e was applied (history)

gatewayVars == <<flight, reported>>
closeVars == <<closed, closer, expired>>
writeVars == <<batch, attempt, sent>>
vars == <<site, row, gatewayVars, queue, closeVars, loop, writeVars, stray, held, hits>>

TypeOK ==
    /\ site \in Deployments
    /\ row \in [Proxy -> Row]
    /\ flight \in [Proxy -> 0 .. MaxFlight]
    /\ reported \in 0 .. site.events
    /\ queue \in Seq(Event) /\ Len(queue) <= site.buffer
    /\ closed \in BOOLEAN /\ expired \in BOOLEAN
    /\ loop \in {"waiting", "ticked", "writing", "stopped"}
    /\ closer \in {"idle", "waiting", "writing", "done"}
    /\ batch \in [Writer -> Seq(Delta)]
    /\ attempt \in [Writer -> {1, 2}]
    /\ sent \in [Writer -> {"no", "sent", "committed"}]
    /\ stray \in SUBSET (Delta \X {1, 2})
    /\ held \in [Proxy -> Row \union {NoRow}]
    /\ hits \in [1 .. MaxEvents -> Nat]

Init ==
    /\ site \in Deployments
    /\ row = [p \in Proxy |-> [healthy |-> TRUE, score |-> Full, failures |-> 0, cool |-> 0]]
    /\ flight = [p \in Proxy |-> 0] /\ reported = 0
    /\ queue = <<>>
    /\ closed = FALSE /\ loop = "waiting"
    /\ closer = "idle" /\ expired = FALSE
    /\ batch = [w \in Writer |-> <<>>]
    /\ attempt = [w \in Writer |-> 1]
    /\ sent = [w \in Writer |-> "no"]
    /\ stray = {}
    /\ held = [p \in Proxy |-> NoRow]
    /\ hits = [e \in 1 .. MaxEvents |-> 0]

-----------------------------------------------------------------------------
(* RecordProxyOutcome                                                      *)

AtMost(n, m) == IF n < m THEN n ELSE m
AtLeast(n, m) == IF n > m THEN n ELSE m

(* An open circuit stays open until its time is over. *)
Rewarded(x, n) ==
    [x EXCEPT !.failures = 0, !.score = AtMost(Full, x.score + n * Reward)]

(* SQLite also takes a success for proof of health. *)
Success(x, n) ==
    IF site.driver = "sqlite" THEN [Rewarded(x, n) EXCEPT !.healthy = TRUE]
    ELSE Rewarded(x, n)

Punished(x, penalty) ==
    [x EXCEPT !.failures = x.failures + 1, !.score = AtLeast(0, x.score - penalty)]

Opened(x, n) == [x EXCEPT !.cool = AtMost(MaxCooldown, n * BaseCooldown)]

(* MySQL assigns from left to right: when the circuit is decided, the       *)
(* column already holds the new number of failures, and one is added again. *)
MySQLFailure(x, penalty) ==
    LET y == Punished(x, penalty)
        n == y.failures + 1
    IN  IF n >= Threshold THEN Opened(y, n) ELSE y

(* SQLite also marks the proxy unhealthy. *)
SQLiteFailure(x, penalty) ==
    LET y == Punished(x, penalty)
        n == y.failures
    IN  IF n >= Threshold THEN [Opened(y, n) EXCEPT !.healthy = FALSE] ELSE y

MemoryFailure(x, penalty) ==
    LET y == Punished(x, penalty)
        n == y.failures
    IN  IF n >= Threshold THEN Opened(y, n) ELSE y

Failure(x, penalty) ==
    CASE site.driver = "mysql"  -> MySQLFailure(x, penalty)
      [] site.driver = "sqlite" -> SQLiteFailure(x, penalty)
      [] site.driver = "memory" -> MemoryFailure(x, penalty)

(* The row after a success n times over, or after a failure. *)
Outcome(x, penalty, n) == IF penalty = 0 THEN Success(x, n) ELSE Failure(x, penalty)

Apply(d) ==
    /\ row' = [row EXCEPT ![d.proxy] = Outcome(@, d.penalty, Cardinality(d.ids))]
    /\ hits' = [e \in 1 .. MaxEvents |-> IF e \in d.ids THEN hits[e] + 1 ELSE hits[e]]

-----------------------------------------------------------------------------
(* Gateway requests                                                        *)

Selectable(x) == x.healthy /\ x.score > 0 /\ x.cool = 0

(* ValidateGatewayRequest lets a request or a tunnel through. *)
BeginRequest(p) ==
    /\ flight[p] < MaxFlight
    /\ Selectable(row[p])
    /\ flight' = [flight EXCEPT ![p] = @ + 1]
    /\ UNCHANGED <<site, row, reported, queue, closeVars, loop, writeVars, stray, held, hits>>

(* Seeded fault: a full queue grows. *)
QueuedWhenFull(e) == IF closed THEN queue ELSE Append(queue, e)

(* Seeded fault: a closed recorder still queues. *)
QueuedWhenClosed(e) ==
    IF Len(queue) = site.buffer THEN Append(Tail(queue), e) ELSE Append(queue, e)

(* RecordProxyResult: the oldest outcome gives way to the newest. *)
Queued(e) ==
    IF closed THEN queue
    ELSE IF Len(queue) = site.buffer THEN Append(Tail(queue), e)
    ELSE Append(queue, e)

(* A request fails or succeeds, a tunnel closes.  A tunnel for which the    *)
(* client connection cannot be had reports nothing.                        *)
EndRequest(p) ==
    /\ flight[p] > 0
    /\ flight' = [flight EXCEPT ![p] = @ - 1]
    /\ \/ /\ reported < site.events
          /\ reported' = reported + 1
          /\ \E x \in Penalties \union {0} :
                 queue' = Queued([proxy |-> p, penalty |-> x, id |-> reported + 1])
       \/ UNCHANGED <<reported, queue>>
    /\ UNCHANGED <<site, row, closeVars, loop, writeVars, stray, held, hits>>

-----------------------------------------------------------------------------
(* The recorder: draining                                                  *)

(* The delta of one outcome. *)
Alone(e) == [proxy |-> e.proxy, penalty |-> e.penalty, ids |-> {e.id}]

(* Seeded fault: a success after a failure joins the successes before it.  *)
MergeAcross(deltas, e) ==
    LET same == {j \in DOMAIN deltas : deltas[j].proxy = e.proxy /\ deltas[j].penalty = 0}
    IN  IF e.penalty = 0 /\ same # {}
        THEN [deltas EXCEPT ![Max(same)].ids = @ \union {e.id}]
        ELSE Append(deltas, Alone(e))

(* A success joins the last delta of its proxy, unless that is a failure. *)
Merge(deltas, e) ==
    LET same == {j \in DOMAIN deltas : deltas[j].proxy = e.proxy}
    IN  IF e.penalty = 0 /\ same # {} /\ deltas[Max(same)].penalty = 0
        THEN [deltas EXCEPT ![Max(same)].ids = @ \union {e.id}]
        ELSE Append(deltas, Alone(e))

Coalesce(events) == FoldLeft(Merge, <<>>, events)

Drain(w) ==
    /\ batch' = [batch EXCEPT ![w] = Coalesce(queue)]
    /\ queue' = <<>>
    /\ UNCHANGED <<attempt, sent>>

(* The ticker fires and the loop finds the recorder open. *)
LoopTick ==
    /\ loop = "waiting" /\ ~closed
    /\ loop' = "ticked"
    /\ UNCHANGED <<site, row, gatewayVars, queue, closeVars, writeVars, stray, held, hits>>

LoopDrain ==
    /\ loop = "ticked"
    /\ loop' = "writing"
    /\ Drain("loop")
    /\ UNCHANGED <<site, row, gatewayVars, closeVars, stray, held, hits>>

LoopDone ==
    /\ loop = "writing" /\ batch["loop"] = <<>>
    /\ loop' = "waiting"
    /\ UNCHANGED <<site, row, gatewayVars, queue, closeVars, writeVars, stray, held, hits>>

LoopStop ==
    /\ loop = "waiting" /\ closed
    /\ loop' = "stopped"
    /\ UNCHANGED <<site, row, gatewayVars, queue, closeVars, writeVars, stray, held, hits>>

(* Close: from here on nothing is queued, and the context of the loop is    *)
(* canceled.  Its second call, from the clean-up stack, does nothing.      *)
CloseBegin ==
    /\ closer = "idle"
    /\ closed' = TRUE
    /\ closer' = "waiting"
    /\ UNCHANGED <<site, row, gatewayVars, queue, expired, loop, writeVars, stray, held, hits>>

(* The deadline of Close passes. *)
CloseExpire ==
    /\ closer \in {"waiting", "writing"} /\ ~expired
    /\ expired' = TRUE
    /\ UNCHANGED <<site, row, gatewayVars, queue, closed, closer, loop, writeVars, stray, held, hits>>

CloseDrain ==
    /\ closer = "waiting"
    /\ loop = "stopped" \/ expired
    /\ closer' = "writing"
    /\ Drain("closer")
    /\ UNCHANGED <<site, row, gatewayVars, closed, expired, loop, stray, held, hits>>

CloseDone ==
    /\ closer = "writing" /\ batch["closer"] = <<>>
    /\ closer' = "done"
    /\ UNCHANGED <<site, row, gatewayVars, queue, closed, expired, loop, writeVars, stray, held, hits>>

-----------------------------------------------------------------------------
(* The recorder: writing                                                   *)

(* Seeded fault: the drain of Close runs under a context of its own. *)
CanceledLoopOnly(w) == site.driver # "memory" /\ w = "loop" /\ closed

(* The context of writer w is over.  The memory store does not look.       *)
Canceled(w) == site.driver # "memory" /\ IF w = "loop" THEN closed ELSE expired

Writing(w) == batch[w] # <<>>

(* Writer w is through with its first delta. *)
Advance(w) ==
    /\ batch' = [batch EXCEPT ![w] = Tail(@)]
    /\ attempt' = [attempt EXCEPT ![w] = 1]
    /\ sent' = [sent EXCEPT ![w] = "no"]

(* Seeded fault: it tries until it succeeds. *)
RetryForEver(w) ==
    /\ sent' = [sent EXCEPT ![w] = "no"]
    /\ UNCHANGED <<batch, attempt>>

Retry(w) ==
    /\ attempt[w] = 1
    /\ attempt' = [attempt EXCEPT ![w] = 2]
    /\ sent' = [sent EXCEPT ![w] = "no"]
    /\ UNCHANGED batch

Send(w) ==
    /\ Writing(w) /\ sent[w] = "no" /\ ~Canceled(w)
    /\ sent' = [sent EXCEPT ![w] = "sent"]
    /\ UNCHANGED <<site, row, gatewayVars, queue, closeVars, loop, batch, attempt, stray, held, hits>>

(* No statement is sent under a canceled context, on either attempt. *)
Refuse(w) ==
    /\ Writing(w) /\ sent[w] = "no" /\ Canceled(w)
    /\ Advance(w)
    /\ UNCHANGED <<site, row, gatewayVars, queue, closeVars, loop, stray, held, hits>>

Commit(w) ==
    /\ sent[w] = "sent"
    /\ Apply(Head(batch[w]))
    /\ sent' = [sent EXCEPT ![w] = "committed"]
    /\ UNCHANGED <<site, gatewayVars, queue, closeVars, loop, batch, attempt, stray, held>>

Reply(w) ==
    /\ sent[w] = "committed"
    /\ Advance(w)
    /\ UNCHANGED <<site, row, gatewayVars, queue, closeVars, loop, stray, held, hits>>

(* The statement fails, before or after its commit, or its context is      *)
(* canceled; the store may yet carry out what it has received.  Timeouts   *)
(* and connection errors are retried once, other errors are not.           *)
Fail(w) ==
    /\ sent[w] # "no"
    /\ site.driver # "memory" /\ (site.faulty \/ Canceled(w))
    /\ \/ UNCHANGED stray
       \/ sent[w] = "sent" /\ stray' = stray \union {<<Head(batch[w]), attempt[w]>>}
    /\ Retry(w) \/ Advance(w)
    /\ UNCHANGED <<site, row, gatewayVars, queue, closeVars, loop, held, hits>>

CommitStray ==
    \E s \in stray :
        /\ Apply(s[1])
        /\ stray' = stray \ {s}
        /\ UNCHANGED <<site, gatewayVars, queue, closeVars, loop, writeVars, held>>

-----------------------------------------------------------------------------
(* Admin writes                                                            *)

Blank(healthy) == [healthy |-> healthy, score |-> Full, failures |-> 0, cool |-> 0]

(* UpdateProxy with a body that says nothing of health starts anew, but    *)
(* for SQLite.                                                             *)
UpdateProxy(p) ==
    /\ site.admins /\ site.driver # "sqlite"
    /\ \E healthy \in BOOLEAN : row' = [row EXCEPT ![p] = Blank(healthy)]
    /\ UNCHANGED <<site, gatewayVars, queue, closeVars, loop, writeVars, stray, held, hits>>

(* UpdateProxyHealth, or UpdateProxy with SQLite, reads the row ...  With   *)
(* SQLite a score of 0 has it read again, and only the last read counts.   *)
ReadProxy(p) ==
    /\ site.admins /\ held[p] = NoRow
    /\ \E healthy \in BOOLEAN : held' = [held EXCEPT ![p] = [row[p] EXCEPT !.healthy = healthy]]
    /\ UNCHANGED <<site, row, gatewayVars, queue, closeVars, loop, writeVars, stray, hits>>

(* ... and writes all of it back. *)
WriteProxy(p) ==
    /\ held[p] # NoRow
    /\ row' = [row EXCEPT ![p] = held[p]]
    /\ held' = [held EXCEPT ![p] = NoRow]
    /\ UNCHANGED <<site, gatewayVars, queue, closeVars, loop, writeVars, stray, hits>>

Cooler(x) == [x EXCEPT !.cool = AtLeast(0, x.cool - 1)]

Tick ==
    /\ \E p \in Proxy : row[p].cool > 0 \/ (held[p] # NoRow /\ held[p].cool > 0)
    /\ row' = [p \in Proxy |-> Cooler(row[p])]
    /\ held' = [p \in Proxy |-> IF held[p] = NoRow THEN NoRow ELSE Cooler(held[p])]
    /\ UNCHANGED <<site, gatewayVars, queue, closeVars, loop, writeVars, stray, hits>>

-----------------------------------------------------------------------------
Loop == LoopTick \/ LoopDrain \/ LoopDone \/ LoopStop

Close == CloseBegin \/ CloseExpire \/ CloseDrain \/ CloseDone

Write(w) == Send(w) \/ Refuse(w) \/ Commit(w) \/ Reply(w) \/ Fail(w)

Next ==
    \/ \E p \in site.proxies :
          BeginRequest(p) \/ EndRequest(p) \/ UpdateProxy(p) \/ ReadProxy(p) \/ WriteProxy(p)
    \/ Loop \/ Close
    \/ \E w \in Writer : Write(w)
    \/ CommitStray
    \/ Tick

Spec == Init /\ [][Next]_vars

(* Goroutines run, time passes, and a call whose context is over returns.  *)
(* Nobody says that a database ever answers; the memory store does.        *)
Fairness ==
    /\ WF_vars(Tick)
    /\ WF_vars(LoopDrain) /\ WF_vars(LoopDone) /\ WF_vars(LoopStop)
    /\ WF_vars(CloseExpire) /\ WF_vars(CloseDrain) /\ WF_vars(CloseDone)
    /\ \A w \in Writer :
          /\ WF_vars(Send(w)) /\ WF_vars(Refuse(w))
          /\ WF_vars(Canceled(w) /\ Fail(w))
          /\ WF_vars(site.driver = "memory" /\ (Commit(w) \/ Reply(w)))

FairSpec == Spec /\ Fairness

-----------------------------------------------------------------------------
(* Properties                                                              *)

(* What a delta, or some written in turn, make of a row x of proxy p. *)
After(x, p, d) == IF d.proxy = p THEN Outcome(x, d.penalty, Cardinality(d.ids)) ELSE x

Written(x, p, deltas) == FoldLeft(LAMBDA y, d : After(y, p, d), x, deltas)

(* Writing the queue as it would be coalesced now leaves every row as if   *)
(* its outcomes were written one by one: failures keep their place among   *)
(* the successes, of which only the order and the number matter.           *)
CoalesceIsFaithful ==
    \A p \in Proxy :
        Written(row[p], p, Coalesce(queue))
            = Written(row[p], p, [i \in DOMAIN queue |-> Alone(queue[i])])

(* An outcome is counted twice at the worst, although a statement that     *)
(* timed out is sent again, may have committed before and may yet commit.  *)
AtMostTwice == \A e \in 1 .. MaxEvents : hits[e] <= 2

(* When Close has returned, nothing is in the queue, and nothing will be:  *)
(* what was taken from it has been handed to the store once at least, or   *)
(* was in a flush that was canceled, and nothing is accepted any more.     *)
NothingLeftBehind == closer = "done" => queue = <<>>

(* Close returns, even if the store never answers. *)
CloseReturns == closer = "waiting" ~> closer = "done"

(* A proxy that no request uses any more because it failed is skipped for  *)
(* a while only: then it is tried again.                                   *)
SkippedForAWhile ==
    \A p \in Proxy : flight[p] = 0 /\ ~Selectable(row[p]) ~> Selectable(row[p])
=============================================================================
