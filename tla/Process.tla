------------------------------- MODULE Process -------------------------------
(***************************************************************************)
(* The life of one process (cmd/proxyharbor/main.go): it starts stage by   *)
(* stage, serves, and on a signal drains, shuts down in four phases that   *)
(* share one budget of time, reports how that went, and exits.  Around it  *)
(* are the requests, forwards and tunnels it serves (internal/server/:     *)
(* server.go, gateway.go), the recorder of their outcomes (internal/       *)
(* control/health/recorder.go), its background tasks, and a load balancer  *)
(* that asks /readyz.                                                      *)
(*                                                                         *)
(* Time counts from the moment the drain starts.  The main goroutine does  *)
(* what it can do within the tick; everybody else may take any time.       *)
(***************************************************************************)
EXTENDS Integers, Sequences, FiniteSets, SequencesExt

CONSTANTS
    Request,     \* requests that may be sent; each is sent once
    Forward,     \* those the gateway forwards
    Connect,     \* those that open a tunnel through it; the rest is the API
    Task,        \* background tasks
    Stages,      \* the stages of the start that may fail
    Total,       \* ShutdownTimeout
    Second,      \* the longest drain
    ProbeEvery   \* the load balancer asks at least so often

ASSUME ProcessAssumption ==
    /\ Forward \subseteq Request /\ Connect \subseteq Request
    /\ Forward \intersect Connect = {}
    /\ {Stages, Total, Second, ProbeEvery} \subseteq Nat \ {0}

VARIABLES
    main,        \* where the main goroutine is
    begun,       \* stages of the start that are done
    signaled,    \* SIGINT or SIGTERM has come
    listener,    \* the listener and the goroutine that serves it
    elapsed,     \* ticks since the drain began
    deadline,    \* when the current phase ends at the latest
    conn,        \* conn[r]: where request r is
    task,        \* task[b]: where task b is
    buffered,    \* requests whose outcome waits in the recorder
    flushing,    \* those its loop is writing
    loss,        \* why outcomes were lost, if any were
    result,      \* the reported result of the shutdown
    serverErr,   \* the error main has received from the listener
    code,        \* the exit code
    routed,      \* the load balancer sends requests here
    probeAge     \* ticks since its last probe

mainVars == <<main, begun, elapsed, deadline, result, serverErr, code>>
recorderVars == <<buffered, flushing, loss>>
balancerVars == <<routed, probeAge>>
processVars == <<mainVars, signaled, listener, conn, task, recorderVars, balancerVars>>

Phases == {"draining", "http", "tunnels", "background", "health"}

Gateway == Forward \union Connect

(* Where a request is while it is served: in its handler; forwarded, until *)
(* the proxy answers, and its answer copied; dialing the proxy, a tunnel,  *)
(* and a tunnel that one of its ends, or the shutdown, has closed.         *)
Handled == {"handling", "forwarding", "copying", "dialing"}
Running == Handled \union {"tunnel", "ending", "aborting"}

ProcessTypeOK ==
    /\ main \in Phases \union {"starting", "serving", "exited"}
    /\ begun \in 0 .. Stages /\ signaled \in BOOLEAN
    /\ listener \in {"none", "open", "failed", "closed"}
    /\ elapsed \in Nat /\ deadline \in Nat
    /\ conn \in [Request -> Running \union {"none", "done", "aborted", "refused", "cut"}]
    /\ task \in [Task -> {"off", "running", "stopped", "cut"}]
    /\ buffered \subseteq Request /\ flushing \subseteq Request
    /\ loss \subseteq {"store", "canceled", "late", "closed"}
    /\ result \in {"none", "graceful", "error", "killed"}
    /\ serverErr \in BOOLEAN /\ code \in 0 .. 2
    /\ routed \in BOOLEAN /\ probeAge \in 0 .. ProbeEvery

ProcessInit ==
    /\ main = "starting" /\ begun = 0 /\ signaled = FALSE
    /\ listener = "none" /\ elapsed = 0 /\ deadline = 0
    /\ conn = [r \in Request |-> "none"]
    /\ task = [b \in Task |-> "off"]
    /\ buffered = {} /\ flushing = {} /\ loss = {}
    /\ result = "none" /\ serverErr = FALSE /\ code = 0
    /\ routed = FALSE /\ probeAge = 0

-----------------------------------------------------------------------------
(* The budget                                                              *)

DrainDelay == IF Total < 2 * Second THEN Total \div 2 ELSE Second

(* splitShutdownBudget: what does not divide goes to the first phases. *)
Budget(k) ==
    (Total - DrainDelay) \div 4 + (IF k <= (Total - DrainDelay) % 4 THEN 1 ELSE 0)

-----------------------------------------------------------------------------
(* The end: the cleanups run in the reverse order.  What is still under    *)
(* way ends with the process, and so does what its memory holds.           *)

Exit(c) ==
    /\ main' = "exited" /\ code' = c
    /\ conn' = [r \in Request |->
                   IF conn[r] \in Running THEN "cut" ELSE conn[r]]
    /\ task' = [b \in Task |-> IF task[b] = "running" THEN "cut" ELSE task[b]]
    /\ listener' = IF listener = "open" THEN "closed" ELSE listener
    /\ deadline' = 0 /\ buffered' = {} /\ flushing' = {}

(* A stage opens the store, the cache, the selector, checks the schema,    *)
(* loads the keys, creates the default tenant or binds the address.  What  *)
(* a task does before the last one is not told apart from the start.       *)
StageDone ==
    /\ main = "starting" /\ begun < Stages
    /\ begun' = begun + 1
    /\ IF begun + 1 < Stages THEN UNCHANGED <<main, listener, task>>
       ELSE /\ main' = "serving" /\ listener' = "open"
            /\ task' = [b \in Task |-> "running"]
    /\ UNCHANGED <<elapsed, deadline, result, serverErr, code, conn, recorderVars>>

(* A dependency stays away for all attempts, or the signal came first. *)
StageFails ==
    /\ main = "starting"
    /\ Exit(1)
    /\ UNCHANGED <<begun, elapsed, result, serverErr, loss>>

-----------------------------------------------------------------------------
(* Shutting down                                                           *)

(* The context of the signal has ended: the tasks share it. *)
Stopping == signaled \/ listener = "failed"

Enter(next, budget) ==
    /\ main' = next
    /\ deadline' = elapsed + budget

Worse(bad) == result' = IF bad THEN "error" ELSE result

StartDraining ==
    /\ main = "serving" /\ Stopping
    /\ Enter("draining", DrainDelay)
    /\ result' = "graceful"
    /\ UNCHANGED <<begun, elapsed, serverErr, code, listener, conn, task, recorderVars>>

(* cancelGatewayShutdown ends the context of everything the gateway is     *)
(* doing for a request, see Canceled; srv.Shutdown closes the listener.    *)
CloseListener ==
    /\ main = "draining" /\ elapsed = deadline
    /\ Enter("http", Budget(1))
    /\ listener' = IF listener = "open" THEN "closed" ELSE listener
    /\ UNCHANGED <<begun, elapsed, result, serverErr, code, conn, task, recorderVars>>

(* Connections srv.Shutdown knows of: a tunnel has been taken from it. *)
Tracked == {r \in Request : conn[r] \in Handled}

HTTPDone ==
    /\ main = "http" /\ Tracked = {}
    /\ serverErr' = (listener = "failed")
    /\ Worse(listener = "failed")
    /\ Enter("tunnels", Budget(2))
    /\ UNCHANGED <<begun, elapsed, code, listener, conn, task, recorderVars>>

(* Seeded fault: srv.Shutdown is given no deadline. *)
HTTPTimeoutNever == FALSE /\ UNCHANGED processVars

(* Of an error of the listener and the end of the time, select takes one. *)
HTTPTimeout ==
    /\ main = "http" /\ elapsed = deadline
    /\ Worse(TRUE)
    /\ \/ serverErr' = (listener = "failed")
       \/ UNCHANGED serverErr
    /\ Enter("tunnels", Budget(2))
    /\ UNCHANGED <<begun, elapsed, code, listener, conn, task, recorderVars>>

(* Seeded fault: a tunnel is done before its outcome is recorded. *)
CountedWhileOpen == {r \in Connect : conn[r] \in {"dialing", "tunnel"}}

(* The wait group of the gateway. *)
Counted == {r \in Connect : conn[r] \in {"dialing", "tunnel", "ending", "aborting"}}

WaitForGatewayTunnels ==
    /\ main = "tunnels" /\ (Counted = {} \/ elapsed = deadline)
    /\ Worse(Counted # {})
    /\ Enter("background", Budget(3))
    /\ UNCHANGED <<begun, elapsed, serverErr, code, listener, conn, task, recorderVars>>

WaitForBackground ==
    LET busy == \E b \in Task : task[b] = "running" IN
    /\ main = "background" /\ (~busy \/ elapsed = deadline)
    /\ Worse(busy)
    /\ Enter("health", Budget(4))
    /\ UNCHANGED <<begun, elapsed, serverErr, code, listener, conn, task, recorderVars>>

Lost(S, why) == loss' = IF S = {} THEN loss ELSE loss \union {why}

(* The recorder has been closed: the loop is through with its batch, or the *)
(* deadline has come, and what is left is flushed.  The store takes it,     *)
(* fails, or is silent until the deadline.  Only that is an error.          *)
CloseRecorder ==
    /\ main = "health"
    /\ \/ flushing = {} /\ (UNCHANGED loss \/ Lost(buffered, "store")) /\ UNCHANGED result
       \/ elapsed = deadline /\ Worse(TRUE) /\ Lost(buffered \union flushing, "late")
    /\ Exit(IF serverErr THEN 1 ELSE 0)
    /\ UNCHANGED <<begun, elapsed, serverErr>>

MainStep ==
    /\ \/ StageDone \/ StageFails
       \/ StartDraining \/ CloseListener \/ HTTPDone \/ HTTPTimeout
       \/ WaitForGatewayTunnels \/ WaitForBackground \/ CloseRecorder
    /\ probeAge' \in IF main' = "draining" THEN 0 .. ProbeEvery - 1 ELSE {probeAge}
    /\ UNCHANGED <<signaled, routed>>

-----------------------------------------------------------------------------
(* Requests, tunnels and tasks                                             *)

Put(r, where) == conn' = [conn EXCEPT ![r] = where]

othersVars == <<mainVars, signaled, listener, balancerVars>>

(* The recorder takes no outcome once it is closed, and main closes it     *)
(* when it enters its last phase.                                          *)
Record(r) ==
    IF main = "health" THEN Lost({r}, "closed") /\ UNCHANGED <<buffered, flushing>>
    ELSE buffered' = buffered \union {r} /\ UNCHANGED <<flushing, loss>>

Send(r) ==
    /\ conn[r] = "none" /\ routed
    /\ Put(r, IF listener = "open" THEN "handling" ELSE "refused")
    /\ UNCHANGED <<othersVars, task, recorderVars>>

(* The API answers, or the gateway refuses the lease; only a proxy whose   *)
(* endpoint is no URL is recorded as having failed.                        *)
Answered(r) ==
    /\ conn[r] = "handling"
    /\ Put(r, "done") /\ (UNCHANGED recorderVars \/ (r \in Gateway /\ Record(r)))
    /\ UNCHANGED <<othersVars, task>>

(* From here on the context of the shutdown is a parent of the request's. *)
GoToProxy(r) ==
    /\ conn[r] = "handling" /\ r \in Gateway
    /\ Put(r, IF r \in Connect THEN "dialing" ELSE "forwarding")
    /\ UNCHANGED <<othersVars, task, recorderVars>>

(* The shutdown has canceled it. *)
Canceled == main \notin {"starting", "serving", "draining"}

(* What the gateway does for r ends by itself, or for that reason. *)
Ends(r) == Put(r, "done") \/ (Canceled /\ Put(r, "aborted"))

(* RoundTrip returns an error: a failure of the proxy is recorded, also    *)
(* when it was the shutdown that canceled the forward.                     *)
ForwardFails(r) ==
    /\ conn[r] = "forwarding"
    /\ Ends(r) /\ Record(r)
    /\ UNCHANGED <<othersVars, task>>

(* RoundTrip returns an answer, whose status is recorded. *)
Forwarded(r) ==
    /\ conn[r] = "forwarding"
    /\ Put(r, "copying") /\ Record(r)
    /\ UNCHANGED <<othersVars, task>>

(* The body is copied, or as much of it as there is. *)
Copied(r) ==
    /\ conn[r] = "copying"
    /\ Ends(r)
    /\ UNCHANGED <<othersVars, task, recorderVars>>

(* The proxy is not reached or refuses, or the connection cannot be taken  *)
(* over, which is not recorded.                                            *)
DialFails(r) ==
    /\ conn[r] = "dialing"
    /\ \/ Ends(r) /\ Record(r)
       \/ Put(r, "done") /\ UNCHANGED recorderVars
    /\ UNCHANGED <<othersVars, task>>

(* The handshake is done and the connection hijacked.  When the tunnels    *)
(* were told to end in between, this one ends at once.                     *)
Hijack(r) ==
    /\ conn[r] = "dialing"
    /\ Put(r, IF Canceled THEN "aborting" ELSE "tunnel")
    /\ UNCHANGED <<othersVars, task, recorderVars>>

(* One of the ends closes, or both are closed for the shutdown. *)
TunnelCloses(r) ==
    /\ conn[r] = "tunnel"
    /\ Put(r, "ending") \/ (Canceled /\ Put(r, "aborting"))
    /\ UNCHANGED <<othersVars, task, recorderVars>>

(* Usage and audit are written, then the outcome: a success. *)
TunnelEnds(r) ==
    /\ conn[r] \in {"ending", "aborting"}
    /\ Put(r, IF conn[r] = "ending" THEN "done" ELSE "aborted") /\ Record(r)
    /\ UNCHANGED <<othersVars, task>>

TaskStops(b) ==
    /\ task[b] = "running" /\ Stopping
    /\ task' = [task EXCEPT ![b] = "stopped"]
    /\ UNCHANGED <<othersVars, conn, recorderVars>>

(* The loop of the recorder flushes. *)
Flush ==
    /\ main \in {"serving"} \union (Phases \ {"health"})
    /\ buffered # {} /\ flushing = {}
    /\ flushing' = buffered /\ buffered' = {}
    /\ UNCHANGED <<loss, othersVars, conn, task>>

(* A batch the store does not take is gone, and so is one that was being   *)
(* written when Close canceled it.                                         *)
FlushEnds ==
    /\ flushing # {}
    /\ \/ UNCHANGED loss
       \/ Lost(flushing, IF main = "health" THEN "canceled" ELSE "store")
    /\ flushing' = {}
    /\ UNCHANGED <<buffered, othersVars, conn, task>>

Serving ==
    \/ \E r \in Request : \/ Send(r) \/ Answered(r) \/ GoToProxy(r)
                          \/ ForwardFails(r) \/ Forwarded(r) \/ Copied(r)
                          \/ DialFails(r) \/ Hijack(r) \/ TunnelCloses(r) \/ TunnelEnds(r)
    \/ \E b \in Task : TaskStops(b)
    \/ Flush \/ FlushEnds

-----------------------------------------------------------------------------
(* Outside                                                                 *)

Signal ==
    /\ ~signaled /\ main \in {"starting", "serving"}
    /\ signaled' = TRUE
    /\ UNCHANGED <<mainVars, listener, conn, task, recorderVars, balancerVars>>

(* Once main has gone on, a signal has its default effect. *)
SecondSignal ==
    /\ main \in Phases /\ Exit(2)
    /\ result' = "killed"
    /\ UNCHANGED <<begun, elapsed, serverErr, signaled, loss, balancerVars>>

ListenerFails ==
    /\ listener = "open"
    /\ listener' = "failed"
    /\ UNCHANGED <<mainVars, signaled, conn, task, recorderVars, balancerVars>>

(* Seeded fault: the process says that it drains when the tunnels end. *)
ReadyUntilClosed == main \in {"serving", "draining"}

(* evaluateReadiness, as far as the life of the process decides it. *)
Ready == main = "serving"

(* The answer may be bad for another reason: a dependency that fails, a    *)
(* subscription that is required and lost, keys that are not loaded.       *)
Probe ==
    /\ routed' \in {FALSE, Ready /\ listener = "open"}
    /\ probeAge' = 0
    /\ UNCHANGED <<mainVars, signaled, listener, conn, task, recorderVars>>

ProcessTick ==
    /\ main \in Phases /\ elapsed < deadline
    /\ probeAge < ProbeEvery
    /\ elapsed' = elapsed + 1 /\ probeAge' = probeAge + 1
    /\ UNCHANGED <<main, begun, deadline, result, serverErr, code, signaled, listener,
                   conn, task, recorderVars, routed>>

ProcessNext ==
    \/ MainStep \/ Serving \/ Signal \/ SecondSignal \/ ListenerFails
    \/ Probe \/ ProcessTick

(* The main goroutine runs, time passes and probes are sent; no request,   *)
(* tunnel or task need ever end.                                           *)
ProcessFairness == WF_processVars(MainStep) /\ WF_processVars(ProcessTick) /\ WF_processVars(Probe)

ProcessSpec == ProcessInit /\ [][ProcessNext]_processVars /\ ProcessFairness

-----------------------------------------------------------------------------
(* Properties                                                              *)

(* "Graceful" means that the listener did not fail, that nothing was still *)
(* running when the process ended, that every API request was answered,    *)
(* and that no outcome came when the recorder was closed or was left       *)
(* unwritten in it.  (It may have been refused by the store, or been in a  *)
(* flush that the closing canceled.)  It does not mean that nothing was    *)
(* cut short: the shutdown itself aborts what the gateway has under way,   *)
(* a forward or a dial as well as a tunnel, and waits for it to end.       *)
ResultTellsTheTruth ==
    main = "exited" /\ result = "graceful" =>
        /\ listener # "failed"
        /\ \A r \in Request :
              \/ conn[r] \in {"none", "refused", "done"}
              \/ conn[r] = "aborted" /\ r \in Gateway
        /\ \A b \in Task : task[b] # "cut"
        /\ loss \subseteq {"store", "canceled"}

(* A load balancer that probes more often than a drain lasts sends no      *)
(* request to a listener that the shutdown has closed.                     *)
NoRequestRefused ==
    ProbeEvery < DrainDelay /\ listener = "closed" /\ result # "killed" =>
        \A r \in Request : conn[r] # "refused"

(* A signal ends the process, whatever hangs, and within the configured     *)
(* time: the phases never add up to more.                                  *)
EndsInTime == (signaled ~> main = "exited") /\ [](elapsed <= Total)
=============================================================================
