------------------------------- MODULE Ledger -------------------------------
(***************************************************************************)
(* The tables of usage and audit events: the batch endpoints and handlers  *)
(* that append to them (internal/server/server.go, gateway.go), the three  *)
(* stores that do it, and the retention command that deletes from them     *)
(* (cmd/proxyharbor/ops.go).                                               *)
(*                                                                         *)
(* A call appends its events in one transaction, one statement each, and   *)
(* leaves out those whose row there is.  A reporter that has no answer, or *)
(* a bad one, sends the batch again, while the first attempt may still be  *)
(* under way on another connection.                                        *)
(***************************************************************************)
EXTENDS Integers, Sequences, FiniteSets, Functions

CONSTANTS
    Event,
    EventID, TenantID,   \* functions on Event
    NoID, NoTenant,      \* the empty string as one of them
    Old,        \* events that occurred before the cutoff of the retention
    Call,       \* calls that append
    Table,      \* Table[c]: where
    Route,      \* Route[c]: "batch" for the two endpoints, "handler" for
                \* the gateway and the admin handlers
    Events,     \* Events[c]: what
    Worker,     \* connections to the database
    Stores,     \* the stores considered
    NoJob       \* "no transaction"

Tables == {"usage", "audit"}

ASSUME LedgerAssumption ==
    /\ Old \subseteq Event
    /\ Table \in [Call -> Tables] /\ Route \in [Call -> {"batch", "handler"}]
    /\ DOMAIN Events = Call /\ \A c \in Call : Events[c] \in Seq(Event)
    \* an event happens once and is reported by one call; what two calls
    \* may have in common is the ID
    /\ \A c, d \in Call : \A m \in 1 .. Len(Events[c]), n \in 1 .. Len(Events[d]) :
           Events[c][m] = Events[d][n] => c = d
    /\ Stores \subseteq {"mysql", "sqlite", "memory"}

VARIABLES
    store,    \* the store this deployment runs on
    events,   \* events[t]: the rows of table t, by primary key
    job,      \* job[w]: the transaction of w, or NoJob
    answer,   \* answer[c]: what the caller knows
    sweep,    \* where the retention command is, and its tables
    taken     \* history: the keys the retention has deleted, by table

ledgerVars == <<store, events, job, answer, sweep, taken>>

LedgerInit ==
    /\ store \in Stores
    /\ events = [t \in Tables |-> << >>]
    /\ job = [w \in Worker |-> NoJob]
    /\ answer = [c \in Call |-> "none"]
    /\ sweep = [phase |-> "none", tables |-> {}]
    /\ taken = [t \in Tables |-> {}]

-----------------------------------------------------------------------------
(* Calls                                                                   *)

Listed(c) == {Events[c][n] : n \in 1 .. Len(Events[c])}

(* Events without an ID are passed over. *)
Named(c) == {e \in Listed(c) : EventID[e] # NoID}

(* The memory store keeps the events of each tenant apart, the tables have *)
(* the ID alone for a key.                                                 *)
PrimaryKey(e) ==
    <<EventID[e], IF store = "memory" THEN TenantID[e] ELSE NoTenant>>

(* The endpoints refuse a batch with an event of no tenant. *)
Refused(c) == Route[c] = "batch" /\ \E e \in Listed(c) : TenantID[e] = NoTenant

(* A reporter stops when a batch is accepted or refused; the handlers       *)
(* write once and ignore what comes of it.                                 *)
Sends(c) == answer[c] = "none" \/ (Route[c] = "batch" /\ answer[c] = "failed")

Hear(c, what) ==
    answer' = [answer EXCEPT ![c] =
                  IF Route[c] = "handler" THEN "ignored" ELSE IF @ = "accepted" THEN @ ELSE what]

Refuse(c) ==
    /\ Sends(c) /\ Refused(c)
    /\ Hear(c, "refused")
    /\ UNCHANGED <<store, events, job, sweep, taken>>

-----------------------------------------------------------------------------
(* A transaction of the MySQL or the SQLite store                          *)

UnderWay(w) == job[w] # NoJob

(* Rows of f, and those of g whose key f has not. *)
Over(f, g) ==
    [k \in DOMAIN f \union DOMAIN g |-> IF k \in DOMAIN f THEN f[k] ELSE g[k]]

RowOf(e) == [k \in {PrimaryKey(e)} |-> e]

(* The SQLite store has one connection. *)
BeginAppend(w, c) ==
    /\ Sends(c) /\ ~Refused(c) /\ Named(c) # {}
    /\ ~UnderWay(w) /\ (store = "sqlite" => \A v \in Worker : ~UnderWay(v))
    /\ job' = [job EXCEPT ![w] = [call |-> c, left |-> Events[c], staged |-> << >>]]
    /\ IF Route[c] = "handler" THEN Hear(c, "ignored") ELSE UNCHANGED answer
    /\ UNCHANGED <<store, events, sweep, taken>>

(* Another transaction has inserted the key, or holds the lock of the file. *)
Blocked(w, k) ==
    \/ \E v \in Worker \ {w} :
           UnderWay(v) /\ Table[job[v].call] = Table[job[w].call] /\ k \in DOMAIN job[v].staged
    \/ sweep.phase = "locked"

(* Seeded fault: INSERT OR REPLACE. *)
InsertOrReplace(w) ==
    LET e == Head(job[w].left) IN
    /\ UnderWay(w) /\ job[w].left # << >> /\ ~Blocked(w, PrimaryKey(e))
    /\ job' = [job EXCEPT ![w].left = Tail(@),
                          ![w].staged = IF EventID[e] = NoID THEN @ ELSE Over(RowOf(e), @)]
    /\ UNCHANGED <<store, events, answer, sweep, taken>>

(* Seeded fault: no transaction, every statement commits. *)
InsertAndCommit(w) ==
    LET e == Head(job[w].left)  t == Table[job[w].call] IN
    /\ UnderWay(w) /\ job[w].left # << >> /\ ~Blocked(w, PrimaryKey(e))
    /\ job' = [job EXCEPT ![w].left = Tail(@)]
    /\ events' = IF EventID[e] = NoID THEN events
                 ELSE [events EXCEPT ![t] = Over(@, RowOf(e))]
    /\ UNCHANGED <<store, answer, sweep, taken>>

(* INSERT IGNORE of the next event. *)
InsertEvent(w) ==
    LET e == Head(job[w].left)
        held == DOMAIN job[w].staged \union DOMAIN events[Table[job[w].call]]
    IN  /\ UnderWay(w) /\ job[w].left # << >> /\ ~Blocked(w, PrimaryKey(e))
        /\ job' = [job EXCEPT ![w] =
                      [call |-> @.call, left |-> Tail(@.left),
                       staged |-> IF EventID[e] = NoID \/ PrimaryKey(e) \in held THEN @.staged
                                  ELSE Over(@.staged, RowOf(e))]]
        /\ UNCHANGED <<store, events, answer, sweep, taken>>

(* The answer may be lost on its way, or be an error of the connection. *)
CommitAppend(w) ==
    LET c == job[w].call IN
    /\ UnderWay(w) /\ job[w].left = << >>
    /\ events' = [events EXCEPT ![Table[c]] = Over(job[w].staged, @)]
    /\ job' = [job EXCEPT ![w] = NoJob]
    /\ (Hear(c, "accepted") \/ Hear(c, "failed"))
    /\ UNCHANGED <<store, sweep, taken>>

(* AppendAuditEvents of the MySQL store answers as if all went well. *)
Swallows(c) == store = "mysql" /\ Table[c] = "audit"

(* A statement fails, is canceled or chosen to end a deadlock, or the      *)
(* process ends: nothing is written.                                       *)
AppendFails(w) ==
    /\ UnderWay(w)
    /\ job' = [job EXCEPT ![w] = NoJob]
    /\ \/ Hear(job[w].call, "failed")
       \/ Swallows(job[w].call) /\ Hear(job[w].call, "accepted")
    /\ UNCHANGED <<store, events, sweep, taken>>

MySQLAppend(w) ==
    /\ store = "mysql"
    /\ (\E c \in Call : BeginAppend(w, c)) \/ InsertEvent(w) \/ CommitAppend(w) \/ AppendFails(w)

SQLiteAppend(w) ==
    /\ store = "sqlite"
    /\ (\E c \in Call : BeginAppend(w, c)) \/ InsertEvent(w) \/ CommitAppend(w) \/ AppendFails(w)

(* The memory store: under its mutex, and the later event counts. *)
MemoryAppend(c) ==
    /\ store = "memory" /\ Sends(c) /\ ~Refused(c) /\ Named(c) # {}
    /\ \E last \in [{PrimaryKey(e) : e \in Named(c)} -> Named(c)] :
          /\ \A k \in DOMAIN last : PrimaryKey(last[k]) = k
          /\ events' = [events EXCEPT ![Table[c]] = Over(last, @)]
    /\ (Hear(c, "accepted") \/ Hear(c, "failed"))
    /\ UNCHANGED <<store, job, sweep, taken>>

-----------------------------------------------------------------------------
(* retention --execute, on the file of the SQLite store                    *)

Sweep(phase, tables) == sweep' = [phase |-> phase, tables |-> tables]

(* There is a statement for each table whose retention is not 0. *)
Policies == SUBSET Tables \ {{}}

StartRetention ==
    /\ store = "sqlite" /\ sweep.phase = "none"
    /\ \E S \in Policies : Sweep("begun", S)
    /\ UNCHANGED <<store, events, job, answer, taken>>

(* The first DELETE takes the lock of the file, which a transaction has    *)
(* that has executed a statement.                                          *)
DeleteOld ==
    /\ sweep.phase = "begun"
    /\ \A w \in Worker : UnderWay(w) => job[w].left = Events[job[w].call]
    /\ Sweep("locked", sweep.tables)
    /\ UNCHANGED <<store, events, job, answer, taken>>

OldKeys(t) == {k \in DOMAIN events[t] : events[t][k] \in Old}

CommitRetention ==
    /\ sweep.phase = "locked"
    /\ events' = [t \in Tables |->
                     IF t \in sweep.tables
                     THEN Restrict(events[t], DOMAIN events[t] \ OldKeys(t)) ELSE events[t]]
    /\ taken' = [t \in Tables |->
                    IF t \in sweep.tables THEN taken[t] \union OldKeys(t) ELSE taken[t]]
    /\ Sweep("none", {})
    /\ UNCHANGED <<store, job, answer>>

(* The database is busy, or the command is killed. *)
RetentionFails ==
    /\ sweep.phase # "none"
    /\ Sweep("none", {})
    /\ UNCHANGED <<store, events, job, answer, taken>>

LedgerNext ==
    \/ \E w \in Worker : MySQLAppend(w) \/ SQLiteAppend(w)
    \/ \E c \in Call : Refuse(c) \/ MemoryAppend(c)
    \/ StartRetention \/ DeleteOld \/ CommitRetention \/ RetentionFails

LedgerSpec == LedgerInit /\ [][LedgerNext]_ledgerVars

-----------------------------------------------------------------------------
(* Properties                                                              *)

Written(c, e) == PrimaryKey(e) \in DOMAIN events[Table[c]] \union taken[Table[c]]

(* A batch is written whole or not at all, and whole when it was accepted, *)
(* whichever of its statements fails, however often it is sent and even    *)
(* when two attempts run side by side.  (An audit batch the MySQL store    *)
(* accepts may not be written at all.)                                     *)
WholeBatches ==
    \A c \in Call :
        (\/ answer[c] = "accepted" /\ ~Swallows(c)
         \/ \E k \in DOMAIN events[Table[c]] : events[Table[c]][k] \in Named(c))
        => \A e \in Named(c) : Written(c, e)

(* An event counts once and for what it said first: a row stays as it is   *)
(* until the retention takes it, and that takes old ones.  (The memory     *)
(* store lets a later event take the place of an earlier one.)             *)
RowsAreFinal ==
    [][store # "memory" =>
          \A t \in Tables : \A k \in DOMAIN events[t] :
              IF k \in DOMAIN events'[t] THEN events'[t][k] = events[t][k]
              ELSE events[t][k] \in Old]_ledgerVars
=============================================================================
