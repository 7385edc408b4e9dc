-------------------------------- MODULE HotRead --------------------------------
(***************************************************************************)
(* The read cache one process keeps in memory for the default policy and   *)
(* for the list of selectable proxies (internal/control/service.go: the    *)
(* lookup, begin, finish and clear functions, twice the same shape), and   *)
(* the catalog writes that clear it.                                       *)
(*                                                                         *)
(* Readers that miss share one read of the store: the first becomes the    *)
(* owner of a call, the others wait for it.  A write stores its value and  *)
(* then clears the entry and starts a new epoch; a call of an older epoch  *)
(* answers its readers but leaves no entry, and nobody joins it any more.  *)
(*                                                                         *)
(* Contents are numbered in the order in which they are stored.            *)
(***************************************************************************)
EXTENDS Integers

CONSTANTS
    Reader,     \* calls that need the value; each runs once
    Writer,     \* catalog writes served by this process; each runs once
    TTL,        \* defaultPolicyTTL, selectableProxyTTL
    Blank,      \* contents that are not kept: an empty list of proxies
    MaxStored,  \* bound: so many contents are written
    MaxTime,    \* bound: the clock stops here
    NoEntry, NoCall, Failed

Time == 0 .. MaxTime
Content == 0 .. MaxStored

ASSUME HotReadAssumption ==
    /\ TTL \in Nat \ {0}
    /\ Blank \subseteq Nat
    /\ MaxStored \in Nat
    /\ MaxTime \in Nat
    /\ NoEntry \notin [value : Nat, until : Nat]
    /\ NoCall \notin Reader
    /\ Failed \notin Nat

VARIABLES
    now,        \* the clock
    stored,     \* the content of the store
    entry,      \* the cached content, or NoEntry
    epoch,      \* how often the entry has been cleared
    call,       \* the reader whose call new readers find, or NoCall
    callEpoch,  \* callEpoch[r]: the epoch of the call r owns
    pc,         \* pc[r]: where reader r is
    started,    \* started[r]: the time r took when it began
    joined,     \* joined[r]: the owner r waits for
    got,        \* got[r]: what r has read or was answered
    writing,    \* writing[w]: where writer w is
    wrote       \* wrote[w]: the content w has stored

(* History: the newest content whose write was answered; what it was when  *)
(* a reader began; when a content was replaced.                            *)
VARIABLES cleared, floor, replacedAt

cacheVars == <<entry, epoch, call, callEpoch>>
readerVars == <<pc, started, joined, got, floor>>
writerVars == <<writing, wrote, cleared>>
storeVars == <<stored, replacedAt>>
vars == <<now, cacheVars, readerVars, writerVars, storeVars>>

TypeOK ==
    /\ now \in Time
    /\ stored \in Content
    /\ entry \in [value : Content \ Blank, until : Nat] \union {NoEntry}
    /\ epoch \in Nat
    /\ call \in Reader \union {NoCall}
    /\ callEpoch \in [Reader -> Nat]
    /\ pc \in [Reader -> {"ready", "lookup", "begin", "reading", "finishing",
                          "waiting", "done"}]
    /\ started \in [Reader -> Time]
    /\ joined \in [Reader -> Reader \union {NoCall}]
    /\ got \in [Reader -> Content \union {Failed}]
    /\ writing \in [Writer -> {"ready", "written", "done"}]
    /\ wrote \in [Writer -> Content]
    /\ cleared \in Content
    /\ floor \in [Reader -> Content]
    /\ replacedAt \in [Content -> Time]

Init ==
    /\ now = 0
    /\ stored = 0 /\ replacedAt = [c \in Content |-> 0]
    /\ entry = NoEntry /\ epoch = 0
    /\ call = NoCall /\ callEpoch = [r \in Reader |-> 0]
    /\ pc = [r \in Reader |-> "ready"]
    /\ started = [r \in Reader |-> 0]
    /\ joined = [r \in Reader |-> NoCall]
    /\ got = [r \in Reader |-> Failed]
    /\ floor = [r \in Reader |-> 0]
    /\ writing = [w \in Writer |-> "ready"]
    /\ wrote = [w \in Writer |-> 0]
    /\ cleared = 0

-----------------------------------------------------------------------------
(* Readers                                                                 *)

Goto(r, label) == pc' = [pc EXCEPT ![r] = label]

Answer(r, x) == Goto(r, "done") /\ got' = [got EXCEPT ![r] = x]

(* The entry is compared with the time the reader took when it began. *)
Usable(r) == entry # NoEntry /\ entry.until > started[r]

Start(r) ==
    /\ pc[r] = "ready"
    /\ started' = [started EXCEPT ![r] = now]
    /\ floor' = [floor EXCEPT ![r] = cleared]
    /\ Goto(r, "lookup")
    /\ UNCHANGED <<now, cacheVars, joined, got, writerVars, storeVars>>

Lookup(r) ==
    /\ pc[r] = "lookup"
    /\ IF Usable(r) THEN Answer(r, entry.value) ELSE Goto(r, "begin") /\ UNCHANGED got
    /\ UNCHANGED <<now, cacheVars, started, joined, floor, writerVars, storeVars>>

(* Another reader has filled the entry in the meantime. *)
BeginHit(r) ==
    /\ pc[r] = "begin" /\ Usable(r)
    /\ Answer(r, entry.value)
    /\ UNCHANGED <<now, cacheVars, started, joined, floor, writerVars, storeVars>>

(* Seeded fault: a call of an older epoch will do. *)
JoinableInAnyEpoch == call # NoCall

Joinable == call # NoCall /\ callEpoch[call] = epoch

BeginJoin(r) ==
    /\ pc[r] = "begin" /\ ~Usable(r) /\ Joinable
    /\ joined' = [joined EXCEPT ![r] = call]
    /\ Goto(r, "waiting")
    /\ UNCHANGED <<now, cacheVars, started, got, floor, writerVars, storeVars>>

BeginOwn(r) ==
    /\ pc[r] = "begin" /\ ~Usable(r) /\ ~Joinable
    /\ call' = r
    /\ callEpoch' = [callEpoch EXCEPT ![r] = epoch]
    /\ Goto(r, "reading")
    /\ UNCHANGED <<now, entry, epoch, started, joined, got, floor, writerVars, storeVars>>

(* The store answers the owner, or fails, or the owner's caller gives up. *)
ReadStore(r) ==
    /\ pc[r] = "reading"
    /\ \E x \in {stored, Failed} : got' = [got EXCEPT ![r] = x]
    /\ Goto(r, "finishing")
    /\ UNCHANGED <<now, cacheVars, started, joined, floor, writerVars, storeVars>>

(* Seeded faults: an answer of any epoch, or a blank one, is kept. *)
KeepsAnyEpoch(r) == got[r] # Failed /\ got[r] \notin Blank

KeepsBlank(r) == got[r] # Failed /\ epoch = callEpoch[r]

(* The call r owns leaves an entry behind. *)
Keeps(r) == got[r] # Failed /\ got[r] \notin Blank /\ epoch = callEpoch[r]

(* Seeded faults: the TTL runs from the end of the read; a call that was    *)
(* overtaken by a write does not finish.                                   *)
FinishLate(r) ==
    /\ pc[r] = "finishing"
    /\ entry' = IF Keeps(r) THEN [value |-> got[r], until |-> now + TTL] ELSE entry
    /\ call' = IF call = r THEN NoCall ELSE call
    /\ Goto(r, "done")
    /\ UNCHANGED <<now, epoch, callEpoch, started, joined, got, floor, writerVars, storeVars>>

FinishOnlyCurrent(r) ==
    /\ pc[r] = "finishing" /\ epoch = callEpoch[r]
    /\ entry' = IF Keeps(r) THEN [value |-> got[r], until |-> started[r] + TTL] ELSE entry
    /\ call' = IF call = r THEN NoCall ELSE call
    /\ Goto(r, "done")
    /\ UNCHANGED <<now, epoch, callEpoch, started, joined, got, floor, writerVars, storeVars>>

(* A call that was replaced by one of a newer epoch leaves that one alone. *)
Finish(r) ==
    /\ pc[r] = "finishing"
    /\ entry' = IF Keeps(r) THEN [value |-> got[r], until |-> started[r] + TTL] ELSE entry
    /\ call' = IF call = r THEN NoCall ELSE call
    /\ Goto(r, "done")
    /\ UNCHANGED <<now, epoch, callEpoch, started, joined, got, floor, writerVars, storeVars>>

(* The owner's answer, its error included, is the answer of all. *)
Share(r) ==
    /\ pc[r] = "waiting" /\ pc[joined[r]] = "done"
    /\ Answer(r, got[joined[r]])
    /\ UNCHANGED <<now, cacheVars, started, joined, floor, writerVars, storeVars>>

(* The caller of a waiting reader gives up. *)
StopWaiting(r) ==
    /\ pc[r] = "waiting"
    /\ Answer(r, Failed)
    /\ UNCHANGED <<now, cacheVars, started, joined, floor, writerVars, storeVars>>

-----------------------------------------------------------------------------
(* Writers                                                                 *)

Store ==
    /\ stored < MaxStored
    /\ stored' = stored + 1
    /\ replacedAt' = [replacedAt EXCEPT ![stored] = now]

Write(w) ==
    /\ writing[w] = "ready"
    /\ Store
    /\ writing' = [writing EXCEPT ![w] = "written"]
    /\ wrote' = [wrote EXCEPT ![w] = stored + 1]
    /\ UNCHANGED <<now, cacheVars, readerVars, cleared>>

Later(x, y) == IF x < y THEN y ELSE x

(* clearDefaultPolicy, clearSelectableProxies; then the write is answered. *)
Clear(w) ==
    /\ writing[w] = "written"
    /\ entry' = NoEntry
    /\ epoch' = epoch + 1
    /\ writing' = [writing EXCEPT ![w] = "done"]
    /\ cleared' = Later(cleared, wrote[w])
    /\ UNCHANGED <<now, call, callEpoch, readerVars, wrote, storeVars>>

(* A write of another process, or one that commits and reports an error:   *)
(* this cache is not cleared.                                              *)
WriteElsewhere ==
    /\ Store
    /\ UNCHANGED <<now, cacheVars, readerVars, writerVars>>

Tick ==
    /\ now < MaxTime
    /\ now' = now + 1
    /\ UNCHANGED <<cacheVars, readerVars, writerVars, storeVars>>

Begin(r) == BeginHit(r) \/ BeginJoin(r) \/ BeginOwn(r)

Step(r) == Lookup(r) \/ Begin(r) \/ ReadStore(r) \/ Finish(r) \/ Share(r)

Next ==
    \/ \E r \in Reader : Start(r) \/ Step(r) \/ StopWaiting(r)
    \/ \E w \in Writer : Write(w) \/ Clear(w)
    \/ WriteElsewhere
    \/ Tick

Spec == Init /\ [][Next]_vars

(* A goroutine that can run does, and a query of the store returns. *)
FairSpec == Spec /\ \A r \in Reader : WF_vars(Step(r))

-----------------------------------------------------------------------------
(* Properties                                                              *)

(* A reader that begins after a catalog write was answered by this process *)
(* never sees anything older, not even if it joins a call or finds an      *)
(* entry made by a read that was under way during the write.               *)
ReadYourWrites ==
    \A r \in Reader :
        pc[r] = "done" /\ got[r] # Failed => got[r] >= floor[r]

(* Whoever does not wait for somebody else's read gets a content that was  *)
(* in the store less than a TTL before it began: writes of other processes *)
(* are seen within a TTL, however long a read takes.                       *)
StaleForLessThanTTL ==
    \A r \in Reader :
        pc[r] = "done" /\ joined[r] = NoCall /\ got[r] \notin {Failed, stored}
            => started[r] < replacedAt[got[r]] + TTL

(* Nobody waits for ever, whatever happens to the epoch during the read. *)
EveryReaderIsAnswered ==
    \A r \in Reader : pc[r] = "lookup" ~> pc[r] = "done"
=============================================================================
