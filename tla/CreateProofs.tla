----------------------------- MODULE CreateProofs -----------------------------
(*****************************************************************************)
(* Proofs about what a create decides by: what it reads (HotRead), which     *)
(* hosts pass for safe (HostSafety) and which proxy it is given (Selection). *)
(*****************************************************************************)
EXTENDS HotRead, HostSafety, Selection, FiniteFolds, FiniteSetTheorems, TLAPS

-----------------------------------------------------------------------------
(*****************************************************************************)
(* The read cache, for any readers, writers and TTL: its type, that a reader *)
(* never sees less than what was answered before it began, and that a        *)
(* reader of its own sees nothing older than a TTL.                          *)
(*****************************************************************************)

(* What is known was stored. *)
Order ==
    /\ cleared <= stored
    /\ \A w \in Writer : wrote[w] <= stored
    /\ \A r \in Reader : floor[r] <= cleared /\ callEpoch[r] <= epoch

(* The entry was read after the last clear. *)
EntryIsFresh == entry # NoEntry => entry.value >= cleared

(* The call new readers find is under way. *)
CallIsUnderWay == call # NoCall => pc[call] \in {"reading", "finishing"}

(* A read of the current epoch was made after the last clear, and every    *)
(* read after its owner began.                                             *)
ReadsAreFresh ==
    \A r \in Reader : pc[r] = "finishing" /\ got[r] # Failed =>
        /\ got[r] >= floor[r]
        /\ callEpoch[r] = epoch => got[r] >= cleared

(* A reader waits for a call that was of the current epoch when it joined. *)
WaitersAreFresh ==
    \A r \in Reader : pc[r] = "waiting" =>
        /\ pc[joined[r]] \in {"reading", "finishing", "done"}
        /\ pc[joined[r]] # "reading" /\ got[joined[r]] # Failed
              => got[joined[r]] >= floor[r]

(* Whoever waits, waits for a reader. *)
WaitsForAReader == \A r \in Reader : pc[r] = "waiting" => joined[r] \in Reader

TypeInv == TypeOK /\ WaitsForAReader

Fresh ==
    /\ TypeInv /\ Order /\ EntryIsFresh /\ CallIsUnderWay
    /\ ReadsAreFresh /\ WaitersAreFresh /\ ReadYourWrites

-----------------------------------------------------------------------------
(* Type correctness                                                        *)

LEMMA TypeInit == Init => TypeInv
BY HotReadAssumption DEF Init, TypeInv, WaitsForAReader, TypeOK, Time, Content

(* A write stores the next content. *)
LEMMA StoreStep ==
    ASSUME TypeOK, Store
    PROVE  /\ stored' = stored + 1 /\ stored' \in Content
           /\ replacedAt' \in [Content -> Time]
           /\ replacedAt'[stored] = now
           /\ \A c \in Content : c # stored => replacedAt'[c] = replacedAt[c]
BY HotReadAssumption DEF Store, TypeOK, Content, Time

LEMMA TypeStep == TypeInv /\ [Next]_vars => TypeInv'
<1> SUFFICES ASSUME TypeInv, [Next]_vars PROVE TypeInv'
    OBVIOUS
<1> USE HotReadAssumption DEF TypeInv, WaitsForAReader
<1>1. ASSUME NEW r \in Reader, Start(r) PROVE TypeInv'
  BY <1>1 DEF Start, Goto, TypeOK, cacheVars, writerVars, storeVars
<1>2. ASSUME NEW r \in Reader, Lookup(r) \/ BeginHit(r) PROVE TypeInv'
  BY <1>2 DEF Lookup, BeginHit, Usable, Answer, Goto, TypeOK, cacheVars,
              writerVars, storeVars
<1>3. ASSUME NEW r \in Reader, BeginJoin(r) PROVE TypeInv'
  BY <1>3 DEF BeginJoin, Joinable, Goto, TypeOK, cacheVars, writerVars, storeVars
<1>4. ASSUME NEW r \in Reader, BeginOwn(r) PROVE TypeInv'
  BY <1>4 DEF BeginOwn, Goto, TypeOK, writerVars, storeVars
<1>5. ASSUME NEW r \in Reader, ReadStore(r) PROVE TypeInv'
  BY <1>5 DEF ReadStore, Goto, TypeOK, cacheVars, writerVars, storeVars
<1>6. ASSUME NEW r \in Reader, Finish(r) PROVE TypeInv'
  <2>1. Keeps(r) => [value |-> got[r], until |-> started[r] + TTL]
                       \in [value : Content \ Blank, until : Nat]
    BY DEF Keeps, TypeOK, Content, Time
  <2>2. entry' \in [value : Content \ Blank, until : Nat] \union {NoEntry}
    BY <1>6, <2>1 DEF Finish, TypeOK
  <2>3. call' \in Reader \union {NoCall} /\ pc' \in [Reader ->
          {"ready", "lookup", "begin", "reading", "finishing", "waiting", "done"}]
    BY <1>6 DEF Finish, Goto, TypeOK
  <2>4. TypeOK'
    BY <1>6, <2>2, <2>3 DEF Finish, TypeOK, writerVars, storeVars
  <2>5. WaitsForAReader'
    BY <1>6 DEF Finish, Goto, TypeOK
  <2> QED BY <2>4, <2>5
<1>7. ASSUME NEW r \in Reader, Share(r) PROVE TypeInv'
  BY <1>7 DEF Share, Answer, Goto, TypeOK, cacheVars, writerVars, storeVars
<1>8. ASSUME NEW r \in Reader, StopWaiting(r) PROVE TypeInv'
  BY <1>8 DEF StopWaiting, Answer, Goto, TypeOK, cacheVars, writerVars, storeVars
<1>9. ASSUME NEW w \in Writer, Write(w) PROVE TypeInv'
  BY <1>9, StoreStep DEF Write, TypeOK, cacheVars, readerVars
<1>10. ASSUME NEW w \in Writer, Clear(w) PROVE TypeInv'
  BY <1>10 DEF Clear, Later, TypeOK, readerVars, storeVars
<1>11. CASE WriteElsewhere
  BY <1>11, StoreStep DEF WriteElsewhere, TypeOK, cacheVars, readerVars, writerVars
<1>12. CASE Tick
  BY <1>12 DEF Tick, TypeOK, Time, cacheVars, readerVars, writerVars, storeVars
<1>13. CASE UNCHANGED vars
  BY <1>13 DEF vars, TypeOK, cacheVars, readerVars, writerVars, storeVars
<1> QED
  BY <1>1, <1>2, <1>3, <1>4, <1>5, <1>6, <1>7, <1>8, <1>9, <1>10, <1>11,
     <1>12, <1>13 DEF Next, Step, Begin

(* Every variable keeps its type; in particular nothing blank is ever kept. *)
THEOREM TypeCorrect == Spec => []TypeOK
<1>1. TypeInv => TypeOK
  BY DEF TypeInv
<1> QED BY <1>1, TypeInit, TypeStep, PTL DEF Spec

-----------------------------------------------------------------------------
(* Readers see what was answered before they began                         *)

LEMMA FreshInit == Init => Fresh
BY TypeInit, HotReadAssumption
   DEF Init, Fresh, Order, EntryIsFresh, CallIsUnderWay, ReadsAreFresh,
       WaitersAreFresh, ReadYourWrites

(* What the steps of a reader leave alone. *)
LEMMA ReaderFrame ==
    ASSUME TypeOK, NEW r \in Reader, Start(r) \/ Step(r) \/ StopWaiting(r)
    PROVE  /\ UNCHANGED <<now, epoch, stored, replacedAt, writing, wrote, cleared>>
           /\ \A q \in Reader : q # r =>
                 /\ pc'[q] = pc[q] /\ got'[q] = got[q] /\ joined'[q] = joined[q]
                 /\ started'[q] = started[q] /\ floor'[q] = floor[q]
                 /\ callEpoch'[q] = callEpoch[q]
           /\ floor'[r] \in {floor[r], cleared}
           /\ callEpoch'[r] \in {callEpoch[r], epoch}
BY DEF Start, Step, Lookup, Begin, BeginHit, BeginJoin, BeginOwn, ReadStore,
       Finish, Share, StopWaiting, Answer, Goto, TypeOK, cacheVars, readerVars,
       writerVars, storeVars

LEMMA OrderStep ==
    ASSUME TypeOK, Order, NEW r \in Reader, Start(r) \/ Step(r) \/ StopWaiting(r)
    PROVE  Order'
<1>1. stored \in Nat /\ cleared \in Nat /\ epoch \in Nat
  BY DEF TypeOK, Content
<1>2. ASSUME NEW q \in Reader PROVE floor'[q] <= cleared /\ callEpoch'[q] <= epoch
  <2>1. CASE q = r
    BY <1>1, <2>1, ReaderFrame DEF Order
  <2>2. CASE q # r
    BY <2>2, ReaderFrame DEF Order
  <2> QED BY <2>1, <2>2
<1> QED BY <1>2, ReaderFrame DEF Order

LEMMA FreshStep == Fresh /\ [Next]_vars => Fresh'
<1> SUFFICES ASSUME Fresh, [Next]_vars PROVE Fresh'
    OBVIOUS
<1> USE DEF Fresh, TypeInv
<1>0. TypeInv'
  BY TypeStep
<1>n. /\ stored \in Nat /\ cleared \in Nat /\ epoch \in Nat
      /\ \A r \in Reader : floor[r] \in Nat /\ callEpoch[r] \in Nat
                            /\ got[r] \in Nat \union {Failed}
      /\ \A w \in Writer : wrote[w] \in Nat
      /\ entry # NoEntry => entry.value \in Nat
  BY DEF TypeOK, Content
<1>1. ASSUME NEW r \in Reader, Start(r) PROVE Fresh'
  <2>1. Order'
    BY <1>1, OrderStep DEF Step, Begin
  <2>2. EntryIsFresh'
    BY <1>n, <1>1, ReaderFrame DEF Start, Goto, cacheVars, EntryIsFresh, ReadsAreFresh, TypeOK
  <2>3. CallIsUnderWay'
    BY <1>n, <1>1, ReaderFrame DEF Start, Goto, cacheVars, CallIsUnderWay, TypeOK
  <2>4. ReadsAreFresh'
    BY <1>n, <1>1, ReaderFrame DEF Start, Goto, cacheVars, ReadsAreFresh, Order, TypeOK
  <2>5. WaitersAreFresh'
    BY <1>n, <1>1, ReaderFrame
    DEF Start, Goto, cacheVars, WaitersAreFresh, CallIsUnderWay, ReadsAreFresh, Order,
        WaitsForAReader, TypeOK
  <2>6. ReadYourWrites'
    BY <1>n, <1>1, ReaderFrame
    DEF Start, Goto, cacheVars, ReadYourWrites, Order, EntryIsFresh, ReadsAreFresh, TypeOK
  <2> QED BY <1>0, <2>1, <2>2, <2>3, <2>4, <2>5, <2>6
<1>2. ASSUME NEW r \in Reader, Lookup(r) \/ BeginHit(r) PROVE Fresh'
  <2>1. Order'
    BY <1>2, OrderStep DEF Step, Begin
  <2>2. EntryIsFresh'
    BY <1>n, <1>2, ReaderFrame
    DEF Step, Begin, Lookup, BeginHit, Usable, Answer, Goto, cacheVars, EntryIsFresh,
        ReadsAreFresh, TypeOK
  <2>3. CallIsUnderWay'
    BY <1>n, <1>2, ReaderFrame
    DEF Step, Begin, Lookup, BeginHit, Usable, Answer, Goto, cacheVars, CallIsUnderWay,
        TypeOK
  <2>4. ReadsAreFresh'
    BY <1>n, <1>2, ReaderFrame
    DEF Step, Begin, Lookup, BeginHit, Usable, Answer, Goto, cacheVars, ReadsAreFresh,
        Order, TypeOK
  <2>5. WaitersAreFresh'
    BY <1>n, <1>2, ReaderFrame
    DEF Step, Begin, Lookup, BeginHit, Usable, Answer, Goto, cacheVars, WaitersAreFresh,
        CallIsUnderWay, ReadsAreFresh, Order, WaitsForAReader, TypeOK
  <2>6. ReadYourWrites'
    BY <1>n, <1>2, ReaderFrame
    DEF Step, Begin, Lookup, BeginHit, Usable, Answer, Goto, cacheVars, ReadYourWrites,
        Order, EntryIsFresh, ReadsAreFresh, TypeOK
  <2> QED BY <1>0, <2>1, <2>2, <2>3, <2>4, <2>5, <2>6
<1>3. ASSUME NEW r \in Reader, BeginJoin(r) PROVE Fresh'
  <2>1. Order'
    BY <1>3, OrderStep DEF Step, Begin
  <2>2. EntryIsFresh'
    BY <1>n, <1>3, ReaderFrame
    DEF Step, Begin, BeginJoin, Joinable, Goto, cacheVars, EntryIsFresh, ReadsAreFresh,
        TypeOK
  <2>3. CallIsUnderWay'
    BY <1>n, <1>3, ReaderFrame
    DEF Step, Begin, BeginJoin, Joinable, Goto, cacheVars, CallIsUnderWay, TypeOK
  <2>4. ReadsAreFresh'
    BY <1>n, <1>3, ReaderFrame
    DEF Step, Begin, BeginJoin, Joinable, Goto, cacheVars, ReadsAreFresh, Order, TypeOK
  <2>5. WaitersAreFresh'
    BY <1>n, <1>3, ReaderFrame
    DEF Step, Begin, BeginJoin, Joinable, Goto, cacheVars, WaitersAreFresh, CallIsUnderWay,
        ReadsAreFresh, Order, WaitsForAReader, TypeOK
  <2>6. ReadYourWrites'
    BY <1>n, <1>3, ReaderFrame
    DEF Step, Begin, BeginJoin, Joinable, Goto, cacheVars, ReadYourWrites, Order,
        EntryIsFresh, ReadsAreFresh, TypeOK
  <2> QED BY <1>0, <2>1, <2>2, <2>3, <2>4, <2>5, <2>6
<1>4. ASSUME NEW r \in Reader, BeginOwn(r) PROVE Fresh'
  <2>1. Order'
    BY <1>4, OrderStep DEF Step, Begin
  <2>2. EntryIsFresh'
    BY <1>n, <1>4, ReaderFrame DEF Step, Begin, BeginOwn, Goto, EntryIsFresh, ReadsAreFresh, TypeOK
  <2>3. CallIsUnderWay'
    BY <1>n, <1>4, ReaderFrame DEF Step, Begin, BeginOwn, Goto, CallIsUnderWay, TypeOK
  <2>4. ReadsAreFresh'
    BY <1>n, <1>4, ReaderFrame DEF Step, Begin, BeginOwn, Goto, ReadsAreFresh, Order, TypeOK
  <2>5. WaitersAreFresh'
    BY <1>n, <1>4, ReaderFrame
    DEF Step, Begin, BeginOwn, Goto, WaitersAreFresh, CallIsUnderWay, ReadsAreFresh, Order,
        WaitsForAReader, TypeOK
  <2>6. ReadYourWrites'
    BY <1>n, <1>4, ReaderFrame
    DEF Step, Begin, BeginOwn, Goto, ReadYourWrites, Order, EntryIsFresh, ReadsAreFresh,
        TypeOK
  <2> QED BY <1>0, <2>1, <2>2, <2>3, <2>4, <2>5, <2>6
<1>5. ASSUME NEW r \in Reader, ReadStore(r) PROVE Fresh'
  <2>1. Order'
    BY <1>5, OrderStep DEF Step, Begin
  <2>2. EntryIsFresh'
    BY <1>n, <1>5, ReaderFrame
    DEF Step, ReadStore, Goto, cacheVars, EntryIsFresh, ReadsAreFresh, TypeOK
  <2>3. CallIsUnderWay'
    BY <1>n, <1>5, ReaderFrame DEF Step, ReadStore, Goto, cacheVars, CallIsUnderWay, TypeOK
  <2>4. ReadsAreFresh'
    <3>1. ASSUME NEW q \in Reader, pc'[q] = "finishing", got'[q] # Failed
          PROVE  got'[q] >= floor'[q] /\ (callEpoch'[q] = epoch => got'[q] >= cleared)
      <4>1. CASE q = r
        <5>1. got'[q] = stored /\ floor'[q] = floor[q]
          BY <1>5, <3>1, <4>1 DEF ReadStore, TypeOK
        <5> QED BY <1>n, <4>1, <5>1 DEF Order
      <4>2. CASE q # r
        BY <1>5, <3>1, <4>2, ReaderFrame DEF Step, ReadsAreFresh
      <4> QED BY <4>1, <4>2
    <3> QED BY <1>5, <3>1, ReaderFrame DEF Step, ReadsAreFresh
  <2>5. WaitersAreFresh'
    BY <1>n, <1>5, ReaderFrame
    DEF Step, ReadStore, Goto, cacheVars, WaitersAreFresh, CallIsUnderWay, ReadsAreFresh,
        Order, WaitsForAReader, TypeOK
  <2>6. ReadYourWrites'
    BY <1>n, <1>5, ReaderFrame
    DEF Step, ReadStore, Goto, cacheVars, ReadYourWrites, Order, EntryIsFresh,
        ReadsAreFresh, TypeOK
  <2> QED BY <1>0, <2>1, <2>2, <2>3, <2>4, <2>5, <2>6
<1>6. ASSUME NEW r \in Reader, Finish(r) PROVE Fresh'
  <2>1. Order'
    BY <1>6, OrderStep DEF Step, Begin
  <2>2. EntryIsFresh'
    BY <1>n, <1>6, ReaderFrame DEF Step, Finish, Keeps, Goto, EntryIsFresh, ReadsAreFresh, TypeOK
  <2>3. CallIsUnderWay'
    BY <1>n, <1>6, ReaderFrame DEF Step, Finish, Keeps, Goto, CallIsUnderWay, TypeOK
  <2>4. ReadsAreFresh'
    BY <1>n, <1>6, ReaderFrame DEF Step, Finish, Keeps, Goto, ReadsAreFresh, Order, TypeOK
  <2>5. WaitersAreFresh'
    BY <1>n, <1>6, ReaderFrame
    DEF Step, Finish, Keeps, Goto, WaitersAreFresh, CallIsUnderWay, ReadsAreFresh, Order,
        WaitsForAReader, TypeOK
  <2>6. ReadYourWrites'
    BY <1>n, <1>6, ReaderFrame
    DEF Step, Finish, Keeps, Goto, ReadYourWrites, Order, EntryIsFresh, ReadsAreFresh,
        TypeOK
  <2> QED BY <1>0, <2>1, <2>2, <2>3, <2>4, <2>5, <2>6
<1>7. ASSUME NEW r \in Reader, Share(r) \/ StopWaiting(r) PROVE Fresh'
  BY <1>0, <1>n, <1>7, ReaderFrame
     DEF Step, Share, StopWaiting, Answer, Goto, Order, EntryIsFresh,
         CallIsUnderWay, ReadsAreFresh, WaitersAreFresh, WaitsForAReader,
         ReadYourWrites, TypeOK, cacheVars
<1>8. CASE WriteElsewhere \/ \E w \in Writer : Write(w)
  BY <1>0, <1>n, <1>8
     DEF Write, WriteElsewhere, Store, Order, EntryIsFresh, CallIsUnderWay,
         ReadsAreFresh, WaitersAreFresh, ReadYourWrites, TypeOK, cacheVars,
         readerVars, writerVars
(* Every call under way now belongs to an older epoch. *)
<1>9. ASSUME NEW w \in Writer, Clear(w) PROVE Fresh'
  BY <1>0, <1>n, <1>9
     DEF Clear, Later, Order, EntryIsFresh, CallIsUnderWay, ReadsAreFresh,
         WaitersAreFresh, ReadYourWrites, TypeOK, readerVars, storeVars
<1>10. CASE Tick \/ UNCHANGED vars
  BY <1>0, <1>10
     DEF Tick, vars, cacheVars, readerVars, writerVars, storeVars, Order,
         EntryIsFresh, CallIsUnderWay, ReadsAreFresh, WaitersAreFresh,
         ReadYourWrites
<1> QED
  BY <1>1, <1>2, <1>3, <1>4, <1>5, <1>6, <1>7, <1>8, <1>9, <1>10
     DEF Next, Step, Begin

(* A reader that begins after a write was answered sees that write. *)
THEOREM ReadYourWritesHolds == Spec => []ReadYourWrites
<1>1. Fresh => ReadYourWrites
  BY DEF Fresh
<1> QED BY <1>1, FreshInit, FreshStep, PTL DEF Spec

-----------------------------------------------------------------------------
(* Readers of their own see nothing older than a TTL                       *)

(* Nobody knows a content before it is stored, nor a time before it comes. *)
Known ==
    /\ \A r \in Reader : started[r] <= now /\ (got[r] # Failed => got[r] <= stored)
    /\ entry # NoEntry => entry.value <= stored

(* The entry ends a TTL after its content was replaced, or earlier. *)
EntryAge ==
    entry # NoEntry =>
        /\ entry.until <= now + TTL
        /\ entry.value # stored => entry.until <= replacedAt[entry.value] + TTL

(* A content an owner has read was current when its call began, or later. *)
ReadAge ==
    \A r \in Reader : pc[r] = "finishing" /\ got[r] \notin {Failed, stored} =>
        started[r] <= replacedAt[got[r]]

Aged == TypeInv /\ Known /\ EntryAge /\ ReadAge /\ StaleForLessThanTTL

LEMMA AgedInit == Init => Aged
BY TypeInit, HotReadAssumption
   DEF Init, Aged, Known, EntryAge, ReadAge, StaleForLessThanTTL

LEMMA AgedStep == Aged /\ [Next]_vars => Aged'
<1> SUFFICES ASSUME Aged, [Next]_vars PROVE Aged'
    OBVIOUS
<1> USE HotReadAssumption DEF Aged, TypeInv
<1>0. TypeInv'
  BY TypeStep
<1>n. /\ stored \in Content /\ now \in Nat /\ Content \subseteq Nat
      /\ \A r \in Reader : started[r] \in Nat /\ got[r] \in Content \union {Failed}
      /\ \A c \in Content : replacedAt[c] \in Nat
      /\ entry # NoEntry => entry.value \in Content /\ entry.until \in Nat
  BY DEF TypeOK, Content, Time
<1>1. ASSUME NEW r \in Reader, Start(r) PROVE Aged'
  <2>1. /\ started' = [started EXCEPT ![r] = now]
        /\ pc' = [pc EXCEPT ![r] = "lookup"]
        /\ UNCHANGED <<now, stored, entry, got, joined, replacedAt>>
    BY <1>1 DEF Start, Goto, cacheVars, storeVars
  <2>2. Known' /\ EntryAge'
    BY <1>n, <2>1 DEF Known, EntryAge, TypeOK
  <2>3. ReadAge' /\ StaleForLessThanTTL'
    BY <1>n, <2>1 DEF ReadAge, StaleForLessThanTTL, TypeOK
  <2> QED BY <1>0, <2>2, <2>3
<1>2. ASSUME NEW r \in Reader, Lookup(r) \/ BeginHit(r) PROVE Aged'
  <2>1. /\ UNCHANGED <<now, stored, entry, started, joined, replacedAt>>
        /\ pc'[r] # "finishing"
        /\ pc'[r] = "done" => Usable(r) /\ got'[r] = entry.value
        /\ got'[r] \in {got[r], entry.value} /\ (got'[r] = got[r] \/ Usable(r))
        /\ \A q \in Reader : q # r => pc'[q] = pc[q] /\ got'[q] = got[q]
    BY <1>2 DEF Lookup, BeginHit, Answer, Goto, TypeOK, cacheVars, storeVars
  <2>2. Known' /\ EntryAge'
    BY <1>n, <2>1 DEF Known, EntryAge, Usable
  <2>3. ReadAge'
    BY <1>n, <2>1 DEF ReadAge
  <2>4. StaleForLessThanTTL'
    <3> SUFFICES ASSUME NEW q \in Reader, pc'[q] = "done", joined[q] = NoCall,
                        got'[q] \notin {Failed, stored}
                 PROVE  started[q] < replacedAt[got'[q]] + TTL
      BY <2>1 DEF StaleForLessThanTTL
    <3>1. CASE q = r
      <4>1. entry # NoEntry /\ entry.until > started[r] /\ got'[r] = entry.value
        BY <2>1, <3>1 DEF Usable
      <4>2. entry.until <= replacedAt[entry.value] + TTL /\ entry.value \in Content
        BY <1>n, <3>1, <4>1 DEF EntryAge
      <4> QED
        BY <1>n, <3>1, <4>1, <4>2
    <3>2. CASE q # r
      BY <2>1, <3>2 DEF StaleForLessThanTTL
    <3> QED
      BY <3>1, <3>2
  <2> QED BY <1>0, <2>2, <2>3, <2>4
<1>3. ASSUME NEW r \in Reader, BeginJoin(r) \/ BeginOwn(r) PROVE Aged'
  <2>1. /\ UNCHANGED <<now, stored, entry, started, got, replacedAt>>
        /\ pc'[r] \in {"waiting", "reading"}
        /\ \A q \in Reader : q # r => pc'[q] = pc[q] /\ joined'[q] = joined[q]
    BY <1>3 DEF BeginJoin, BeginOwn, Goto, TypeOK, cacheVars, storeVars
  <2>2. Known' /\ EntryAge'
    BY <2>1 DEF Known, EntryAge
  <2>3. ReadAge' /\ StaleForLessThanTTL'
    BY <2>1 DEF ReadAge, StaleForLessThanTTL
  <2> QED BY <1>0, <2>2, <2>3
<1>4. ASSUME NEW r \in Reader, ReadStore(r) PROVE Aged'
  <2>1. /\ UNCHANGED <<now, stored, entry, started, joined, replacedAt>>
        /\ pc'[r] = "finishing" /\ got'[r] \in {stored, Failed}
        /\ \A q \in Reader : q # r => pc'[q] = pc[q] /\ got'[q] = got[q]
    BY <1>4 DEF ReadStore, Goto, TypeOK, cacheVars, storeVars
  <2>2. Known' /\ EntryAge'
    BY <1>n, <2>1 DEF Known, EntryAge
  <2>3. ReadAge' /\ StaleForLessThanTTL'
    BY <2>1 DEF ReadAge, StaleForLessThanTTL
  <2> QED BY <1>0, <2>2, <2>3
<1>5. ASSUME NEW r \in Reader, Finish(r) PROVE Aged'
  <2>1. /\ UNCHANGED <<now, stored, started, got, joined, replacedAt>>
        /\ pc[r] = "finishing" /\ pc'[r] = "done"
        /\ \A q \in Reader : q # r => pc'[q] = pc[q]
        /\ entry' = IF Keeps(r) THEN [value |-> got[r], until |-> started[r] + TTL] ELSE entry
    BY <1>5 DEF Finish, Goto, TypeOK, storeVars
  <2>2. Known' /\ EntryAge'
    <3>1. CASE Keeps(r)
      <4>1. entry'.value = got[r] /\ entry'.until = started[r] + TTL
        BY <2>1, <3>1
      <4>2. got[r] \in Content /\ got[r] <= stored /\ started[r] <= now
        BY <1>n, <3>1 DEF Keeps, Known
      <4>3. got[r] # stored => started[r] <= replacedAt[got[r]]
        BY <2>1, <3>1 DEF Keeps, ReadAge
      <4>4. Known'
        BY <1>n, <2>1, <4>1, <4>2 DEF Known
      <4>5. /\ now \in Nat /\ started[r] \in Nat /\ TTL \in Nat
            /\ got[r] # stored => replacedAt[got[r]] \in Nat
        BY <1>n, <4>2
      <4>6. /\ started[r] + TTL <= now + TTL
            /\ got[r] # stored => started[r] + TTL <= replacedAt[got[r]] + TTL
        BY <4>2, <4>3, <4>5
      <4>7. EntryAge'
        BY <2>1, <4>1, <4>6 DEF EntryAge
      <4> QED BY <4>4, <4>7
    <3>2. CASE ~Keeps(r)
      BY <2>1, <3>2 DEF Known, EntryAge
    <3> QED BY <3>1, <3>2
  <2>3. ReadAge'
    BY <2>1 DEF ReadAge
  <2>4. ASSUME NEW q \in Reader, pc'[q] = "done", joined[q] = NoCall,
               got[q] \notin {Failed, stored}
        PROVE  started[q] < replacedAt[got[q]] + TTL
    <3>1. CASE q = r
      <4>1. started[r] <= replacedAt[got[r]] /\ got[r] \in Content
        BY <1>n, <2>1, <2>4, <3>1 DEF ReadAge
      <4>2. started[r] \in Nat /\ replacedAt[got[r]] \in Nat
        BY <1>n, <4>1
      <4>3. TTL \in Nat /\ TTL > 0
        BY HotReadAssumption, SMT
      <4>4. started[r] < replacedAt[got[r]] + TTL
        BY <4>1, <4>2, <4>3
      <4> QED BY <3>1, <4>4
    <3>2. CASE q # r
      BY <2>1, <2>4, <3>2 DEF StaleForLessThanTTL
    <3> QED BY <3>1, <3>2
  <2> QED BY <1>0, <2>1, <2>2, <2>3, <2>4 DEF StaleForLessThanTTL
<1>6. ASSUME NEW r \in Reader, Share(r) \/ StopWaiting(r) PROVE Aged'
  <2>1. /\ UNCHANGED <<now, stored, entry, started, joined, replacedAt>>
        /\ pc'[r] = "done" /\ joined[r] \in Reader
        /\ got'[r] \in {got[joined[r]], Failed}
        /\ \A q \in Reader : q # r => pc'[q] = pc[q] /\ got'[q] = got[q]
    BY <1>6 DEF Share, StopWaiting, Answer, Goto, WaitsForAReader, TypeOK,
                cacheVars, storeVars
  <2>2. Known' /\ EntryAge'
    BY <1>n, <2>1 DEF Known, EntryAge
  <2>3. ReadAge' /\ StaleForLessThanTTL'
    BY <2>1 DEF ReadAge, StaleForLessThanTTL
  <2> QED BY <1>0, <2>2, <2>3
(* A content that is replaced now was current until now. *)
<1>7. CASE WriteElsewhere \/ \E w \in Writer : Write(w)
  <2>1. /\ UNCHANGED <<now, entry, pc, started, got, joined>>
        /\ stored' = stored + 1 /\ replacedAt'[stored] = now
        /\ \A c \in Content : c # stored => replacedAt'[c] = replacedAt[c]
    BY <1>7, StoreStep DEF Write, WriteElsewhere, cacheVars, readerVars
  <2>2. Known'
    <3>0. stored \in Nat /\ \A n \in Nat : n <= stored => n <= stored'
      BY <1>n, <2>1
    <3>1. ASSUME NEW r \in Reader, got[r] # Failed PROVE got[r] <= stored'
      <4>1. got[r] \in Nat /\ got[r] <= stored
        BY <1>n, <3>1 DEF Known
      <4> QED BY <3>0, <4>1
    <3>2. entry # NoEntry => entry.value <= stored'
      BY <1>n, <3>0 DEF Known
    <3> QED BY <2>1, <3>1, <3>2 DEF Known
  <2>3. EntryAge'
    BY <1>n, <2>1 DEF EntryAge, Known
  <2>4. ReadAge'
    BY <1>n, <2>1 DEF ReadAge, Known
  <2>5. StaleForLessThanTTL'
    <3>1. ASSUME NEW q \in Reader, pc[q] = "done", joined[q] = NoCall,
                 got[q] # Failed
          PROVE  started[q] < replacedAt'[got[q]] + TTL
      <4>1. CASE got[q] = stored
        <5>1. started[q] <= now
          BY DEF Known
        <5> QED BY <1>n, <2>1, <4>1, <5>1
      <4>2. CASE got[q] # stored
        BY <1>n, <2>1, <3>1, <4>2 DEF StaleForLessThanTTL
      <4> QED BY <4>1, <4>2
    <3> QED BY <2>1, <3>1 DEF StaleForLessThanTTL
  <2> QED BY <1>0, <2>2, <2>3, <2>4, <2>5
<1>8. CASE Tick \/ UNCHANGED vars \/ \E w \in Writer : Clear(w)
  <2>1. /\ UNCHANGED <<stored, pc, started, got, joined, replacedAt>>
        /\ now <= now' /\ now' \in Nat
        /\ entry' \in {entry, NoEntry}
    BY <1>n, <1>8 DEF Tick, Clear, vars, cacheVars, readerVars, writerVars, storeVars
  <2>2. Known' /\ EntryAge'
    BY <1>n, <2>1 DEF Known, EntryAge
  <2>3. ReadAge' /\ StaleForLessThanTTL'
    BY <2>1 DEF ReadAge, StaleForLessThanTTL
  <2> QED BY <1>0, <2>2, <2>3
<1> QED
  BY <1>1, <1>2, <1>3, <1>4, <1>5, <1>6, <1>7, <1>8 DEF Next, Step, Begin

(* Whoever does not wait for somebody else's read gets a content that was  *)
(* current less than a TTL before it began.                                *)
THEOREM StaleForLessThanTTLHolds == Spec => []StaleForLessThanTTL
<1>1. Aged => StaleForLessThanTTL
  BY DEF Aged
<1> QED BY <1>1, AgedInit, AgedStep, PTL DEF Spec

-----------------------------------------------------------------------------
(*****************************************************************************)
(* The host safety cache, for any hosts, checks, times and cache size.       *)
(*****************************************************************************)

Resolving(c) == step[c] \in {"resolving", "keeping", "finishing"}

HostTypes ==
    /\ moment \in Moment /\ changes \in 0 .. Changes
    /\ dns \in [Host -> Record] /\ last \in [Host -> [Record -> Moment \union {-1}]]
    /\ inflight \in [Host -> Check \union {Nobody}]
    /\ step \in [Check -> {"idle", "joining", "waiting", "resolving", "keeping",
                           "finishing", "done"}]
    /\ owner \in [Check -> Check \union {Nobody}]
    /\ since \in [Check -> Moment]
    /\ found \in [Check -> Record]
    /\ outcome \in [Check -> {"none", "safe", "unsafe", "retry"}]
    /\ gone \in SUBSET Check
    /\ verdict \in [Check -> {"none", "safe", "unsafe"}]

CacheTypes ==
    /\ DOMAIN kept \subseteq Host /\ IsFiniteSet(DOMAIN kept)
    /\ Cardinality(DOMAIN kept) <= CacheMax
    /\ \A h \in DOMAIN kept : kept[h] \in Int

(* The resolver has not answered in the future. *)
NoFuture == \A h \in Host, r \in Record : last[h][r] <= moment

(* Checks of one host share one lookup, and wait for one that was made. *)
Coalesced ==
    /\ \A h \in Host, c \in Check : inflight[h] = c <=> (Resolving(c) /\ HostOf[c] = h)
    /\ \A c \in Check :
          step[c] = "waiting" =>
              /\ owner[c] \in Check /\ HostOf[owner[c]] = HostOf[c]
              /\ Resolving(owner[c]) \/ step[owner[c]] = "done"

(* A lookup is not older than the timeout, and no more is its answer. *)
LookupIsYoung ==
    /\ \A c \in Check : step[c] = "resolving" => since[c] <= moment /\ moment <= since[c] + Patience
    /\ \A c \in Check \ gone : step[c] = "keeping" => Lately(HostOf[c], Patience, found[c])

(* What an owner says is what it was answered, unless its own end came first. *)
Sound(c) ==
    /\ outcome[c] # "none"
    /\ outcome[c] = "safe" => Lately(HostOf[c], Patience, "public")
    /\ outcome[c] = "unsafe" => \/ Lately(HostOf[c], Patience, "internal")
                                \/ Lately(HostOf[c], Patience, "failing")
    /\ outcome[c] = "retry" => c \in gone

(* It is listened to within the tick. *)
SoundWhenHeard ==
    \A c \in Check :
        /\ step[c] = "finishing" => Sound(c)
        /\ step[c] = "waiting" /\ step[owner[c]] = "done" => Sound(owner[c])

(* An entry ends before its cause is forgotten. *)
KeptForCause ==
    \A h \in DOMAIN kept :
        last[h]["internal"] >= 0 /\ kept[h] <= last[h]["internal"] + Patience + KeepTime

HostInv ==
    /\ HostTypes /\ CacheTypes /\ NoFuture /\ Coalesced /\ LookupIsYoung
    /\ SoundWhenHeard /\ KeptForCause /\ SafeIsRecent /\ RefusedForCause

-----------------------------------------------------------------------------
LEMMA HostInvInit == HostInit => HostInv
<1> SUFFICES ASSUME HostInit PROVE HostInv
  OBVIOUS
<1> USE HostAssumption DEF HostInit
<1>1. HostTypes
  BY DEF HostTypes, Moment, Record
<1>2. CacheTypes
  <2>1. DOMAIN kept = {}
    OBVIOUS
  <2> QED
    BY <2>1, FS_EmptySet DEF CacheTypes
<1>3. NoFuture
  BY DEF NoFuture
<1>4. Coalesced /\ LookupIsYoung /\ SoundWhenHeard /\ KeptForCause
  BY DEF Coalesced, Resolving, LookupIsYoung, SoundWhenHeard, KeptForCause
<1>5. SafeIsRecent /\ RefusedForCause
  BY DEF SafeIsRecent, RefusedForCause
<1> QED
  BY <1>1, <1>2, <1>3, <1>4, <1>5 DEF HostInv

(* storeHostSafety leaves the cache within its limit. *)
LEMMA KeepFits ==
    ASSUME HostInv, NEW h \in Host, Keep(h)
    PROVE  /\ CacheTypes'
           /\ \A g \in DOMAIN kept' :
                 \/ g = h /\ kept'[g] = moment + KeepTime
                 \/ g \in DOMAIN kept /\ kept'[g] = kept[g]
<1> USE HostAssumption DEF HostInv, CacheTypes
<1> DEFINE fresh == {g \in DOMAIN kept : moment < kept[g]}
<1>0. moment \in Int /\ KeepTime \in Nat /\ CacheMax \in Nat \ {0}
  BY DEF HostTypes, Moment
<1>1. PICK stay \in Room(h) :
          kept' = [g \in stay \union {h} |-> IF g = h THEN moment + KeepTime ELSE kept[g]]
  BY DEF Keep
<1>2. IsFiniteSet(fresh) /\ Cardinality(fresh) <= CacheMax /\ Cardinality(fresh) \in Nat
  BY FS_Subset, FS_CardinalityType
<1>3. stay \subseteq DOMAIN kept /\ IsFiniteSet(stay) /\ Cardinality(stay) < CacheMax
  <2>1. CASE Cardinality(DOMAIN kept) < CacheMax
    BY <2>1, FS_CardinalityType DEF Room
  <2>2. CASE Cardinality(DOMAIN kept) >= CacheMax /\ Cardinality(fresh) < CacheMax
    BY <1>2, <2>2, FS_CardinalityType DEF Room
  <2>3. CASE Cardinality(DOMAIN kept) >= CacheMax /\ Cardinality(fresh) >= CacheMax
    <3>1. ~(Cardinality(DOMAIN kept) < CacheMax) /\ ~(Cardinality(fresh) < CacheMax)
      BY <1>0, <1>2, <2>3, FS_CardinalityType
    <3>2. Room(h) = {fresh \ {g} : g \in fresh}
      BY <3>1, Zenon DEF Room
    <3>3. PICK g \in fresh : stay = fresh \ {g}
      BY <1>1, <3>2
    <3>4. IsFiniteSet(stay) /\ Cardinality(stay) = Cardinality(fresh) - 1
      BY <1>2, <3>3, FS_RemoveElement, Zenon
    <3> QED
      BY <1>0, <1>2, <3>3, <3>4
  <2> QED
    BY <1>2, <2>1, <2>2, <2>3, FS_CardinalityType
<1>4. IsFiniteSet(DOMAIN kept') /\ Cardinality(DOMAIN kept') <= CacheMax
  <2>1. DOMAIN kept' = stay \union {h}
    BY <1>1
  <2>2. /\ IsFiniteSet(stay \union {h})
        /\ \/ Cardinality(stay \union {h}) = Cardinality(stay)
           \/ Cardinality(stay \union {h}) = Cardinality(stay) + 1
    BY <1>3, FS_AddElement, Zenon
  <2> QED
    BY <1>0, <1>3, <2>1, <2>2, FS_CardinalityType
<1>5. \A g \in DOMAIN kept' :
          \/ g = h /\ kept'[g] = moment + KeepTime
          \/ g \in DOMAIN kept /\ kept'[g] = kept[g]
  BY <1>1, <1>3
<1> QED
  BY <1>0, <1>1, <1>3, <1>4, <1>5

(* What happens to a check that goes on in its lookup, or stops. *)
LEMMA AnswersAreSound ==
    ASSUME HostInv, NEW c \in Check, CheckStep(c)
    PROVE  /\ LookupIsYoung' /\ SoundWhenHeard'
           /\ SafeIsRecent' /\ RefusedForCause'
<1> USE HostAssumption DEF HostInv, CheckStep, worldVars
<1>0. /\ moment \in Int /\ KeepTime \in Nat \ {0} /\ Patience \in Nat \ {0}
      /\ \A h \in Host, r \in Record : last[h][r] \in Int
      /\ \A d \in Check : HostOf[d] \in Host /\ since[d] \in Int
  BY DEF HostTypes, Moment
<1>1. \A h, age, r : Lately(h, age, r)' <=> Lately(h, age, r)
  BY DEF Lately
<1>2. CASE Ask(c)
  <2>1. Kept(HostOf[c]) => Lately(HostOf[c], Patience + KeepTime - 1, "internal")
    BY <1>0 DEF Kept, KeptForCause, CacheTypes, Lately, Record
  <2>2. LookupIsYoung' /\ SoundWhenHeard'
    BY <1>1, <1>2 DEF Ask, Decide, Move, LookupIsYoung, SoundWhenHeard, Sound, HostTypes,
                      Coalesced, Resolving
  <2> QED
    BY <1>1, <1>2, <2>1, <2>2 DEF Ask, Decide, SafeIsRecent, RefusedForCause, HostTypes
<1>3. CASE Join(c)
  <2>0. /\ \A d \in Check \ {c} : step'[d] = step[d] /\ since'[d] = since[d] /\ owner'[d] = owner[d]
        /\ UNCHANGED <<outcome, gone, found, moment>> /\ step[c] = "joining"
    BY <1>3 DEF Join, Move, HostTypes
  <2>1. CASE inflight[HostOf[c]] = Nobody
    <3>1. step'[c] = "resolving" /\ since'[c] = moment /\ UNCHANGED owner
      BY <1>3, <2>1 DEF Join, Move, HostTypes
    <3>2. LookupIsYoung'
      BY <1>0, <1>1, <2>0, <3>1 DEF LookupIsYoung
    <3>3. SoundWhenHeard'
      BY <1>1, <2>0, <3>1 DEF SoundWhenHeard, Sound, Coalesced
    <3> QED
      BY <1>1, <1>3, <3>2, <3>3 DEF Join, SafeIsRecent, RefusedForCause
  <2>2. CASE inflight[HostOf[c]] # Nobody
    <3>1. inflight[HostOf[c]] \in Check /\ Resolving(inflight[HostOf[c]])
      BY <1>0, <2>2 DEF HostTypes, Coalesced
    <3>2. step'[c] = "waiting" /\ owner'[c] = inflight[HostOf[c]] /\ UNCHANGED since
      BY <1>3, <2>2 DEF Join, Move, HostTypes
    <3>3. LookupIsYoung'
      BY <1>0, <1>1, <2>0, <3>2 DEF LookupIsYoung
    <3>4. SoundWhenHeard'
      BY <1>1, <2>0, <3>1, <3>2 DEF SoundWhenHeard, Sound, Coalesced, Resolving
    <3> QED
      BY <1>1, <1>3, <3>3, <3>4 DEF Join, SafeIsRecent, RefusedForCause
  <2> QED
    BY <1>1, <1>3, <2>1, <2>2 DEF Join, SafeIsRecent, RefusedForCause
<1>4. CASE Resolve(c)
  <2>1. LookupIsYoung'
    BY <1>0, <1>1, <1>4 DEF Resolve, Move, LookupIsYoung, HostTypes, Lately, Moment, Record
  <2>2. SoundWhenHeard'
    BY <1>1, <1>4 DEF Resolve, Move, SoundWhenHeard, Sound, HostTypes, Coalesced, Resolving
  <2> QED
    BY <1>1, <1>4, <2>1, <2>2 DEF Resolve, SafeIsRecent, RefusedForCause
<1>5. CASE ResolveNothing(c)
  BY <1>1, <1>5 DEF ResolveNothing, Move, LookupIsYoung, SoundWhenHeard, Sound, HostTypes,
                    Coalesced, Resolving, SafeIsRecent, RefusedForCause
<1>6. CASE Conclude(c)
  <2>1. LookupIsYoung'
    BY <1>0, <1>1, <1>6 DEF Conclude, Move, LookupIsYoung, HostTypes
  <2>2. Sound(c)'
    BY <1>1, <1>6 DEF Conclude, Told, Sound, LookupIsYoung, HostTypes, Record
  <2>3. SoundWhenHeard'
    BY <1>1, <1>6, <2>2 DEF Conclude, Move, SoundWhenHeard, Sound, HostTypes, Coalesced, Resolving
  <2> QED
    BY <1>1, <1>6, <2>1, <2>3 DEF Conclude, SafeIsRecent, RefusedForCause
<1>7. CASE FinishLookup(c)
  <2>1. LookupIsYoung'
    BY <1>1, <1>7 DEF FinishLookup, Decide, Move, LookupIsYoung, HostTypes
  <2>2. Sound(c)
    BY <1>7 DEF FinishLookup, SoundWhenHeard
  <2>3. SoundWhenHeard'
    BY <1>1, <1>7, <2>2 DEF FinishLookup, Decide, Move, SoundWhenHeard, Sound, HostTypes,
                            Coalesced, Resolving
  <2>4. outcome[c] = "unsafe" => \/ Lately(HostOf[c], Patience + KeepTime - 1, "internal")
                                 \/ Lately(HostOf[c], Patience, "failing")
    BY <1>0, <2>2 DEF Sound, Lately, Record
  <2> QED
    BY <1>1, <1>7, <2>1, <2>2, <2>3, <2>4
       DEF FinishLookup, Decide, Sound, SafeIsRecent, RefusedForCause, HostTypes
<1>8. CASE Wake(c)
  <2>1. Sound(owner[c]) /\ owner[c] \in Check /\ HostOf[owner[c]] = HostOf[c] /\ owner[c] # c
    BY <1>8 DEF Wake, SoundWhenHeard, Coalesced
  <2>2. LookupIsYoung' /\ SoundWhenHeard'
    BY <1>1, <1>8, <2>1 DEF Wake, Decide, Move, LookupIsYoung, SoundWhenHeard, Sound, HostTypes,
                            Coalesced, Resolving
  <2>4. outcome[owner[c]] = "unsafe" =>
            \/ Lately(HostOf[c], Patience + KeepTime - 1, "internal")
            \/ Lately(HostOf[c], Patience, "failing")
    BY <1>0, <2>1 DEF Sound, Lately, Record
  <2> QED
    BY <1>1, <1>8, <2>1, <2>2, <2>4
       DEF Wake, Decide, Sound, SafeIsRecent, RefusedForCause, HostTypes
<1>9. CASE LeaveQueue(c)
  BY <1>1, <1>9 DEF LeaveQueue, Decide, Move, LookupIsYoung, SoundWhenHeard, Sound, HostTypes,
                    Coalesced, Resolving, SafeIsRecent, RefusedForCause
<1> QED
  BY <1>2, <1>3, <1>4, <1>5, <1>6, <1>7, <1>8, <1>9

(* The rest of the invariant is about who looks what up. *)
LEMMA CheckKeepsInv ==
    ASSUME HostInv, NEW c \in Check, CheckStep(c)
    PROVE  HostInv'
<1> USE HostAssumption DEF HostInv, CheckStep, worldVars
<1>0. HostOf[c] \in Host
  OBVIOUS
<1>1. HostTypes'
  <2>1. CASE Ask(c) \/ FinishLookup(c) \/ Wake(c) \/ LeaveQueue(c)
    BY <1>0, <2>1 DEF HostTypes, Ask, FinishLookup, Wake, LeaveQueue, Decide, Move
  <2>2. CASE Join(c)
    <3>1. step' \in [Check -> {"idle", "joining", "waiting", "resolving", "keeping",
                               "finishing", "done"}]
      <4>1. /\ step \in [Check -> {"idle", "joining", "waiting", "resolving", "keeping",
                                    "finishing", "done"}]
            /\ \/ step' = [step EXCEPT ![c] = "resolving"]
               \/ step' = [step EXCEPT ![c] = "waiting"]
        BY <2>2 DEF HostTypes, Join, Move
      <4> QED
        BY <4>1
    <3>2. /\ inflight' \in [Host -> Check \union {Nobody}]
          /\ owner' \in [Check -> Check \union {Nobody}] /\ since' \in [Check -> Moment]
      <4>1. CASE inflight[HostOf[c]] = Nobody
        <5>1. /\ inflight \in [Host -> Check \union {Nobody}]
              /\ owner \in [Check -> Check \union {Nobody}]
              /\ since \in [Check -> Moment] /\ moment \in Moment
          BY DEF HostTypes
        <5>2. /\ inflight' = [inflight EXCEPT ![HostOf[c]] = c]
              /\ since' = [since EXCEPT ![c] = moment] /\ owner' = owner
          BY <2>2, <4>1 DEF Join
        <5> QED
          BY <5>1, <5>2
      <4>2. CASE inflight[HostOf[c]] # Nobody
        <5>1. inflight[HostOf[c]] \in Check \union {Nobody}
          BY <1>0 DEF HostTypes
        <5> QED
          BY <2>2, <4>2, <5>1 DEF HostTypes, Join
      <4> QED
        BY <4>1, <4>2
    <3> QED
      BY <2>2, <3>1, <3>2 DEF HostTypes, Join
  <2>3. CASE Resolve(c) \/ ResolveNothing(c)
    <3>1. PICK r \in Record : found' = [found EXCEPT ![c] = r]
      BY <2>3 DEF Resolve, ResolveNothing, Record
    <3>2. found' \in [Check -> Record]
      BY <3>1 DEF HostTypes
    <3>3. step' \in [Check -> {"idle", "joining", "waiting", "resolving", "keeping",
                               "finishing", "done"}]
      BY <2>3 DEF HostTypes, Resolve, ResolveNothing, Move
    <3> QED
      BY <2>3, <3>2, <3>3 DEF HostTypes, Resolve, ResolveNothing
  <2>4. CASE Conclude(c)
    BY <1>0, <2>4 DEF HostTypes, Conclude, Move, Told, Record, Moment
  <2> QED
    BY <2>1, <2>2, <2>3, <2>4
<1>2. NoFuture'
  BY DEF NoFuture
<1>3. Coalesced'
  <2>1. CASE Ask(c) \/ Resolve(c) \/ ResolveNothing(c) \/ Conclude(c) \/ Wake(c) \/ LeaveQueue(c)
    <3>1. /\ UNCHANGED <<inflight, owner>> /\ step'[c] # "waiting"
          /\ Resolving(c)' <=> Resolving(c)
          /\ \A d \in Check \ {c} : step'[d] = step[d]
          /\ step[c] = "done" => step'[c] = "done"
      BY <2>1 DEF Ask, Resolve, ResolveNothing, Conclude, Wake, LeaveQueue, Decide, Move,
                  HostTypes, Resolving
    <3> QED
      BY <3>1 DEF Coalesced, Resolving
  <2>2. CASE Join(c)
    <3>1. step[c] = "joining" /\ \A d \in Check \ {c} : step'[d] = step[d] /\ owner'[d] = owner[d]
      BY <2>2 DEF Join, Move, HostTypes
    <3>2. CASE inflight[HostOf[c]] = Nobody
      <4>1. step'[c] = "resolving" /\ UNCHANGED owner
            /\ inflight' = [inflight EXCEPT ![HostOf[c]] = c]
        BY <2>2, <3>2 DEF Join, Move, HostTypes
      <4>2. \A h \in Host : inflight'[h] = IF h = HostOf[c] THEN c ELSE inflight[h]
        BY <1>0, <4>1 DEF HostTypes
      <4> QED
        BY <1>0, <3>1, <3>2, <4>1, <4>2 DEF Coalesced, Resolving
    <3>3. CASE inflight[HostOf[c]] # Nobody
      <4>1. step'[c] = "waiting" /\ owner'[c] = inflight[HostOf[c]] /\ UNCHANGED inflight
        BY <2>2, <3>3 DEF Join, Move, HostTypes
      <4>2. inflight[HostOf[c]] \in Check
        BY <1>0, <3>3 DEF HostTypes
      <4> QED
        BY <1>0, <3>1, <4>1, <4>2 DEF Coalesced, Resolving
    <3> QED
      BY <3>2, <3>3
  <2>3. CASE FinishLookup(c)
    BY <1>0, <2>3 DEF FinishLookup, Decide, Move, HostTypes, Coalesced, Resolving
  <2> QED
    BY <2>1, <2>2, <2>3
<1>4. CacheTypes' /\ KeptForCause'
  <2>1. CASE UNCHANGED kept
    BY <2>1 DEF CacheTypes, KeptForCause
  <2>2. CASE Keep(HostOf[c]) /\ Conclude(c) /\ c \notin gone /\ found[c] = "internal"
    <3>1. Lately(HostOf[c], Patience, "internal")
      BY <2>2 DEF Conclude, LookupIsYoung
    <3>2. CacheTypes' /\ \A g \in DOMAIN kept' :
                 \/ g = HostOf[c] /\ kept'[g] = moment + KeepTime
                 \/ g \in DOMAIN kept /\ kept'[g] = kept[g]
      BY <1>0, <2>2, KeepFits
    <3>3. moment + KeepTime <= last[HostOf[c]]["internal"] + Patience + KeepTime
      BY <1>0, <3>1 DEF Lately, HostTypes, Moment, Record
    <3> QED
      BY <3>1, <3>2, <3>3 DEF KeptForCause, Lately
  <2> QED
    BY <2>1, <2>2 DEF Ask, Join, Resolve, ResolveNothing, Conclude, FinishLookup, Wake, LeaveQueue
<1> QED
  BY <1>1, <1>2, <1>3, <1>4, AnswersAreSound

(* The world: answers of the resolver only become newer within a tick. *)
LEMMA WorldKeepsInv ==
    ASSUME HostInv, (\E c \in Check : End(c)) \/ ChangeDNS
    PROVE  HostInv'
<1> USE HostAssumption DEF HostInv, worldVars
<1>1. HostTypes'
  <2>1. CASE \E c \in Check : End(c)
    BY <2>1 DEF HostTypes, End
  <2>2. CASE ChangeDNS
    <3>1. PICK h \in Host, r \in Record :
              dns' = [dns EXCEPT ![h] = r] /\ last' = [last EXCEPT ![h][r] = moment]
      BY <2>2 DEF ChangeDNS
    <3>2. last' \in [Host -> [Record -> Moment \union {-1}]] /\ dns' \in [Host -> Record]
      BY <3>1 DEF HostTypes
    <3> QED
      BY <2>2, <3>2 DEF HostTypes, ChangeDNS
  <2> QED
    BY <2>1, <2>2
<1>2. /\ UNCHANGED <<moment, kept, inflight, step, owner, since, found, outcome, verdict>>
      /\ gone \subseteq gone'
      /\ \A h \in Host, r \in Record : last'[h][r] >= last[h][r] /\ last'[h][r] <= moment
  <2>1. CASE \E c \in Check : End(c)
    BY <2>1 DEF HostTypes, NoFuture, End, Moment
  <2>2. CASE ChangeDNS
    <3>1. PICK g \in Host, s \in Record : last' = [last EXCEPT ![g][s] = moment]
      BY <2>2 DEF ChangeDNS
    <3>2. \A h \in Host, r \in Record :
              last'[h][r] = IF h = g /\ r = s THEN moment ELSE last[h][r]
      BY <3>1 DEF HostTypes
    <3>3. \A h \in Host, r \in Record : last[h][r] \in Int /\ moment \in Int
      BY DEF HostTypes, Moment
    <3> QED
      BY <2>2, <3>2, <3>3 DEF NoFuture, ChangeDNS
  <2> QED
    BY <2>1, <2>2
<1>3. \A h \in Host, r \in Record, age \in Int : Lately(h, age, r) => Lately(h, age, r)'
  BY <1>1, <1>2 DEF Lately, HostTypes, Moment
<1>4. CacheTypes' /\ NoFuture' /\ Coalesced'
  BY <1>2 DEF CacheTypes, NoFuture, Coalesced, Resolving
<1>5. KeptForCause'
  BY <1>1, <1>2 DEF KeptForCause, CacheTypes, HostTypes, Moment, Record
<1>6. LookupIsYoung' /\ SoundWhenHeard'
  <2>1. \A c \in Check : Sound(c) => Sound(c)'
    BY <1>2, <1>3 DEF Sound, Record
  <2>2. LookupIsYoung'
    BY <1>2, <1>3 DEF LookupIsYoung, HostTypes
  <2> QED
    BY <1>2, <2>1, <2>2 DEF SoundWhenHeard, Coalesced
<1>7. SafeIsRecent' /\ RefusedForCause'
  BY <1>2, <1>3 DEF SafeIsRecent, RefusedForCause, Record
<1> QED
  BY <1>1, <1>4, <1>5, <1>6, <1>7

(* A tick comes when nobody has anything to tell. *)
LEMMA TickKeepsInv == ASSUME HostInv, HostTick PROVE HostInv'
<1> USE HostAssumption DEF HostInv
<1>0. /\ UNCHANGED <<kept, inflight, step, owner, since, found, outcome, gone>>
      /\ moment' = moment + 1 /\ moment \in Nat
      /\ \A c \in Check : verdict'[c] = "none"
      /\ \A c \in Check : Resting(c)
  BY DEF HostTick, HostTypes, Moment
<1>1. HostTypes'
  <2>1. \A h \in Host : last'[h] = [last[h] EXCEPT ![dns[h]] = moment + 1]
    BY DEF HostTick
  <2>2. last' \in [Host -> [Record -> Moment \union {-1}]]
    BY <1>0, <2>1 DEF HostTick, HostTypes, Moment
  <2> QED
    BY <2>2 DEF HostTick, HostTypes, Moment
<1>2. \A h \in Host, r \in Record : last'[h][r] >= last[h][r] /\ last'[h][r] <= moment'
  <2>1. \A h \in Host, r \in Record :
            last'[h][r] = IF r = dns[h] THEN moment + 1 ELSE last[h][r]
    BY DEF HostTick, HostTypes
  <2>2. \A h \in Host, r \in Record : last[h][r] \in Int
    BY DEF HostTypes, Moment
  <2> QED
    BY <1>0, <2>1, <2>2 DEF NoFuture
<1>3. CacheTypes' /\ NoFuture' /\ Coalesced'
  BY <1>0, <1>2 DEF CacheTypes, NoFuture, Coalesced, Resolving
<1>4. KeptForCause'
  BY <1>0, <1>1, <1>2 DEF KeptForCause, CacheTypes, HostTypes, Moment, Record
<1>5. LookupIsYoung' /\ SoundWhenHeard'
  <2>1. \A c \in Check : since[c] \in Int
    BY DEF HostTypes, Moment
  <2>2. \A c \in Check : step'[c] \notin {"keeping", "finishing"}
    BY <1>0 DEF Resting
  <2>3. LookupIsYoung'
    BY <1>0, <2>1, <2>2 DEF LookupIsYoung, Resting
  <2>4. SoundWhenHeard'
    BY <1>0, <2>2 DEF SoundWhenHeard, Resting
  <2> QED
    BY <2>3, <2>4
<1>6. SafeIsRecent' /\ RefusedForCause'
  BY <1>0 DEF SafeIsRecent, RefusedForCause
<1> QED
  BY <1>1, <1>3, <1>4, <1>5, <1>6

LEMMA HostInvStep == HostInv /\ [HostNext]_hostVars => HostInv'
<1> SUFFICES ASSUME HostInv, [HostNext]_hostVars PROVE HostInv'
  OBVIOUS
<1>1. CASE UNCHANGED hostVars
  BY <1>1 DEF hostVars, worldVars, HostInv, HostTypes, CacheTypes, NoFuture, Coalesced, Resolving,
              LookupIsYoung, SoundWhenHeard, Sound, KeptForCause, SafeIsRecent, RefusedForCause,
              Lately
<1> QED
  BY <1>1, CheckKeepsInv, WorldKeepsInv, TickKeepsInv DEF HostNext

(* HostTypeOK, the limit of the cache included (service.go:                 *)
(* storeHostSafety).                                                       *)
THEOREM HostTypeCorrect == HostSpec => []HostTypeOK
<1>1. HostInv => HostTypeOK
  BY DEF HostInv, HostTypes, CacheTypes, HostTypeOK
<1> QED
  BY <1>1, HostInvInit, HostInvStep, PTL DEF HostSpec

(* A host that is found safe had a public address within the timeout of a  *)
(* lookup, whoever made it (service.go: isSafeHost).                       *)
THEOREM SafeHostsAreSafe == HostSpec => []SafeIsRecent
<1>1. HostInv => SafeIsRecent
  BY DEF HostInv
<1> QED
  BY <1>1, HostInvInit, HostInvStep, PTL DEF HostSpec

(* Nobody is refused because the context of somebody else has ended        *)
(* (service.go: isSafeHost, resolveHostSafety).                            *)
THEOREM RefusalsHaveACause == HostSpec => []RefusedForCause
<1>1. HostInv => RefusedForCause
  BY DEF HostInv
<1> QED
  BY <1>1, HostInvInit, HostInvStep, PTL DEF HostSpec

(* However many checks ask for a host and are canceled, one at most         *)
(* resolves it (service.go: beginHostSafetyLookup).                        *)
OneLookup ==
    \A c, d \in Check : Resolving(c) /\ Resolving(d) /\ HostOf[c] = HostOf[d] => c = d

(* So it is: who comes second waits, or finds the answer in the cache.      *)
THEOREM LookupsAreShared == HostSpec => []OneLookup
<1>1. HostInv => OneLookup
  BY HostAssumption DEF HostInv, OneLookup, Coalesced
<1> QED
  BY <1>1, HostInvInit, HostInvStep, PTL DEF HostSpec

-----------------------------------------------------------------------------
(*****************************************************************************)
(* The selectors, for any proxies, weights, instances and changes of the     *)
(* list: a proxy never pays for more selections than it got, and a create    *)
(* that found an eligible proxy is given one.  The scripts are functions of  *)
(* the three keys, so that most of it says what they do to a key; that the   *)
(* scripts and the local selector pick one of the candidates at all needs a  *)
(* lowest score and a greatest credit to exist (FiniteFolds).                *)
(*****************************************************************************)

(* A hash or a sorted set: some of the proxies, with a value each. *)
Partial(V) == UNION {[D -> V] : D \in SUBSET Proxy}

Node == [until : Clock, next : Clock, runtime : Nat]

KeySpace == [node : Partial(Node), ready : Partial(Nat), delayed : Partial(Clock)]

(* No runtime and no score is above what its proxy has been charged. *)
Priced(k, c) ==
    /\ k \in KeySpace
    /\ \A p \in DOMAIN k.node : k.node[p].runtime <= c[p]
    /\ \A p \in DOMAIN k.ready : k.ready[p] <= c[p]

Fees == [Proxy -> Nat]

LEMMA InPartial ==
    ASSUME NEW V, NEW f
    PROVE  f \in Partial(V) <=> /\ f = [p \in DOMAIN f |-> f[p]]
                                /\ DOMAIN f \subseteq Proxy
                                /\ \A p \in DOMAIN f : f[p] \in V
BY DEF Partial

(* What is written is there, and what was there stays. *)
LEMMA WithIs ==
    ASSUME NEW f, NEW g
    PROVE  /\ DOMAIN With(f, g) = DOMAIN f \union DOMAIN g
           /\ \A p \in DOMAIN g : With(f, g)[p] = g[p]
           /\ \A p \in DOMAIN f \ DOMAIN g : With(f, g)[p] = f[p]
           /\ With(f, g) = [p \in DOMAIN With(f, g) |-> With(f, g)[p]]
BY DEF With

LEMMA WithoutIs ==
    ASSUME NEW f, NEW S
    PROVE  /\ DOMAIN Without(f, S) = DOMAIN f \ S
           /\ \A p \in DOMAIN f \ S : Without(f, S)[p] = f[p]
           /\ Without(f, S) = [p \in DOMAIN Without(f, S) |-> Without(f, S)[p]]
BY DEF Without, Restrict

(* Either keeps a set a set of the same kind. *)
LEMMA WithPartial ==
    ASSUME NEW V, NEW f \in Partial(V), NEW g \in Partial(V)
    PROVE  With(f, g) \in Partial(V)
<1> DEFINE w == With(f, g)
<1>1. /\ w = [p \in DOMAIN w |-> w[p]]
      /\ \A p \in DOMAIN w : (p \in DOMAIN f /\ w[p] = f[p]) \/ (p \in DOMAIN g /\ w[p] = g[p])
  BY DEF With
<1> HIDE DEF w
<1>2. w \in Partial(V)
  BY <1>1, InPartial
<1> QED
  BY <1>2 DEF w

LEMMA WithoutPartial ==
    ASSUME NEW V, NEW f \in Partial(V), NEW S
    PROVE  Without(f, S) \in Partial(V)
<1> DEFINE w == Without(f, S)
<1>1. /\ w = [p \in DOMAIN w |-> w[p]]
      /\ \A p \in DOMAIN w : p \in DOMAIN f /\ w[p] = f[p]
  BY DEF Without, Restrict
<1> HIDE DEF w
<1>2. w \in Partial(V)
  BY <1>1, InPartial
<1> QED
  BY <1>2 DEF w

(* Placing nodes: the hashes stay, the scores are the runtimes. *)
LEMMA PlacePriced ==
    ASSUME NEW c \in Fees, NEW k, Priced(k, c), NEW S \in SUBSET (DOMAIN k.node),
           NEW t \in Clock
    PROVE  /\ Priced(Place(k, S, t), c)
           /\ Place(k, S, t).node = k.node
           /\ DOMAIN k.ready \subseteq DOMAIN Place(k, S, t).ready
<1> DEFINE late == {p \in S : Due(k.node[p]) > t}
           put == [p \in S \ late |-> k.node[p].runtime]
           off == [p \in late |-> IF k.node[p].until > t THEN k.node[p].until
                                  ELSE k.node[p].next]
<1>1. /\ k.node \in Partial(Node) /\ k.ready \in Partial(Nat) /\ k.delayed \in Partial(Clock)
      /\ k = [node |-> k.node, ready |-> k.ready, delayed |-> k.delayed]
  BY DEF Priced, KeySpace
<1>2. \A p \in S : p \in Proxy /\ k.node[p] \in Node
  BY <1>1, InPartial
<1>3. put \in Partial(Nat)
  <2>1. DOMAIN put \subseteq Proxy /\ \A p \in DOMAIN put : put[p] \in Nat
    BY <1>2 DEF Node
  <2>2. put = [p \in DOMAIN put |-> put[p]]
    OBVIOUS
  <2> HIDE DEF put
  <2> QED
    BY <2>1, <2>2, InPartial
<1>4. off \in Partial(Clock)
  <2>1. DOMAIN off \subseteq Proxy /\ \A p \in DOMAIN off : off[p] \in Clock
    BY <1>2 DEF Node
  <2>2. off = [p \in DOMAIN off |-> off[p]]
    OBVIOUS
  <2> HIDE DEF off
  <2> QED
    BY <2>1, <2>2, InPartial
<1>5. \A p \in DOMAIN put : p \in DOMAIN k.node /\ put[p] = k.node[p].runtime
  OBVIOUS
<1>6. Place(k, S, t) = [node |-> k.node, ready |-> With(k.ready, put),
                        delayed |-> With(k.delayed, off)]
  <2>1. Place(k, S, t) = [k EXCEPT !.ready = With(k.ready, put), !.delayed = With(k.delayed, off)]
    BY Zenon DEF Place
  <2> HIDE DEF put, off
  <2> QED
    BY <1>1, <2>1
<1> HIDE DEF late, put, off
<1>7. With(k.delayed, off) \in Partial(Clock)
  BY <1>1, <1>4, WithPartial
<1>11. With(k.ready, put) \in Partial(Nat)
  BY <1>1, <1>3, WithPartial
<1>10. /\ DOMAIN With(k.ready, put) = DOMAIN k.ready \union DOMAIN put
       /\ \A p \in DOMAIN put : With(k.ready, put)[p] = put[p]
       /\ \A p \in DOMAIN k.ready \ DOMAIN put : With(k.ready, put)[p] = k.ready[p]
  BY DEF With
<1>8. \A p \in DOMAIN With(k.ready, put) : With(k.ready, put)[p] <= c[p]
  BY <1>1, <1>5, <1>10 DEF Priced
<1>9. DOMAIN k.ready \subseteq DOMAIN With(k.ready, put)
  BY <1>10
<1> QED
  BY <1>1, <1>6, <1>7, <1>8, <1>9, <1>11 DEF Priced, KeySpace

LEMMA AdoptPriced ==
    ASSUME NEW c \in Fees, NEW k, Priced(k, c), NEW allow, NEW t \in Clock
    PROVE  Priced(Adopt(k, allow, t), c) /\ Adopt(k, allow, t).node = k.node
<1> DEFINE S == (allow \intersect DOMAIN k.node) \ (DOMAIN k.ready \union DOMAIN k.delayed)
<1>1. S \in SUBSET (DOMAIN k.node)
  OBVIOUS
<1>2. Adopt(k, allow, t) = Place(k, S, t)
  BY DEF Adopt
<1> QED
  BY <1>1, <1>2, PlacePriced

LEMMA PromotePriced ==
    ASSUME NEW c \in Fees, NEW k, Priced(k, c), NEW allow, NEW t \in Clock
    PROVE  Priced(Promote(k, allow, t), c) /\ Promote(k, allow, t).node = k.node
<1> DEFINE due == {p \in DOMAIN k.delayed : k.delayed[p] <= t}
           back == due \intersect allow \intersect DOMAIN k.node
           put == [p \in back |-> k.node[p].runtime]
<1>1. /\ k.node \in Partial(Node) /\ k.ready \in Partial(Nat) /\ k.delayed \in Partial(Clock)
      /\ k = [node |-> k.node, ready |-> k.ready, delayed |-> k.delayed]
  BY DEF Priced, KeySpace
<1>2. \A p \in back : p \in Proxy /\ k.node[p] \in Node
  BY <1>1, InPartial
<1>3. put \in Partial(Nat)
  <2>1. DOMAIN put \subseteq Proxy /\ \A p \in DOMAIN put : put[p] \in Nat
    BY <1>2 DEF Node
  <2>2. put = [p \in DOMAIN put |-> put[p]]
    OBVIOUS
  <2> HIDE DEF put
  <2> QED
    BY <2>1, <2>2, InPartial
<1>4. \A p \in DOMAIN put : p \in DOMAIN k.node /\ put[p] = k.node[p].runtime
  OBVIOUS
<1>5. Promote(k, allow, t) = [node |-> k.node, ready |-> With(k.ready, put),
                              delayed |-> Without(k.delayed, due)]
  <2>1. Promote(k, allow, t) =
          [k EXCEPT !.delayed = Without(k.delayed, due), !.ready = With(k.ready, put)]
    BY Zenon DEF Promote
  <2> HIDE DEF put, due
  <2> QED
    BY <1>1, <2>1
<1> HIDE DEF due, back, put
<1>6. Without(k.delayed, due) \in Partial(Clock)
  BY <1>1, WithoutPartial
<1>9. With(k.ready, put) \in Partial(Nat)
  BY <1>1, <1>3, WithPartial
<1>7. /\ DOMAIN With(k.ready, put) = DOMAIN k.ready \union DOMAIN put
      /\ \A p \in DOMAIN put : With(k.ready, put)[p] = put[p]
      /\ \A p \in DOMAIN k.ready \ DOMAIN put : With(k.ready, put)[p] = k.ready[p]
  BY DEF With
<1>8. \A p \in DOMAIN With(k.ready, put) : With(k.ready, put)[p] <= c[p]
  BY <1>1, <1>4, <1>7 DEF Priced
<1> QED
  BY <1>1, <1>5, <1>6, <1>8, <1>9 DEF Priced, KeySpace

LEMMA RebuildPriced ==
    ASSUME NEW c \in Fees, NEW k, Priced(k, c), NEW allow, NEW t \in Clock
    PROVE  Priced(Rebuild(k, allow, t), c) /\ Rebuild(k, allow, t).node = k.node
<1> DEFINE S == allow \intersect DOMAIN k.node
           again == {p \in S : Due(k.node[p]) <= t}
           k1 == Place(k, S, t)
<1>1. Priced(k1, c) /\ k1.node = k.node
  <2>1. S \in SUBSET (DOMAIN k.node)
    OBVIOUS
  <2> QED
    BY <2>1, PlacePriced
<1>2. Rebuild(k, allow, t) = k \/ Rebuild(k, allow, t) = [k1 EXCEPT !.delayed = Without(@, again)]
  BY DEF Rebuild
<1> HIDE DEF k1, again
<1>3. /\ k1.delayed \in Partial(Clock)
      /\ k1 = [node |-> k1.node, ready |-> k1.ready, delayed |-> k1.delayed]
  BY <1>1 DEF Priced, KeySpace
<1>4. Without(k1.delayed, again) \in Partial(Clock)
  BY <1>3, WithoutPartial
<1>5. [k1 EXCEPT !.delayed = Without(@, again)] =
         [node |-> k1.node, ready |-> k1.ready, delayed |-> Without(k1.delayed, again)]
  BY <1>3
<1>6. Priced([node |-> k1.node, ready |-> k1.ready, delayed |-> Without(k1.delayed, again)], c)
  BY <1>1, <1>4 DEF Priced, KeySpace
<1> QED
  BY <1>1, <1>2, <1>5, <1>6

LEMMA PreparedPriced ==
    ASSUME NEW c \in Fees, NEW k, Priced(k, c), NEW allow, NEW t \in Clock
    PROVE  Priced(Prepared(k, allow, t), c) /\ Prepared(k, allow, t).node = k.node
<1> DEFINE k1 == Adopt(k, allow, t)
           k2 == Promote(k1, allow, t)
<1>1. Priced(k1, c) /\ k1.node = k.node
  BY AdoptPriced
<1>2. Priced(k2, c) /\ k2.node = k.node
  <2> HIDE DEF k1
  <2> QED
    BY <1>1, PromotePriced
<1>3. Priced(Rebuild(k2, allow, t), c) /\ Rebuild(k2, allow, t).node = k.node
  <2> HIDE DEF k2
  <2> QED
    BY <1>2, RebuildPriced
<1> QED
  BY <1>3 DEF Prepared

(* The selector and the script pick one of those that may be picked. *)
LEMMA LowestIsMember ==
    ASSUME NEW score, NEW S \in SUBSET Nat, S # {}, \A p \in S : score[p] \in Nat
    PROVE  Lowest(score, S) \in S /\ \A q \in S : Before(score, Lowest(score, S), q)
<1> DEFINE V == {score[p] : p \in S}
<1>1. PICK m \in V : \A v \in V : m <= v
  <2>1. V \in SUBSET Nat /\ V # {}
    OBVIOUS
  <2> HIDE DEF V
  <2> QED
    BY <2>1, SmallestNumber
<1> DEFINE L == {p \in S : score[p] = m}
<1>2. PICK p \in L : \A q \in L : p <= q
  <2>1. L \in SUBSET Nat /\ L # {}
    BY <1>1
  <2> HIDE DEF L
  <2> QED
    BY <2>1, SmallestNumber
<1>3. \A q \in S : Before(score, p, q)
  <2> TAKE q \in S
  <2>1. score[p] = m /\ m <= score[q] /\ m \in Nat /\ score[q] \in Nat
    BY <1>1, <1>2
  <2>2. CASE score[q] = m
    BY <2>1, <2>2, <1>2 DEF Before
  <2>3. CASE score[q] # m
    BY <2>1, <2>3 DEF Before
  <2> QED
    BY <2>2, <2>3
<1> HIDE DEF L, V
<1>4. p \in S
  BY <1>2 DEF L
<1> QED
  BY <1>3, <1>4 DEF Lowest

LEMMA PickableIsKnown ==
    ASSUME NEW c, NEW k, Priced(k, c), NEW allow, NEW t, Pickable(k, allow, t) # {}
    PROVE  LET p == Lowest(k.ready, Pickable(k, allow, t)) IN
           p \in DOMAIN k.ready \intersect allow \intersect DOMAIN k.node \intersect Proxy
<1>1. k.ready \in Partial(Nat)
  BY DEF Priced, KeySpace
<1>2. \A p \in DOMAIN k.ready : p \in Proxy /\ p \in Nat /\ k.ready[p] \in Nat
  BY <1>1, InPartial, ModeAssumption
<1>3. Pickable(k, allow, t) \in SUBSET Nat /\ \A p \in Pickable(k, allow, t) : k.ready[p] \in Nat
  BY <1>2 DEF Pickable
<1>4. Lowest(k.ready, Pickable(k, allow, t)) \in Pickable(k, allow, t)
  BY <1>3, LowestIsMember
<1> QED
  BY <1>2, <1>4 DEF Pickable

LEMMA ScannedPriced ==
    ASSUME NEW c \in Fees, NEW k, Priced(k, c), NEW allow, NEW t \in Clock
    PROVE  /\ Priced(Scanned(k, allow, t), c)
           /\ Pickable(k, allow, t) # {} =>
                LET p == Lowest(k.ready, Pickable(k, allow, t))
                IN  p \in DOMAIN Scanned(k, allow, t).ready
                    /\ p \in DOMAIN Scanned(k, allow, t).node
<1> DEFINE drop == Popped(k, allow, t)
           late == drop \intersect allow \intersect DOMAIN k.node
           bare == [k EXCEPT !.ready = Without(k.ready, drop),
                             !.node = Without(k.node, drop \ allow)]
<1>1. /\ k.node \in Partial(Node) /\ k.ready \in Partial(Nat) /\ k.delayed \in Partial(Clock)
      /\ k = [node |-> k.node, ready |-> k.ready, delayed |-> k.delayed]
  BY DEF Priced, KeySpace
<1>2. bare = [node |-> Without(k.node, drop \ allow), ready |-> Without(k.ready, drop),
              delayed |-> k.delayed]
  <2> DEFINE r == Without(k.ready, drop)
             n == Without(k.node, drop \ allow)
  <2>1. bare = [k EXCEPT !.ready = r, !.node = n]
    OBVIOUS
  <2> HIDE DEF r, n, bare
  <2>2. bare = [node |-> n, ready |-> r, delayed |-> k.delayed]
    BY <1>1, <2>1
  <2> QED
    BY <2>2 DEF r, n
<1>10. Without(k.ready, drop) \in Partial(Nat) /\ Without(k.node, drop \ allow) \in Partial(Node)
  BY <1>1, WithoutPartial
<1>3. /\ DOMAIN Without(k.ready, drop) = DOMAIN k.ready \ drop
      /\ \A p \in DOMAIN k.ready \ drop : Without(k.ready, drop)[p] = k.ready[p]
  BY WithoutIs
<1>4. /\ DOMAIN Without(k.node, drop \ allow) = DOMAIN k.node \ (drop \ allow)
      /\ \A p \in DOMAIN k.node \ (drop \ allow) :
            Without(k.node, drop \ allow)[p] = k.node[p]
  BY WithoutIs
<1>5. Priced(bare, c)
  <2> HIDE DEF drop, bare
  <2> QED
    BY <1>1, <1>2, <1>3, <1>4, <1>10 DEF Priced, KeySpace
<1>6. late \in SUBSET (DOMAIN bare.node)
  <2> HIDE DEF drop, bare
  <2> QED
    BY <1>2, <1>4
<1>7. Scanned(k, allow, t) = Place(bare, late, t)
  BY Zenon DEF Scanned
<1>8. /\ Priced(Scanned(k, allow, t), c)
      /\ Scanned(k, allow, t).node = bare.node
      /\ DOMAIN bare.ready \subseteq DOMAIN Scanned(k, allow, t).ready
  <2> HIDE DEF bare, late
  <2> QED
    BY <1>5, <1>6, <1>7, PlacePriced
<1>9. ASSUME Pickable(k, allow, t) # {}
      PROVE  LET p == Lowest(k.ready, Pickable(k, allow, t))
             IN  p \in DOMAIN bare.ready /\ p \in DOMAIN bare.node
  <2> DEFINE p == Lowest(k.ready, Pickable(k, allow, t))
  <2>1. p \in DOMAIN k.ready /\ p \in DOMAIN k.node
    BY <1>9, PickableIsKnown
  <2>2. p \notin drop
    BY <1>9 DEF Popped
  <2> HIDE DEF p, drop, bare
  <2>3. p \in DOMAIN bare.ready /\ p \in DOMAIN bare.node
    BY <2>1, <2>2, <1>2, <1>3, <1>4
  <2> QED
    BY <2>3 DEF p
<1> HIDE DEF bare
<1> QED
  BY <1>8, <1>9

LEMMA WeightIsNat == \A p \in Proxy : Weight[p] \in Nat
BY ModeAssumption

LEMMA ChargeIsNat == \A p \in Proxy : Charge(p) \in Nat
BY ModeAssumption DEF Charge

LEMMA PaidPriced ==
    ASSUME NEW c \in Fees, NEW d \in Fees, NEW k, Priced(k, c), NEW t \in Clock,
           NEW p \in DOMAIN k.ready \intersect DOMAIN k.node,
           d = [c EXCEPT ![p] = @ + Charge(p)]
    PROVE  Priced(Paid(k, p, t), d)
<1> DEFINE v == k.ready[p] + Charge(p)
<1>1. /\ k.node \in Partial(Node) /\ k.ready \in Partial(Nat) /\ k.delayed \in Partial(Clock)
      /\ k = [node |-> k.node, ready |-> k.ready, delayed |-> k.delayed]
  BY DEF Priced, KeySpace
<1>2. p \in Proxy /\ k.ready[p] \in Nat /\ k.node[p] \in Node
  BY <1>1, InPartial
<1>3. v \in Nat /\ v <= d[p] /\ Charge(p) \in Nat
  BY <1>2, ChargeIsNat DEF Priced, Fees
<1>4. \A q \in Proxy : c[q] <= d[q] /\ c[q] \in Nat /\ d[q] \in Nat
  BY <1>2, <1>3 DEF Fees
<1> DEFINE r == [k.ready EXCEPT ![p] = v]
           n == [k.node EXCEPT ![p].runtime = v, ![p].next = t]
<1>5. Paid(k, p, t) = [node |-> n, ready |-> r, delayed |-> k.delayed]
  <2>1. Paid(k, p, t) =
          [k EXCEPT !.ready[p] = v, !.node[p].runtime = v, !.node[p].next = t]
    BY Zenon DEF Paid
  <2> HIDE DEF v
  <2> QED
    BY <1>1, <2>1
<1>6. r \in Partial(Nat) /\ \A q \in DOMAIN r : q \in DOMAIN k.ready /\ r[q] <= d[q]
  <2> HIDE DEF v
  <2>1. /\ DOMAIN r = DOMAIN k.ready /\ r = [q \in DOMAIN r |-> r[q]]
        /\ \A q \in DOMAIN r : r[q] = IF q = p THEN v ELSE k.ready[q]
    BY <1>1, InPartial
  <2>2. \A q \in DOMAIN k.ready : q \in Proxy /\ k.ready[q] \in Nat /\ k.ready[q] <= c[q]
    BY <1>1, InPartial DEF Priced
  <2> HIDE DEF r
  <2>3. r \in Partial(Nat)
    BY <2>1, <2>2, <1>3, InPartial
  <2> QED
    BY <2>1, <2>2, <2>3, <1>3, <1>4
<1>7. n \in Partial(Node) /\ \A q \in DOMAIN n : n[q].runtime <= d[q]
  <2> HIDE DEF v
  <2>1. /\ DOMAIN n = DOMAIN k.node /\ n = [q \in DOMAIN n |-> n[q]]
        /\ \A q \in DOMAIN n : q # p => n[q] = k.node[q]
        /\ n[p] = [until |-> k.node[p].until, next |-> t, runtime |-> v]
    BY <1>1, <1>2, InPartial DEF Node
  <2>2. \A q \in DOMAIN k.node : q \in Proxy /\ k.node[q] \in Node /\ k.node[q].runtime <= c[q]
    BY <1>1, InPartial DEF Priced
  <2>3. n[p] \in Node /\ n[p].runtime <= d[p]
    BY <2>1, <1>2, <1>3 DEF Node
  <2> HIDE DEF n
  <2>4. n \in Partial(Node)
    BY <2>1, <2>2, <2>3, InPartial
  <2>5. \A q \in DOMAIN n : n[q].runtime <= d[q]
    BY <2>1, <2>2, <2>3, <1>4 DEF Node
  <2> QED
    BY <2>4, <2>5
<1> HIDE DEF r, n
<1> QED
  BY <1>1, <1>5, <1>6, <1>7 DEF Priced, KeySpace

-----------------------------------------------------------------------------
(* What every proxy has been charged. *)
Fee == [p \in Proxy |-> charged[p] * Charge(p)]

SelectTypes ==
    /\ mode \in Modes /\ clock \in Clock /\ catalog \in Partial(Clock)
    /\ stage \in [Instance -> Remote \union {"idle", "local"}]
    /\ left \in [Instance -> Nat] /\ tries \in [Instance -> 0 .. Evals]
    /\ view \in [Instance -> Partial(Clock)] /\ stamp \in [Instance -> Clock]
    /\ todo \in [Instance -> SUBSET Proxy]
    /\ plan \in [Instance -> Partial(Nat)] /\ credit \in [Instance -> Partial(Int)]
    /\ answer \in [Instance -> Proxy \union {None, Refusal}]
    /\ charged \in [Proxy -> Nat] /\ waited \in [Instance -> [Proxy -> Nat]]

(* A create that is under way has candidates, and evaluations left.        *)
Asked ==
    \A i \in Instance :
        /\ todo[i] \subseteq allowed(i)
        /\ stage[i] # "idle" => allowed(i) # {}
        /\ stage[i] \in {"syncing", "evaluating", "seeding", "placing"} => tries[i] < Evals

(* What is stored, and what an instance has read and not yet written back. *)
PaidFor ==
    /\ Priced(Keys, Fee)
    /\ \A i \in Instance : \A p \in DOMAIN plan[i] : plan[i][p] <= Fee[p]

SelectInv == SelectTypes /\ Asked /\ PaidFor /\ NeverRefusedInVain

LEMMA KeysAreKeys ==
    ASSUME NEW c
    PROVE  Priced(Keys, c) <=>
              /\ node \in Partial(Node) /\ ready \in Partial(Nat) /\ delayed \in Partial(Clock)
              /\ \A p \in DOMAIN node : node[p].runtime <= c[p]
              /\ \A p \in DOMAIN ready : ready[p] <= c[p]
BY DEF Priced, KeySpace, Keys

LEMMA FeeType == charged \in [Proxy -> Nat] => Fee \in Fees
<1> SUFFICES ASSUME charged \in [Proxy -> Nat], NEW p \in Proxy
             PROVE  charged[p] * Charge(p) \in Nat
  BY DEF Fee, Fees
<1>1. charged[p] \in Nat /\ Charge(p) \in Nat
  BY ChargeIsNat
<1> QED
  BY <1>1

(* A selection more is a charge more. *)
LEMMA FeeGrows ==
    ASSUME charged \in [Proxy -> Nat], NEW p \in Proxy,
           charged' = [charged EXCEPT ![p] = @ + 1]
    PROVE  /\ Fee' = [Fee EXCEPT ![p] = @ + Charge(p)]
           /\ \A q \in Proxy : Fee[q] <= Fee'[q]
<1>1. \A q \in Proxy : charged[q] \in Nat /\ Charge(q) \in Nat
  BY ChargeIsNat
<1>2. (charged[p] + 1) * Charge(p) = charged[p] * Charge(p) + Charge(p)
  <2> DEFINE x == charged[p]
             y == Charge(p)
  <2>1. x \in Nat /\ y \in Nat
    BY <1>1
  <2> HIDE DEF x, y
  <2>2. (x + 1) * y = x * y + y
    BY <2>1
  <2> QED
    BY <2>2 DEF x, y
<1>3. Fee' = [q \in Proxy |-> charged'[q] * Charge(q)]
  BY DEF Fee
<1>4. charged'[p] = charged[p] + 1 /\ \A q \in Proxy : q # p => charged'[q] = charged[q]
  OBVIOUS
<1>5. Fee' = [Fee EXCEPT ![p] = @ + Charge(p)]
  BY <1>2, <1>3, <1>4 DEF Fee
<1>6. Fee \in Fees
  BY FeeType
<1> HIDE DEF Fee
<1>7. \A q \in Proxy : Fee[q] <= Fee'[q]
  BY <1>1, <1>5, <1>6 DEF Fees
<1> QED
  BY <1>5, <1>7

LEMMA ClockIsListing == Listing = Partial(Clock)
BY DEF Listing, Partial

LEMMA EmptyIsPartial == \A V : Empty \in Partial(V)
BY InPartial DEF Empty

LEMMA EmptyIsEmpty ==
    ASSUME NEW V, NEW f \in Partial(V)
    PROVE  f = Empty <=> DOMAIN f = {}
BY InPartial DEF Empty

LEMMA SelectInvInit == SelectInit => SelectInv
<1> SUFFICES ASSUME SelectInit PROVE SelectInv
  OBVIOUS
<1>1. SelectTypes
  <2>1. mode.catalogs \subseteq Partial(Clock) /\ mode.creates \in Nat
    BY ModeAssumption, ClockIsListing DEF SelectInit
  <2>2. 0 \in Clock /\ 0 \in 0 .. Evals
    BY ModeAssumption DEF Clock
  <2> QED
    BY <2>1, <2>2, EmptyIsPartial DEF SelectInit, SelectTypes, Remote
<1>2. Asked
  BY DEF SelectInit, Asked, allowed
<1>3. PaidFor
  <2>1. DOMAIN node = {} /\ DOMAIN ready = {} /\ \A i \in Instance : DOMAIN plan[i] = {}
    BY DEF SelectInit, Empty
  <2>2. node \in Partial(Node) /\ ready \in Partial(Nat) /\ delayed \in Partial(Clock)
    BY EmptyIsPartial DEF SelectInit
  <2> QED
    BY <2>1, <2>2, KeysAreKeys DEF PaidFor
<1>4. NeverRefusedInVain
  BY DEF SelectInit, NeverRefusedInVain
<1> QED
  BY <1>1, <1>2, <1>3, <1>4 DEF SelectInv

-----------------------------------------------------------------------------
(* The steps of a create                                                   *)

(* What does not touch a key, a plan or a count costs nobody anything. *)
LEMMA PaidForStays ==
    ASSUME PaidFor, UNCHANGED redisVars, UNCHANGED plan
    PROVE  PaidFor'
BY DEF PaidFor, redisVars, Priced, Keys, Fee

LEMMA BeginCreateStep ==
    ASSUME SelectInv, NEW i \in Instance, BeginCreate(i), UNCHANGED <<mode, clock, catalog>>
    PROVE  SelectInv'
<1> DEFINE eligible == Restrict(catalog, {p \in DOMAIN catalog : catalog[p] <= clock})
<1>1. eligible \in Partial(Clock)
  <2>1. catalog \in Partial(Clock)
    BY DEF SelectInv, SelectTypes
  <2>2. /\ eligible = [p \in DOMAIN eligible |-> eligible[p]]
        /\ DOMAIN eligible \subseteq DOMAIN catalog
        /\ \A p \in DOMAIN eligible : eligible[p] = catalog[p]
    BY DEF Restrict
  <2> HIDE DEF eligible
  <2> QED
    BY <2>1, <2>2, InPartial
<1>2. /\ mode.shared => left[i] > 0
      /\ left' = [left EXCEPT ![i] = IF mode.shared THEN @ - 1 ELSE @]
      /\ view' = [view EXCEPT ![i] = eligible]
      /\ stamp' = [stamp EXCEPT ![i] = clock]
      /\ tries' = [tries EXCEPT ![i] = 0]
      /\ todo' = [todo EXCEPT ![i] = DOMAIN eligible]
      /\ \/ eligible = Empty /\ stage' = [stage EXCEPT ![i] = "idle"]
            /\ answer' = [answer EXCEPT ![i] = Refusal]
         \/ eligible # Empty /\ answer' = answer
            /\ \E s \in {"syncing", "local"} : stage' = [stage EXCEPT ![i] = s]
      /\ UNCHANGED <<redisVars, localVars, synced, plan>>
  BY DEF BeginCreate, Give, Enter
<1> HIDE DEF eligible
<1>3. SelectTypes'
  <2>1. DOMAIN eligible \subseteq Proxy
    BY <1>1, InPartial
  <2>2. 0 \in 0 .. Evals
    BY ModeAssumption
  <2>3. left' \in [Instance -> Nat]
    BY <1>2 DEF SelectInv, SelectTypes
  <2>4. stage' \in [Instance -> Remote \union {"idle", "local"}]
    BY <1>2 DEF SelectInv, SelectTypes, Remote
  <2> QED
    BY <1>1, <1>2, <2>1, <2>2, <2>3, <2>4
    DEF SelectInv, SelectTypes, localVars, redisVars
<1>4. Asked'
  <2> SUFFICES ASSUME NEW j \in Instance
               PROVE  /\ todo'[j] \subseteq DOMAIN view'[j]
                      /\ stage'[j] # "idle" => DOMAIN view'[j] # {}
                      /\ stage'[j] \in {"syncing", "evaluating", "seeding", "placing"} =>
                            tries'[j] < Evals
    BY DEF Asked, allowed
  <2>1. CASE j = i
    <3>1. eligible # Empty => DOMAIN eligible # {}
      BY <1>1, EmptyIsEmpty
    <3>2. 0 < Evals
      BY ModeAssumption
    <3> QED
      BY <2>1, <3>1, <3>2, <1>2 DEF SelectInv, SelectTypes
  <2>2. CASE j # i
    BY <2>2, <1>2 DEF SelectInv, SelectTypes, Asked, allowed
  <2> QED
    BY <2>1, <2>2
<1>5. PaidFor'
  BY <1>2, PaidForStays DEF SelectInv
<1>6. NeverRefusedInVain'
  <2> SUFFICES ASSUME NEW j \in Instance, stage'[j] = "idle", answer'[j] # None
               PROVE  IF view'[j] = Empty THEN answer'[j] = Refusal
                      ELSE answer'[j] \in DOMAIN view'[j]
    BY DEF NeverRefusedInVain, allowed
  <2>1. CASE j = i
    BY <2>1, <1>2 DEF SelectInv, SelectTypes
  <2>2. CASE j # i
    BY <2>2, <1>2 DEF SelectInv, SelectTypes, NeverRefusedInVain, allowed
  <2> QED
    BY <2>1, <2>2
<1> QED
  BY <1>3, <1>4, <1>5, <1>6 DEF SelectInv

(* From one stage to another of the same create: what the create has found *)
(* stays, and only what it still has to write becomes less.                *)
Onward(i, s) ==
    /\ stage' = [stage EXCEPT ![i] = s]
    /\ UNCHANGED <<view, answer>>
    /\ \/ UNCHANGED todo
       \/ \E T \in SUBSET todo[i] : todo' = [todo EXCEPT ![i] = T]

LEMMA OnwardStep ==
    ASSUME SelectInv, NEW i \in Instance, stage[i] # "idle",
           NEW s \in Remote \union {"local"}, Onward(i, s),
           s \in {"syncing", "evaluating", "seeding", "placing"} => tries'[i] < Evals,
           \A j \in Instance \ {i} : tries'[j] = tries[j]
    PROVE  /\ Asked' /\ NeverRefusedInVain'
           /\ stage' \in [Instance -> Remote \union {"idle", "local"}]
           /\ todo' \in [Instance -> SUBSET Proxy]
<1>1. /\ stage \in [Instance -> Remote \union {"idle", "local"}]
      /\ todo \in [Instance -> SUBSET Proxy]
  BY DEF SelectInv, SelectTypes
<1>2. /\ stage'[i] = s /\ s # "idle"
      /\ \A j \in Instance \ {i} : stage'[j] = stage[j]
      /\ stage' \in [Instance -> Remote \union {"idle", "local"}]
  BY <1>1 DEF Onward, Remote
<1>3. /\ todo'[i] \subseteq todo[i] /\ \A j \in Instance \ {i} : todo'[j] = todo[j]
      /\ todo' \in [Instance -> SUBSET Proxy]
  BY <1>1 DEF Onward
<1>4. Asked'
  <2> SUFFICES ASSUME NEW j \in Instance
               PROVE  /\ todo'[j] \subseteq DOMAIN view[j]
                      /\ stage'[j] # "idle" => DOMAIN view[j] # {}
                      /\ stage'[j] \in {"syncing", "evaluating", "seeding", "placing"} =>
                            tries'[j] < Evals
    BY DEF Asked, allowed, Onward
  <2>1. CASE j = i
    BY <2>1, <1>2, <1>3 DEF SelectInv, Asked, allowed
  <2>2. CASE j # i
    BY <2>2, <1>2, <1>3 DEF SelectInv, Asked, allowed
  <2> QED
    BY <2>1, <2>2
<1>5. NeverRefusedInVain'
  BY <1>2 DEF SelectInv, NeverRefusedInVain, allowed, Onward
<1> QED
  BY <1>2, <1>3, <1>4, <1>5

(* A create that ends with one of its candidates. *)
LEMMA GiveStep ==
    ASSUME SelectInv, NEW i \in Instance, NEW p \in allowed(i), Give(i, p),
           UNCHANGED <<view, todo, tries>>
    PROVE  /\ Asked' /\ NeverRefusedInVain'
           /\ stage' \in [Instance -> Remote \union {"idle", "local"}]
           /\ answer' \in [Instance -> Proxy \union {None, Refusal}]
<1>1. /\ stage \in [Instance -> Remote \union {"idle", "local"}]
      /\ answer \in [Instance -> Proxy \union {None, Refusal}]
      /\ view \in [Instance -> Partial(Clock)]
  BY DEF SelectInv, SelectTypes
<1>2. view[i] \in Partial(Clock) /\ p \in DOMAIN view[i] /\ p \in Proxy
  BY <1>1, InPartial DEF allowed
<1>3. /\ stage'[i] = "idle" /\ \A j \in Instance \ {i} : stage'[j] = stage[j]
      /\ answer'[i] = p /\ \A j \in Instance \ {i} : answer'[j] = answer[j]
      /\ stage' \in [Instance -> Remote \union {"idle", "local"}]
      /\ answer' \in [Instance -> Proxy \union {None, Refusal}]
  BY <1>1, <1>2 DEF Give, Enter
<1>4. Asked'
  <2> SUFFICES ASSUME NEW j \in Instance
               PROVE  /\ todo[j] \subseteq DOMAIN view[j]
                      /\ stage'[j] # "idle" => DOMAIN view[j] # {}
                      /\ stage'[j] \in {"syncing", "evaluating", "seeding", "placing"} =>
                            tries[j] < Evals
    BY DEF Asked, allowed
  <2>1. CASE j = i
    BY <2>1, <1>3 DEF SelectInv, Asked, allowed
  <2>2. CASE j # i
    BY <2>2, <1>3 DEF SelectInv, Asked, allowed
  <2> QED
    BY <2>1, <2>2
<1>5. NeverRefusedInVain'
  <2> SUFFICES ASSUME NEW j \in Instance, stage'[j] = "idle", answer'[j] # None
               PROVE  IF view[j] = Empty THEN answer'[j] = Refusal
                      ELSE answer'[j] \in DOMAIN view[j]
    BY DEF NeverRefusedInVain, allowed
  <2>1. CASE j = i
    BY <2>1, <1>2, <1>3, EmptyIsEmpty
  <2>2. CASE j # i
    BY <2>2, <1>3 DEF SelectInv, NeverRefusedInVain, allowed
  <2> QED
    BY <2>1, <2>2
<1> QED
  BY <1>3, <1>4, <1>5

(* The weights of a finite set of proxies have a sum. *)
LEMMA TotalIsSum == \A S : TotalWeight(S) = SumOf(Weight, S)
BY DEF TotalWeight, FoldFunctionOnSet, MapThenFoldSet, SumOf, IsSum

LEMMA TotalWeightIsInt == \A S \in SUBSET Proxy : TotalWeight(S) \in Int
<1>1. IsFiniteSet(Proxy) /\ \A p \in Proxy : Weight[p] \in Int
  BY ModeAssumption
<1> QED
  BY <1>1, TotalIsSum, SumRules

LEMMA RichestIsEligible ==
    ASSUME NEW S \in SUBSET Proxy, S # {}, NEW gain \in [S -> Int]
    PROVE  Richest(gain) \in S /\ \A q \in S : gain[q] <= gain[Richest(gain)]
<1>1. IsFiniteSet(S) /\ DOMAIN gain = S
  BY ModeAssumption, FS_Subset
<1>2. PICK m \in S : \A q \in S : gain[q] <= gain[m]
  BY <1>1, GreatestValue
<1> DEFINE L == {p \in S : gain[p] = gain[m]}
<1>3. PICK p \in L : \A q \in L : p <= q
  <2>1. L \in SUBSET Nat /\ L # {}
    BY ModeAssumption
  <2> HIDE DEF L
  <2> QED
    BY <2>1, SmallestNumber
<1>4. \A q \in S : gain[p] > gain[q] \/ (gain[p] = gain[q] /\ p <= q)
  <2> TAKE q \in S
  <2>1. gain[p] = gain[m] /\ gain[q] <= gain[m] /\ gain[q] \in Int /\ gain[m] \in Int
    BY <1>2, <1>3
  <2>2. CASE gain[q] = gain[m]
    BY <2>1, <2>2, <1>3
  <2>3. CASE gain[q] # gain[m]
    BY <2>1, <2>3
  <2> QED
    BY <2>2, <2>3
<1> DEFINE Top(x) == \A q \in S : gain[x] > gain[q] \/ (gain[x] = gain[q] /\ x <= q)
<1>5. p \in S /\ Top(p)
  BY <1>3, <1>4
<1>6. Richest(gain) = CHOOSE x \in S : Top(x)
  BY <1>1 DEF Richest
<1> HIDE DEF L, Top
<1>7. Richest(gain) \in S /\ Top(Richest(gain))
  BY <1>5, <1>6
<1>8. \A q \in S : gain[q] \in Int /\ gain[Richest(gain)] \in Int
  BY <1>7
<1> QED
  BY <1>7, <1>8 DEF Top

LEMMA SkipSyncStep ==
    ASSUME SelectInv, NEW i \in Instance, SkipSync(i), UNCHANGED <<mode, clock, catalog>>
    PROVE  SelectInv'
<1>1. Onward(i, "evaluating") /\ stage[i] = "syncing" /\ UNCHANGED tries
  <2>1. {} \in SUBSET todo[i]
    OBVIOUS
  <2> QED
    BY <2>1 DEF SkipSync, Enter, Onward
<1>2. tries[i] < Evals
  BY <1>1 DEF SelectInv, Asked
<1>3. /\ Asked' /\ NeverRefusedInVain'
      /\ stage' \in [Instance -> Remote \union {"idle", "local"}]
      /\ todo' \in [Instance -> SUBSET Proxy]
  BY <1>1, <1>2, OnwardStep DEF Remote
<1>4. SelectTypes'
  BY <1>3 DEF SkipSync, SelectInv, SelectTypes, redisVars, localVars
<1>5. PaidFor'
  BY PaidForStays DEF SkipSync, SelectInv
<1> QED
  BY <1>3, <1>4, <1>5 DEF SelectInv

LEMMA WriteNodeStep ==
    ASSUME SelectInv, NEW i \in Instance, WriteNode(i), UNCHANGED <<mode, clock, catalog>>
    PROVE  SelectInv'
<1>1. PICK p \in todo[i] :
        /\ stage[i] = "syncing"
        /\ node' = With(node, [q \in {p} |->
               IF p \in DOMAIN node THEN [node[p] EXCEPT !.until = view[i][p]]
               ELSE [until |-> view[i][p], next |-> 0, runtime |-> 0]])
        /\ todo' = [todo EXCEPT ![i] = @ \ {p}]
        /\ UNCHANGED <<ready, delayed, charged, localVars, stage, left, view, stamp,
                       synced, plan, tries, answer>>
  BY DEF WriteNode
<1>2. /\ stage \in [Instance -> Remote \union {"idle", "local"}]
      /\ view \in [Instance -> Partial(Clock)] /\ todo[i] \subseteq DOMAIN view[i]
      /\ node \in Partial(Node) /\ charged \in [Proxy -> Nat]
  BY KeysAreKeys DEF SelectInv, SelectTypes, Asked, allowed, PaidFor
<1>3. Onward(i, "syncing") /\ UNCHANGED tries
  <2>1. stage' = [stage EXCEPT ![i] = "syncing"]
    BY <1>1, <1>2
  <2>2. todo[i] \ {p} \in SUBSET todo[i]
    OBVIOUS
  <2> QED
    BY <1>1, <2>1, <2>2 DEF Onward
<1>4. tries[i] < Evals
  BY <1>1 DEF SelectInv, Asked
<1>5. /\ Asked' /\ NeverRefusedInVain'
      /\ stage' \in [Instance -> Remote \union {"idle", "local"}]
      /\ todo' \in [Instance -> SUBSET Proxy]
  BY <1>1, <1>3, <1>4, OnwardStep DEF Remote
<1>6. SelectTypes'
  BY <1>1, <1>5 DEF SelectInv, SelectTypes, localVars
<1> DEFINE x == IF p \in DOMAIN node THEN [node[p] EXCEPT !.until = view[i][p]]
                ELSE [until |-> view[i][p], next |-> 0, runtime |-> 0]
           new == [q \in {p} |-> x]
<1>7. p \in Proxy /\ view[i][p] \in Clock
  BY <1>1, <1>2, InPartial
<1>8. x \in Node /\ x.runtime <= Fee[p]
  <2>1. CASE p \in DOMAIN node
    <3>1. node[p] \in Node /\ node[p].runtime <= Fee[p]
      BY <1>2, <2>1, InPartial, KeysAreKeys DEF SelectInv, PaidFor
    <3> QED
      BY <1>7, <2>1, <3>1 DEF Node
  <2>2. CASE p \notin DOMAIN node
    <3>1. Fee[p] \in Nat
      BY <1>2, <1>7, FeeType DEF Fees
    <3>2. 0 \in Clock
      BY ModeAssumption DEF Clock
    <3> QED
      BY <1>7, <2>2, <3>1, <3>2 DEF Node
  <2> QED
    BY <2>1, <2>2
<1>9. new \in Partial(Node)
  <2> HIDE DEF x
  <2>1. /\ new = [q \in DOMAIN new |-> new[q]]
        /\ DOMAIN new = {p} /\ new[p] = x
    OBVIOUS
  <2> HIDE DEF new
  <2> QED
    BY <1>7, <1>8, <2>1, InPartial
<1>10. node' = With(node, new)
  BY <1>1
<1>11. node' \in Partial(Node)
  <2> HIDE DEF new
  <2> QED
    BY <1>2, <1>9, <1>10, WithPartial
<1>12. \A q \in DOMAIN node' : node'[q].runtime <= Fee[q]
  <2> HIDE DEF x
  <2>1. DOMAIN new = {p} /\ new[p] = x
    OBVIOUS
  <2> HIDE DEF new
  <2>2. ASSUME NEW q \in DOMAIN node' PROVE node'[q].runtime <= Fee[q]
    <3>1. (q = p /\ node'[q] = x) \/ (q # p /\ q \in DOMAIN node /\ node'[q] = node[q])
      BY <1>10, <2>1, <2>2 DEF With
    <3> QED
      BY <1>8, <3>1, KeysAreKeys DEF SelectInv, PaidFor
  <2> QED
    BY <2>2
<1>13. PaidFor'
  <2>1. Fee' = Fee
    BY <1>1 DEF Fee
  <2>2. Priced(Keys, Fee)
    BY DEF SelectInv, PaidFor
  <2>3. Priced(Keys', Fee)
    BY <1>1, <1>11, <1>12, <2>2 DEF Priced, KeySpace, Keys
  <2> QED
    BY <1>1, <2>1, <2>3 DEF SelectInv, PaidFor
<1> QED
  BY <1>5, <1>6, <1>13 DEF SelectInv

LEMMA EndSyncStep ==
    ASSUME SelectInv, NEW i \in Instance, EndSync(i), UNCHANGED <<mode, clock, catalog>>
    PROVE  SelectInv'
<1>1. Onward(i, "evaluating") /\ stage[i] = "syncing" /\ UNCHANGED tries
  BY DEF EndSync, Enter, Onward
<1>2. tries[i] < Evals
  BY <1>1 DEF SelectInv, Asked
<1>3. /\ Asked' /\ NeverRefusedInVain'
      /\ stage' \in [Instance -> Remote \union {"idle", "local"}]
      /\ todo' \in [Instance -> SUBSET Proxy]
  BY <1>1, <1>2, OnwardStep DEF Remote
<1>4. SelectTypes'
  BY <1>3 DEF EndSync, SelectInv, SelectTypes, redisVars, localVars
<1>5. PaidFor'
  BY PaidForStays DEF EndSync, SelectInv
<1> QED
  BY <1>3, <1>4, <1>5 DEF SelectInv

LEMMA SeedReadStep ==
    ASSUME SelectInv, NEW i \in Instance, SeedRead(i), UNCHANGED <<mode, clock, catalog>>
    PROVE  SelectInv'
<1>1. Onward(i, "placing") /\ stage[i] = "seeding" /\ UNCHANGED tries
  BY DEF SeedRead, Enter, Onward
<1>2. tries[i] < Evals
  BY <1>1 DEF SelectInv, Asked
<1>3. /\ Asked' /\ NeverRefusedInVain'
      /\ stage' \in [Instance -> Remote \union {"idle", "local"}]
      /\ todo' \in [Instance -> SUBSET Proxy]
  BY <1>1, <1>2, OnwardStep DEF Remote
<1> DEFINE scores == [p \in allowed(i) |-> IF p \in DOMAIN node THEN node[p].runtime ELSE 0]
<1>4. scores \in Partial(Nat) /\ \A p \in DOMAIN scores : scores[p] <= Fee[p]
  <2>1. node \in Partial(Node) /\ Fee \in Fees /\ view[i] \in Partial(Clock)
    BY KeysAreKeys, FeeType DEF SelectInv, SelectTypes, PaidFor
  <2>2. ASSUME NEW p \in allowed(i)
        PROVE  p \in Proxy /\ scores[p] \in Nat /\ scores[p] <= Fee[p]
    <3>1. p \in Proxy /\ Fee[p] \in Nat
      BY <2>1, InPartial DEF allowed, Fees
    <3>2. p \in DOMAIN node => node[p].runtime \in Nat /\ node[p].runtime <= Fee[p]
      <4>1. p \in DOMAIN node => node[p] \in Node
        BY <2>1, InPartial
      <4> QED
        BY <4>1, KeysAreKeys DEF SelectInv, PaidFor, Node
    <3> QED
      BY <3>1, <3>2
  <2>3. DOMAIN scores = allowed(i) /\ scores = [p \in DOMAIN scores |-> scores[p]]
    OBVIOUS
  <2> HIDE DEF scores
  <2> QED
    BY <2>2, <2>3, InPartial
<1>5. plan' = [plan EXCEPT ![i] = scores]
  BY DEF SeedRead
<1> HIDE DEF scores
<1>6. plan \in [Instance -> Partial(Nat)]
  BY DEF SelectInv, SelectTypes
<1>7. plan' \in [Instance -> Partial(Nat)]
  BY <1>4, <1>5, <1>6
<1>8. SelectTypes'
  BY <1>3, <1>7 DEF SeedRead, SelectInv, SelectTypes, redisVars, localVars
<1>9. PaidFor'
  <2>1. Fee' = Fee /\ Keys' = Keys
    BY DEF SeedRead, redisVars, Fee, Keys
  <2>2. \A j \in Instance : plan'[j] = IF j = i THEN scores ELSE plan[j]
    BY <1>5, <1>6
  <2> QED
    BY <1>4, <2>1, <2>2 DEF SelectInv, PaidFor, Priced
<1> QED
  BY <1>3, <1>8, <1>9 DEF SelectInv

(* After a seed, or without one, the create asks again or gives up. *)
LEMMA TryAgainStep ==
    ASSUME SelectInv, NEW i \in Instance, stage[i] \in {"seeding", "placing"}, TryAgain(i),
           ready' = ready \/ ready' = Seeded(i), UNCHANGED <<mode, clock, catalog>>
    PROVE  SelectInv'
<1>1. /\ plan' = [plan EXCEPT ![i] = Empty]
      /\ tries' = [tries EXCEPT ![i] = @ + 1]
      /\ stage' = [stage EXCEPT ![i] = IF tries[i] + 1 < Evals THEN "evaluating" ELSE "fallback"]
      /\ UNCHANGED <<node, delayed, charged, localVars, left, view, stamp, todo, synced, answer>>
  BY DEF TryAgain, Enter
<1>2. /\ tries \in [Instance -> 0 .. Evals] /\ tries[i] < Evals /\ Evals \in Nat
      /\ plan \in [Instance -> Partial(Nat)]
  BY ModeAssumption DEF SelectInv, SelectTypes, Asked
<1>3. /\ tries' \in [Instance -> 0 .. Evals] /\ tries'[i] = tries[i] + 1
      /\ \A j \in Instance \ {i} : tries'[j] = tries[j]
  BY <1>1, <1>2
<1>4. PICK s \in {"evaluating", "fallback"} :
        stage' = [stage EXCEPT ![i] = s] /\ (s = "evaluating" => tries'[i] < Evals)
  BY <1>1, <1>3
<1>5. /\ Asked' /\ NeverRefusedInVain'
      /\ stage' \in [Instance -> Remote \union {"idle", "local"}]
      /\ todo' \in [Instance -> SUBSET Proxy]
  <2>1. Onward(i, s) /\ s \in Remote
    BY <1>1, <1>4 DEF Onward, Remote
  <2> QED
    BY <1>3, <1>4, <2>1, OnwardStep
<1>6. /\ plan' \in [Instance -> Partial(Nat)]
      /\ \A j \in Instance : \A p \in DOMAIN plan'[j] : j # i /\ plan'[j] = plan[j]
  <2>1. Empty \in Partial(Nat) /\ DOMAIN Empty = {}
    BY EmptyIsPartial DEF Empty
  <2> QED
    BY <1>1, <1>2, <2>1
<1>7. SelectTypes'
  BY <1>1, <1>3, <1>5, <1>6 DEF SelectInv, SelectTypes, localVars
<1>8. ready' \in Partial(Nat) /\ \A p \in DOMAIN ready' : ready'[p] <= Fee[p]
  <2>1. ready \in Partial(Nat) /\ \A p \in DOMAIN ready : ready[p] <= Fee[p]
    BY KeysAreKeys DEF SelectInv, PaidFor
  <2>2. plan[i] \in Partial(Nat) /\ \A p \in DOMAIN plan[i] : plan[i][p] <= Fee[p]
    BY <1>2 DEF SelectInv, PaidFor
  <2>3. CASE ready' = ready
    BY <2>1, <2>3
  <2>4. CASE ready' = With(ready, plan[i])
    <3>1. ready' \in Partial(Nat)
      BY <2>1, <2>2, <2>4, WithPartial
    <3>2. ASSUME NEW p \in DOMAIN ready' PROVE ready'[p] <= Fee[p]
      <4>1. \/ p \in DOMAIN plan[i] /\ ready'[p] = plan[i][p]
            \/ p \in DOMAIN ready /\ ready'[p] = ready[p]
        BY <2>4, <3>2 DEF With
      <4> QED
        BY <2>1, <2>2, <4>1
    <3> QED
      BY <3>1, <3>2
  <2> QED
    BY <2>3, <2>4 DEF Seeded
<1>9. PaidFor'
  <2>1. Fee' = Fee
    BY <1>1 DEF Fee
  <2>2. Priced(Keys', Fee)
    BY <1>1, <1>8 DEF SelectInv, PaidFor, Priced, KeySpace, Keys
  <2> QED
    BY <1>6, <2>1, <2>2 DEF SelectInv, PaidFor
<1> QED
  BY <1>5, <1>7, <1>9 DEF SelectInv

LEMMA RedisFailsStep ==
    ASSUME SelectInv, NEW i \in Instance, RedisFails(i), UNCHANGED <<mode, clock, catalog>>
    PROVE  SelectInv'
<1>1. Onward(i, "local") /\ stage[i] # "idle" /\ UNCHANGED tries
  BY DEF RedisFails, Remote, Enter, Onward
<1>2. /\ Asked' /\ NeverRefusedInVain'
      /\ stage' \in [Instance -> Remote \union {"idle", "local"}]
      /\ todo' \in [Instance -> SUBSET Proxy]
  BY <1>1, OnwardStep DEF Remote
<1>3. SelectTypes'
  BY <1>2 DEF RedisFails, SelectInv, SelectTypes, redisVars, localVars
<1>4. PaidFor'
  BY PaidForStays DEF RedisFails, SelectInv
<1> QED
  BY <1>2, <1>3, <1>4 DEF SelectInv

LEMMA LocalSelectStep ==
    ASSUME SelectInv, NEW i \in Instance, LocalSelect(i), UNCHANGED <<mode, clock, catalog>>
    PROVE  SelectInv'
<1> DEFINE gain == Raised(i)
           p == Richest(gain)
           S == allowed(i)
<1>1. /\ view[i] \in Partial(Clock) /\ credit \in [Instance -> Partial(Int)]
      /\ waited \in [Instance -> [Proxy -> Nat]]
  BY DEF SelectInv, SelectTypes
<1>2. S \in SUBSET Proxy /\ S # {}
  BY <1>1, InPartial DEF LocalSelect, SelectInv, Asked, allowed
<1>3. gain \in [S -> Int]
  <2>1. \A q \in DOMAIN credit[i] : credit[i][q] \in Int
    BY <1>1, InPartial
  <2>2. \A q \in S : Weight[q] \in Int
    BY <1>2, WeightIsNat
  <2> QED
    BY <2>1, <2>2 DEF Raised
<1>4. p \in S
  BY <1>2, <1>3, RichestIsEligible
<1>5. Cost(S, p) \in Int
  BY <1>2, TotalWeightIsInt DEF Cost
<1>6. /\ stage[i] = "local"
      /\ credit' = [credit EXCEPT ![i] = [gain EXCEPT ![p] = @ - Cost(S, p)]]
      /\ waited' = [waited EXCEPT ![i] =
             [q \in Proxy |-> IF q \in S \ {p} THEN waited[i][q] + 1 ELSE 0]]
      /\ Give(i, p)
      /\ UNCHANGED <<redisVars, left, view, stamp, todo, synced, plan, tries>>
  BY DEF LocalSelect
<1> HIDE DEF gain, p
<1>7. /\ Asked' /\ NeverRefusedInVain'
      /\ stage' \in [Instance -> Remote \union {"idle", "local"}]
      /\ answer' \in [Instance -> Proxy \union {None, Refusal}]
  BY <1>4, <1>6, GiveStep
<1>8. credit' \in [Instance -> Partial(Int)]
  <2> DEFINE paid == [gain EXCEPT ![p] = @ - Cost(S, p)]
  <2>1. paid \in [S -> Int]
    BY <1>3, <1>4, <1>5
  <2>2. paid \in Partial(Int)
    BY <1>2, <2>1 DEF Partial
  <2> HIDE DEF paid
  <2> QED
    BY <1>1, <1>6, <2>2 DEF paid
<1>9. waited' \in [Instance -> [Proxy -> Nat]]
  BY <1>1, <1>6
<1>10. SelectTypes'
  BY <1>6, <1>7, <1>8, <1>9 DEF SelectInv, SelectTypes, redisVars
<1>11. PaidFor'
  BY <1>6, PaidForStays DEF SelectInv
<1> QED
  BY <1>7, <1>10, <1>11 DEF SelectInv

(* The script picks a proxy, or finds none: either way what it stores is   *)
(* what has been charged, and its answer is a candidate.                   *)
LEMMA EvaluateStep ==
    ASSUME SelectInv, NEW i \in Instance, Evaluate(i), UNCHANGED <<mode, clock, catalog>>
    PROVE  SelectInv'
<1> DEFINE t == stamp[i]
           k == Prepared(Keys, allowed(i), t)
           S == Pickable(k, allowed(i), t)
           p == Lowest(k.ready, S)
           scanned == Scanned(k, allowed(i), t)
<1>1. /\ t \in Clock /\ Fee \in Fees /\ Priced(Keys, Fee) /\ charged \in [Proxy -> Nat]
  BY FeeType DEF SelectInv, SelectTypes, PaidFor
<1>2. Priced(k, Fee)
  <2> HIDE DEF t
  <2> QED
    BY <1>1, PreparedPriced
<1>3. /\ Priced(scanned, Fee)
      /\ S # {} => p \in DOMAIN scanned.ready \intersect DOMAIN scanned.node
  <2> HIDE DEF t, k
  <2> QED
    BY <1>1, <1>2, ScannedPriced
<1>4. S # {} => p \in allowed(i) /\ p \in Proxy
  <2> HIDE DEF t, k
  <2> QED
    BY <1>2, PickableIsKnown
<1>5. /\ stage[i] = "evaluating"
      /\ \/ /\ S = {} /\ SetKeys(scanned)
            /\ Enter(i, "seeding") /\ UNCHANGED <<answer, charged>>
         \/ /\ S # {} /\ SetKeys(Paid(scanned, p, t))
            /\ charged' = [charged EXCEPT ![p] = @ + 1]
            /\ Give(i, p) \/ Lost(i, "seeding")
      /\ UNCHANGED <<localVars, left, view, stamp, todo, synced, plan, tries>>
  BY DEF Evaluate
<1> HIDE DEF t, k, S, p, scanned
<1>6. ASSUME Enter(i, "seeding"), UNCHANGED answer
      PROVE  /\ Asked' /\ NeverRefusedInVain' /\ UNCHANGED answer
             /\ stage' \in [Instance -> Remote \union {"idle", "local"}]
  <2>1. Onward(i, "seeding") /\ UNCHANGED tries /\ tries[i] < Evals
    BY <1>5, <1>6 DEF Onward, Enter, SelectInv, Asked
  <2> QED
    BY <1>5, <1>6, <2>1, OnwardStep DEF Remote
<1>7. /\ Asked' /\ NeverRefusedInVain'
      /\ stage' \in [Instance -> Remote \union {"idle", "local"}]
      /\ answer' \in [Instance -> Proxy \union {None, Refusal}]
  <2>1. CASE Give(i, p) /\ S # {}
    BY <1>4, <1>5, <2>1, GiveStep
  <2>2. CASE Enter(i, "seeding") /\ UNCHANGED answer
    BY <1>6, <2>2 DEF SelectInv, SelectTypes
  <2> QED
    BY <1>5, <2>1, <2>2 DEF Lost
<1>8. PaidFor' /\ charged' \in [Proxy -> Nat]
  <2>1. CASE S = {}
    <3>1. Keys' = scanned /\ Fee' = Fee /\ UNCHANGED <<plan, charged>>
      <4>1. scanned = [node |-> scanned.node, ready |-> scanned.ready, delayed |-> scanned.delayed]
        BY <1>3 DEF Priced, KeySpace
      <4>2. Keys' = scanned
        BY <1>5, <2>1, <4>1 DEF SetKeys, Keys
      <4> QED
        BY <1>5, <2>1, <4>2 DEF Fee
    <3> QED
      BY <1>1, <1>3, <3>1 DEF SelectInv, PaidFor
  <2>2. CASE S # {}
    <3> DEFINE paid == Paid(scanned, p, t)
    <3>1. /\ charged' = [charged EXCEPT ![p] = @ + 1] /\ p \in Proxy
          /\ UNCHANGED plan /\ SetKeys(paid)
      BY <1>4, <1>5, <2>2
    <3>2. charged' \in [Proxy -> Nat]
      BY <1>1, <3>1
    <3>3. /\ Fee' = [Fee EXCEPT ![p] = @ + Charge(p)] /\ Fee' \in Fees
          /\ \A q \in Proxy : Fee[q] <= Fee'[q]
      <4>1. /\ Fee' = [Fee EXCEPT ![p] = @ + Charge(p)]
            /\ \A q \in Proxy : Fee[q] <= Fee'[q]
        BY <1>1, <3>1, FeeGrows
      <4>2. Charge(p) \in Nat
        BY <3>1, ChargeIsNat
      <4> HIDE DEF Fee
      <4>3. [Fee EXCEPT ![p] = @ + Charge(p)] \in Fees
        BY <1>1, <3>1, <4>2 DEF Fees
      <4> QED
        BY <4>1, <4>3
    <3>4. Priced(paid, Fee')
      <4> DEFINE d == [Fee EXCEPT ![p] = @ + Charge(p)]
      <4>1. d = [Fee EXCEPT ![p] = @ + Charge(p)] /\ d \in Fees
        BY <3>3
      <4> HIDE DEF d
      <4>2. Priced(Paid(scanned, p, t), d)
        BY <1>1, <1>3, <2>2, <4>1, PaidPriced
      <4> QED
        BY <3>3, <4>1, <4>2
    <3> HIDE DEF paid
    <3>5. Keys' = paid
      <4>1. paid = [node |-> paid.node, ready |-> paid.ready, delayed |-> paid.delayed]
        BY <3>4 DEF Priced, KeySpace
      <4> QED
        BY <3>1, <4>1 DEF SetKeys, Keys
    <3>6. ASSUME NEW j \in Instance, NEW q \in DOMAIN plan[j] PROVE plan[j][q] <= Fee'[q]
      <4>1. q \in Proxy /\ plan[j][q] \in Nat /\ plan[j][q] <= Fee[q]
        <5>1. plan[j] \in Partial(Nat)
          BY DEF SelectInv, SelectTypes
        <5> QED
          BY <5>1, InPartial DEF SelectInv, PaidFor
      <4>2. Fee[q] \in Nat /\ Fee'[q] \in Nat
        BY <1>1, <3>3, <4>1 DEF Fees
      <4> QED
        BY <3>3, <4>1, <4>2
    <3> QED
      BY <3>1, <3>2, <3>4, <3>5, <3>6 DEF PaidFor
  <2> QED
    BY <2>1, <2>2
<1>9. SelectTypes'
  BY <1>5, <1>7, <1>8 DEF SelectInv, SelectTypes, localVars
<1> QED
  BY <1>7, <1>8, <1>9 DEF SelectInv

(* The fallback script charges in the hash alone. *)
LEMMA FallbackStep ==
    ASSUME SelectInv, NEW i \in Instance, Fallback(i), UNCHANGED <<mode, clock, catalog>>
    PROVE  SelectInv'
<1>1. /\ stage[i] = "fallback"
      /\ UNCHANGED <<ready, delayed, localVars, left, view, stamp, todo, synced, plan, tries>>
      /\ \/ EmptyAnswer(i) /\ UNCHANGED <<node, charged>>
         \/ \E p \in allowed(i) \intersect DOMAIN node :
              /\ node' = [node EXCEPT ![p].runtime = @ + Charge(p), ![p].next = clock]
              /\ charged' = [charged EXCEPT ![p] = @ + 1]
              /\ Give(i, p) \/ Lost(i, "local")
  BY DEF Fallback
<1>2. /\ charged \in [Proxy -> Nat] /\ Priced(Keys, Fee) /\ node \in Partial(Node)
      /\ Fee \in Fees /\ clock \in Clock
  BY KeysAreKeys, FeeType DEF SelectInv, SelectTypes, PaidFor
<1>3. ASSUME Enter(i, "local"), UNCHANGED answer
      PROVE  /\ Asked' /\ NeverRefusedInVain'
             /\ stage' \in [Instance -> Remote \union {"idle", "local"}]
             /\ answer' \in [Instance -> Proxy \union {None, Refusal}]
  <2>1. Onward(i, "local") /\ UNCHANGED tries
    BY <1>1, <1>3 DEF Onward, Enter
  <2>2. answer \in [Instance -> Proxy \union {None, Refusal}]
    BY DEF SelectInv, SelectTypes
  <2> QED
    BY <1>1, <1>3, <2>1, <2>2, OnwardStep DEF Remote
<1>4. CASE EmptyAnswer(i) /\ UNCHANGED <<node, charged>>
  <2>1. PaidFor'
    BY <1>1, <1>4, PaidForStays DEF SelectInv, redisVars
  <2>2. /\ Asked' /\ NeverRefusedInVain'
        /\ stage' \in [Instance -> Remote \union {"idle", "local"}]
        /\ answer' \in [Instance -> Proxy \union {None, Refusal}]
    BY <1>3, <1>4 DEF EmptyAnswer
  <2>3. SelectTypes'
    BY <1>1, <1>4, <2>2 DEF SelectInv, SelectTypes, localVars
  <2> QED
    BY <2>1, <2>2, <2>3 DEF SelectInv
<1>5. ASSUME NEW p \in allowed(i) \intersect DOMAIN node,
             node' = [node EXCEPT ![p].runtime = @ + Charge(p), ![p].next = clock],
             charged' = [charged EXCEPT ![p] = @ + 1],
             Give(i, p) \/ Lost(i, "local")
      PROVE  SelectInv'
  <2>1. p \in Proxy /\ node[p] \in Node /\ node[p].runtime <= Fee[p] /\ Charge(p) \in Nat
    <3>1. p \in Proxy /\ node[p] \in Node
      BY <1>2, InPartial
    <3> QED
      BY <1>2, <3>1, KeysAreKeys, ChargeIsNat
  <2>2. /\ Asked' /\ NeverRefusedInVain'
        /\ stage' \in [Instance -> Remote \union {"idle", "local"}]
        /\ answer' \in [Instance -> Proxy \union {None, Refusal}]
    <3>1. CASE Give(i, p)
      BY <1>1, <3>1, GiveStep
    <3>2. CASE Enter(i, "local") /\ UNCHANGED answer
      BY <1>3, <3>2
    <3> QED
      BY <1>5, <3>1, <3>2 DEF Lost
  <2>3. charged' \in [Proxy -> Nat]
    BY <1>2, <1>5, <2>1
  <2>4. /\ Fee' = [Fee EXCEPT ![p] = @ + Charge(p)]
        /\ \A q \in Proxy : Fee[q] <= Fee'[q]
    BY <1>2, <1>5, <2>1, FeeGrows
  <2>5. /\ \A q \in Proxy : Fee[q] \in Nat /\ Fee'[q] \in Nat
        /\ Fee'[p] = Fee[p] + Charge(p)
    <3> HIDE DEF Fee
    <3> QED
      BY <1>2, <2>1, <2>4 DEF Fees
  <2>6. /\ DOMAIN node' = DOMAIN node /\ node' = [q \in DOMAIN node' |-> node'[q]]
        /\ \A q \in DOMAIN node : q # p => node'[q] = node[q]
        /\ node'[p] = [until |-> node[p].until, next |-> clock,
                       runtime |-> node[p].runtime + Charge(p)]
    BY <1>2, <1>5, <2>1, InPartial DEF Node
  <2>7. \A q \in DOMAIN node : q \in Proxy /\ node[q] \in Node /\ node[q].runtime <= Fee[q]
    BY <1>2, InPartial, KeysAreKeys
  <2>8. node'[p] \in Node /\ node'[p].runtime <= Fee'[p]
    BY <1>2, <2>1, <2>5, <2>6 DEF Node
  <2> HIDE DEF Fee
  <2>9. node' \in Partial(Node)
    BY <2>6, <2>7, <2>8, InPartial
  <2>10. \A q \in DOMAIN node' : node'[q].runtime <= Fee'[q]
    BY <2>4, <2>5, <2>6, <2>7, <2>8 DEF Node
  <2>11. ready \in Partial(Nat) /\ \A q \in DOMAIN ready : ready[q] <= Fee'[q]
    <3>1. ready \in Partial(Nat) /\ \A q \in DOMAIN ready : ready[q] <= Fee[q]
      BY <1>2, KeysAreKeys
    <3>2. \A q \in DOMAIN ready : q \in Proxy /\ ready[q] \in Nat
      BY <3>1, InPartial
    <3> QED
      BY <3>1, <3>2, <2>4, <2>5
  <2>12. \A j \in Instance : \A q \in DOMAIN plan[j] : plan[j][q] <= Fee'[q]
    <3> TAKE j \in Instance
    <3> TAKE q \in DOMAIN plan[j]
    <3>1. q \in Proxy /\ plan[j][q] \in Nat /\ plan[j][q] <= Fee[q]
      <4>1. plan[j] \in Partial(Nat)
        BY DEF SelectInv, SelectTypes
      <4> QED
        BY <4>1, InPartial DEF SelectInv, PaidFor
    <3> QED
      BY <3>1, <2>4, <2>5
  <2>13. Priced(Keys', Fee')
    <3>1. delayed \in Partial(Clock)
      BY <1>2, KeysAreKeys
    <3> QED
      BY <1>1, <2>9, <2>10, <2>11, <3>1 DEF Priced, KeySpace, Keys
  <2>14. PaidFor'
    BY <1>1, <2>12, <2>13 DEF PaidFor
  <2>15. SelectTypes'
    BY <1>1, <2>2, <2>3 DEF SelectInv, SelectTypes, localVars
  <2> QED
    BY <2>2, <2>14, <2>15 DEF SelectInv
<1> QED
  BY <1>1, <1>4, <1>5

LEMMA SelectInvStep == SelectInv /\ [SelectNext]_selectVars => SelectInv'
<1> SUFFICES ASSUME SelectInv, [SelectNext]_selectVars PROVE SelectInv'
  OBVIOUS
<1>1. CASE UNCHANGED selectVars
  BY <1>1 DEF selectVars, redisVars, localVars, SelectInv, SelectTypes, Asked, PaidFor, Priced,
              Keys, Fee, NeverRefusedInVain, allowed
<1>2. ASSUME NEW i \in Instance, InstanceStep(i) PROVE SelectInv'
  <2>1. UNCHANGED <<mode, clock, catalog>>
    BY <1>2 DEF InstanceStep
  <2>2. CASE BeginCreate(i)
    BY <2>1, <2>2, BeginCreateStep
  <2>3. CASE SkipSync(i)
    BY <2>1, <2>3, SkipSyncStep
  <2>4. CASE WriteNode(i)
    BY <2>1, <2>4, WriteNodeStep
  <2>5. CASE EndSync(i)
    BY <2>1, <2>5, EndSyncStep
  <2>6. CASE Evaluate(i)
    BY <2>1, <2>6, EvaluateStep
  <2>7. CASE SeedRead(i)
    BY <2>1, <2>7, SeedReadStep
  <2>8. CASE SeedWrite(i)
    BY <2>1, <2>8, TryAgainStep DEF SeedWrite
  <2>9. CASE SeedFails(i)
    BY <2>1, <2>9, TryAgainStep DEF SeedFails
  <2>10. CASE Fallback(i)
    BY <2>1, <2>10, FallbackStep
  <2>11. CASE RedisFails(i)
    BY <2>1, <2>11, RedisFailsStep
  <2>12. CASE LocalSelect(i)
    BY <2>1, <2>12, LocalSelectStep
  <2> QED
    BY <1>2, <2>2, <2>3, <2>4, <2>5, <2>6, <2>7, <2>8, <2>9, <2>10, <2>11, <2>12
    DEF InstanceStep
<1>3. CASE Change \/ ClockTick
  <2>1. UNCHANGED <<mode, redisVars, localVars, stage, left, view, stamp, todo,
                    synced, plan, tries, answer>>
    BY <1>3 DEF Change, ClockTick
  <2>2. catalog' \in Partial(Clock)
    <3>1. mode.catalogs \subseteq Partial(Clock)
      BY ModeAssumption, ClockIsListing DEF SelectInv, SelectTypes
    <3> QED
      BY <1>3, <3>1 DEF Change, ClockTick, SelectInv, SelectTypes
  <2>3. clock' \in Clock
    <3>1. mode.horizon \in Clock
      BY ModeAssumption DEF SelectInv, SelectTypes
    <3>2. CASE ClockTick
      BY <3>1, <3>2, ModeAssumption DEF ClockTick, SelectInv, SelectTypes, Clock
    <3>3. CASE Change
      BY <3>3 DEF Change, SelectInv, SelectTypes
    <3> QED
      BY <1>3, <3>2, <3>3
  <2>4. SelectTypes'
    BY <2>1, <2>2, <2>3 DEF SelectInv, SelectTypes, redisVars, localVars
  <2>5. Asked' /\ NeverRefusedInVain'
    BY <2>1 DEF SelectInv, Asked, NeverRefusedInVain, allowed
  <2>6. PaidFor'
    BY <2>1, PaidForStays DEF SelectInv
  <2> QED
    BY <2>4, <2>5, <2>6 DEF SelectInv
<1> QED
  BY <1>1, <1>2, <1>3 DEF SelectNext

(* The hashes, the sorted sets, the credits and what an instance has read  *)
(* hold what they may hold (redis_zfair.go, local.go).                     *)
THEOREM SelectionTypeCorrect == SelectSpec => []SelectionTypeOK
<1>1. SelectInv => SelectionTypeOK
  <2> SUFFICES ASSUME SelectInv PROVE SelectionTypeOK
    OBVIOUS
  <2>1. node \in Partial(Node) /\ ready \in Partial(Nat) /\ delayed \in Partial(Clock)
    BY KeysAreKeys DEF SelectInv, PaidFor
  <2>2. /\ DOMAIN node \subseteq Proxy
        /\ \A p \in DOMAIN node : node[p] \in [until : Clock, next : Clock, runtime : Nat]
    BY <2>1, InPartial DEF Node
  <2>3. DOMAIN ready \subseteq Proxy /\ \A p \in DOMAIN ready : ready[p] \in Nat
    BY <2>1, InPartial
  <2>4. \A i \in Instance : DOMAIN plan[i] \subseteq Proxy /\ DOMAIN credit[i] \subseteq Proxy
    <3>1. \A i \in Instance : plan[i] \in Partial(Nat) /\ credit[i] \in Partial(Int)
      BY DEF SelectInv, SelectTypes
    <3> QED
      BY <3>1, InPartial
  <2> QED
    BY <2>1, <2>2, <2>3, <2>4, ClockIsListing DEF SelectInv, SelectTypes, SelectionTypeOK
<1> QED
  BY <1>1, SelectInvInit, SelectInvStep, PTL DEF SelectSpec

(* A create that found an eligible proxy is given one of those it found,    *)
(* whatever becomes of its scripts (redis_zfair.go: Select, its fallback). *)
THEOREM CreatesAreServed == SelectSpec => []NeverRefusedInVain
<1>1. SelectInv => NeverRefusedInVain
  BY DEF SelectInv
<1> QED
  BY <1>1, SelectInvInit, SelectInvStep, PTL DEF SelectSpec

(* No runtime and no score is above what its proxy was charged for its      *)
(* selections, however the scripts, the sync and the seeding of several    *)
(* instances interleave and fail (redis_zfair.go).                         *)
THEOREM NobodyIsOvercharged == SelectSpec => []NeverOvercharged
<1>1. SelectInv => NeverOvercharged
  <2> SUFFICES ASSUME SelectInv PROVE NeverOvercharged
    OBVIOUS
  <2>1. /\ node \in Partial(Node) /\ ready \in Partial(Nat)
        /\ \A p \in DOMAIN node : node[p].runtime <= Fee[p]
        /\ \A p \in DOMAIN ready : ready[p] <= Fee[p]
    BY KeysAreKeys DEF SelectInv, PaidFor
  <2>2. \A p \in Proxy : Fee[p] = charged[p] * Charge(p)
    BY DEF Fee
  <2>3. DOMAIN node \subseteq Proxy /\ DOMAIN ready \subseteq Proxy
    BY <2>1, InPartial
  <2> HIDE DEF Fee
  <2> QED
    BY <2>1, <2>2, <2>3 DEF NeverOvercharged
<1> QED
  BY <1>1, SelectInvInit, SelectInvStep, PTL DEF SelectSpec

-----------------------------------------------------------------------------
(* The local selector: the bounds on its credit                            *)

(* Products keep the order, and show it. *)
LEMMA TimesKeeps ==
    ASSUME NEW a \in Nat, NEW x \in Int, NEW y \in Int, x <= y
    PROVE  a * x <= a * y
<1>1. a * (y - x) >= 0
  BY y - x \in Nat
<1>2. a * (y - x) = a * y - a * x
  OBVIOUS
<1> QED
  BY <1>1, <1>2

LEMMA TimesShows ==
    ASSUME NEW a \in Nat \ {0}, NEW x \in Int, NEW y \in Int, a * x <= a * y
    PROVE  x <= y
<1>1. SUFFICES ASSUME y + 1 <= x PROVE FALSE
  OBVIOUS
<1>2. a * (y + 1) <= a * x
  BY <1>1, TimesKeeps
<1>3. a * (y + 1) = a * y + a
  OBVIOUS
<1> QED
  BY <1>2, <1>3

(* k proxies that have A together, none of them more than g: what they can *)
(* have when they and one with g have n rounds at most.                    *)
LEMMA MostOfSome ==
    ASSUME NEW n \in Nat, NEW k \in Nat, k < n, NEW R \in Nat, NEW A \in Int, NEW g \in Int,
           A <= g * k, A + g <= n * R
    PROVE  A <= (n - 1) * R
<1>1. k * (A + g) <= k * (n * R)
  BY TimesKeeps
<1>2. k * (A + g) = k * A + g * k
  OBVIOUS
<1>3. (k + 1) * A = k * A + A
  OBVIOUS
<1>4. (k + 1) * A <= k * (n * R)
  BY <1>1, <1>2, <1>3
<1>5. (k + 1) * ((n - 1) * R) = k * (n * R) + (n - k - 1) * R
  OBVIOUS
<1>6. (n - k - 1) * R >= 0
  <2>1. R * 0 <= R * (n - k - 1)
    BY TimesKeeps
  <2> QED
    BY <2>1
<1>7. (k + 1) * A <= (k + 1) * ((n - 1) * R)
  BY <1>4, <1>5, <1>6
<1> QED
  BY <1>7, TimesShows

(* What k of n proxies owe, in halves of a round, when each of them was     *)
(* picked right after the one before.                                      *)
Debt(n, k) == k * (2 * n - k - 1)

LEMMA DebtGrows ==
    ASSUME NEW n \in Nat, NEW j \in Nat, NEW k \in Nat, j <= k, k <= n
    PROVE  Debt(n, j) <= Debt(n, k)
<1>1. Debt(n, k) - Debt(n, j) = (k - j) * (2 * n - j - k - 1)
  BY DEF Debt
<1>2. CASE j = k
  BY <1>2 DEF Debt
<1>3. CASE j < k
  <2>1. 2 * n - j - k - 1 >= 0
    BY <1>3
  <2>2. (k - j) * 0 <= (k - j) * (2 * n - j - k - 1)
    BY <2>1, TimesKeeps, k - j \in Nat
  <2>3. Debt(n, k) \in Int /\ Debt(n, j) \in Int
    BY DEF Debt
  <2> QED
    BY <1>1, <2>2, <2>3
<1> QED
  BY <1>2, <1>3

(* One of k proxies pays a round S of which u others have their part: Y is *)
(* what the other k - 1 have, of which P was added in this round, and      *)
(* the u have no more than g, what the one has, each.                      *)
LEMMA LeastOfSome ==
    ASSUME NEW n \in Nat, NEW k \in Nat, NEW u \in Nat \ {0}, NEW R \in Nat,
           NEW Y \in Int, NEW g \in Int, NEW P \in Int, NEW S \in Int, S - P <= R,
           2 * (Y - P) >= -(R * Debt(n, k - 1)),
           2 * (Y + g + g * u - S) >= -(R * Debt(n, k + u))
    PROVE  2 * (Y + g - S) >= -(R * Debt(n, k))
<1> DEFINE a == R * Debt(n, k - 1)
           b == R * Debt(n, k + u)
           c == R * Debt(n, k)
<1>1. a \in Int /\ b \in Int /\ c \in Int
  BY DEF Debt
<1>2. u * a + b + 2 * (u * R) <= (u + 1) * c
  <2>1. (u + 1) * c - u * a - b - 2 * (u * R) = R * (u * (u - 1))
    BY DEF Debt
  <2>2. R * (u * (u - 1)) >= 0
    <3>1. u * 0 <= u * (u - 1)
      BY TimesKeeps
    <3>2. R * 0 <= R * (u * (u - 1))
      BY <3>1, TimesKeeps
    <3> QED
      BY <3>2
  <2>3. u * a \in Int /\ (u + 1) * c \in Int /\ u * R \in Int
    BY <1>1
  <2> HIDE DEF a, b, c
  <2> QED
    BY <2>1, <2>2, <2>3, <1>1
<1> HIDE DEF a, b, c
<1>3. 2 * (Y - P) >= -a /\ 2 * (Y + g + g * u - S) >= -b
  BY DEF a, b
<1>4. -(u * a) <= u * (2 * (Y - P))
  <2>1. u * (-a) <= u * (2 * (Y - P))
    BY <1>1, <1>3, TimesKeeps
  <2>2. u * (-a) = -(u * a)
    BY <1>1
  <2> QED
    BY <2>1, <2>2
<1>5. u * (S - P) <= u * R
  BY TimesKeeps
<1>6. (u + 1) * (2 * (Y + g - S)) =
        u * (2 * (Y - P)) + 2 * (Y + g + g * u - S) - 2 * (u * (S - P))
  OBVIOUS
<1>7. (u + 1) * (-c) <= (u + 1) * (2 * (Y + g - S))
  <2>1. (u + 1) * (-c) = -((u + 1) * c)
    BY <1>1
  <2>2. /\ u * a \in Int /\ (u + 1) * c \in Int /\ u * R \in Int /\ u * (S - P) \in Int
        /\ u * (2 * (Y - P)) \in Int /\ 2 * (Y + g + g * u - S) \in Int
    BY <1>1
  <2>3. /\ -(u * a) <= u * (2 * (Y - P)) /\ -b <= 2 * (Y + g + g * u - S)
        /\ u * (S - P) <= u * R /\ u * a + b + 2 * (u * R) <= (u + 1) * c
    BY <1>2, <1>3, <1>4, <1>5, <1>1
  <2> QED
    BY <1>1, <1>6, <2>1, <2>2, <2>3
<1>8. -c <= 2 * (Y + g - S)
  BY <1>1, <1>7, TimesShows, u + 1 \in Nat \ {0}
<1> QED
  BY <1>8 DEF c

Round == TotalWeight(Proxy)

Many == Cardinality(Proxy)

(* What any of the proxies have together: no more than a round for each of *)
(* the others, and what k of them owe is at most what they owe when each   *)
(* was picked right after the one before.                                  *)
Balanced(v) ==
    \A T \in SUBSET Proxy :
        /\ SumOf(v, T) <= (Many - 1) * Round
        /\ 2 * SumOf(v, T) >= -(Round * Debt(Many, Cardinality(T)))

LEMMA WeightsAdd ==
    /\ IsFiniteSet(Proxy) /\ Many \in Nat /\ Round \in Nat
    /\ \A p \in Proxy : Weight[p] \in Nat \ {0}
    /\ \A T \in SUBSET Proxy : SumOf(Weight, T) \in Nat
    /\ \A T \in SUBSET Proxy, U \in SUBSET Proxy :
          U \subseteq T => SumOf(Weight, U) <= SumOf(Weight, T)
    /\ Round = SumOf(Weight, Proxy)
<1>1. IsFiniteSet(Proxy) /\ Many \in Nat /\ \A p \in Proxy : Weight[p] \in Nat \ {0}
  BY ModeAssumption, FS_CardinalityType DEF Many
<1>2. Round = SumOf(Weight, Proxy)
  BY TotalIsSum DEF Round
<1>3. \A p \in Proxy : Weight[p] \in Nat
  BY <1>1
<1>4. /\ \A T \in SUBSET Proxy : SumOf(Weight, T) \in Nat
      /\ \A T \in SUBSET Proxy, U \in SUBSET Proxy :
            U \subseteq T => SumOf(Weight, U) <= SumOf(Weight, T)
  BY <1>1, <1>3, SumOfNats
<1> QED
  BY <1>1, <1>2, <1>4

(* A selection: the proxies S gain their weights, q has the most, and pays *)
(* a round of S.                                                           *)
Selects(v, w, S, q) ==
    /\ S \in SUBSET Proxy /\ q \in S
    /\ \A p \in Proxy : v[p] \in Int /\ w[p] \in Int
    /\ \A p \in S : v[p] + Weight[p] <= v[q] + Weight[q]
    /\ \A p \in S \ {q} : w[p] = v[p] + Weight[p]
    /\ w[q] = v[q] + Weight[q] - SumOf(Weight, S)
    /\ \A p \in Proxy \ S : w[p] = 0

(* The sums after a selection, by those before it. *)
LEMMA SelectionSums ==
    ASSUME NEW v, NEW w, NEW S, NEW q, Selects(v, w, S, q), NEW T \in SUBSET S
    PROVE  /\ SumOf(v, T) \in Int /\ SumOf(w, T) \in Int
           /\ q \notin T => SumOf(w, T) = SumOf(v, T) + SumOf(Weight, T)
           /\ q \in T => SumOf(w, T) = SumOf(v, T) + SumOf(Weight, T) - SumOf(Weight, S)
<1>1. IsFiniteSet(Proxy) /\ T \in SUBSET Proxy /\ S \in SUBSET Proxy /\ q \in S
  BY WeightsAdd DEF Selects
<1>2. \A p \in Proxy : v[p] \in Int /\ w[p] \in Int /\ Weight[p] \in Int
  BY WeightsAdd DEF Selects
<1>3. /\ SumOf(v, T) \in Int /\ SumOf(w, T) \in Int /\ SumOf(Weight, T) \in Int
      /\ SumOf(Weight, S) \in Int
  <2>1. SumOf(v, T) \in Int
    BY <1>1, <1>2, SumRules
  <2>2. SumOf(w, T) \in Int
    BY <1>1, <1>2, SumRules
  <2> QED
    BY <1>1, <2>1, <2>2, WeightsAdd
<1>4. ASSUME NEW U \in SUBSET (S \ {q}) PROVE SumOf(w, U) = SumOf(v, U) + SumOf(Weight, U)
  <2>1. \A p \in U : v[p] \in Int /\ Weight[p] \in Int /\ w[p] = v[p] + Weight[p]
    BY <1>1, <1>2 DEF Selects
  <2>2. IsFiniteSet(U)
    BY <1>1, FS_Subset
  <2> QED
    BY <2>1, <2>2, SumOfSums
<1>5. CASE q \notin T
  BY <1>3, <1>4, <1>5
<1>6. CASE q \in T
  <2> DEFINE U == T \ {q}
  <2>1. SumOf(w, U) = SumOf(v, U) + SumOf(Weight, U)
    BY <1>4
  <2>2. SumOf(w, T) = w[q] + SumOf(w, U)
    BY <1>1, <1>2, <1>6, SumRules
  <2>3. SumOf(v, T) = v[q] + SumOf(v, U) /\ SumOf(v, U) \in Int
    <3>1. U \in SUBSET Proxy
      BY <1>1
    <3>2. SumOf(v, U) \in Int
      BY <1>1, <1>2, <3>1, SumRules
    <3>3. SumOf(v, T) = v[q] + SumOf(v, T \ {q})
      BY <1>1, <1>2, <1>6, SumRules
    <3> QED
      BY <3>2, <3>3
  <2>4. SumOf(Weight, T) = Weight[q] + SumOf(Weight, U) /\ SumOf(Weight, U) \in Int
    <3>1. U \in SUBSET Proxy
      BY <1>1
    <3>2. SumOf(Weight, U) \in Int
      BY <3>1, WeightsAdd
    <3>3. SumOf(Weight, T) = Weight[q] + SumOf(Weight, T \ {q})
      BY <1>1, <1>2, <1>6, SumRules
    <3> QED
      BY <3>2, <3>3
  <2>5. w[q] = v[q] + Weight[q] - SumOf(Weight, S) /\ v[q] \in Int /\ Weight[q] \in Int
    BY <1>1, <1>2 DEF Selects
  <2> HIDE DEF U
  <2> QED
    BY <1>3, <1>6, <2>1, <2>2, <2>3, <2>4, <2>5
<1> QED
  BY <1>3, <1>5, <1>6

(* The bounds hold before and after: nobody is above what a round for each *)
(* of the others is worth.                                                 *)
LEMMA SelectionUpper ==
    ASSUME NEW v, NEW w, NEW S, NEW q, Selects(v, w, S, q), Balanced(v), NEW T \in SUBSET S
    PROVE  SumOf(w, T) <= (Many - 1) * Round
<1>1. /\ S \in SUBSET Proxy /\ T \in SUBSET Proxy /\ q \in S /\ IsFiniteSet(T) /\ IsFiniteSet(Proxy)
      /\ Many \in Nat /\ Round \in Nat /\ Round = SumOf(Weight, Proxy)
  BY WeightsAdd, FS_Subset DEF Selects
<1>2. /\ SumOf(v, T) \in Int /\ SumOf(w, T) \in Int
      /\ SumOf(Weight, T) \in Nat /\ SumOf(Weight, S) \in Nat
  BY <1>1, SelectionSums, WeightsAdd
<1>3. CASE q \in T
  <2>1. SumOf(w, T) = SumOf(v, T) + SumOf(Weight, T) - SumOf(Weight, S)
    BY <1>3, SelectionSums
  <2>2. SumOf(Weight, T) <= SumOf(Weight, S)
    BY <1>1, WeightsAdd
  <2>3. SumOf(v, T) <= (Many - 1) * Round /\ (Many - 1) * Round \in Int
    BY <1>1 DEF Balanced
  <2> QED
    BY <1>2, <2>1, <2>2, <2>3
<1>4. CASE q \notin T
  <2> DEFINE A == SumOf(w, T)
             g == v[q] + Weight[q]
             k == Cardinality(T)
             Q == T \union {q}
  <2>1. k \in Nat /\ k < Many
    <3>1. IsFiniteSet(Q) /\ Cardinality(Q) = k + 1 /\ k \in Nat
      BY <1>1, <1>4, FS_AddElement, FS_CardinalityType
    <3>2. Cardinality(Q) <= Many
      <4>1. Q \in SUBSET Proxy
        BY <1>1
      <4> HIDE DEF Q
      <4> QED
        BY <1>1, <4>1, FS_Subset DEF Many
    <3> QED
      BY <1>1, <3>1, <3>2
  <2>2. v[q] \in Int /\ Weight[q] \in Nat /\ g \in Int /\ A \in Int
    BY <1>1, <1>2, WeightsAdd DEF Selects
  <2>3. A <= g * k
    <3>1. \A p \in T : w[p] \in Int /\ w[p] <= g
      BY <1>1, <1>4, WeightsAdd DEF Selects
    <3> HIDE DEF g
    <3> QED
      BY <1>1, <2>2, <3>1, SumAtMost
  <2>4. A + g <= Many * Round
    <3>1. /\ Q \in SUBSET Proxy /\ Q \in SUBSET S /\ Q \ {q} = T /\ q \in Q
      BY <1>1, <1>4
    <3>2. A = SumOf(v, T) + SumOf(Weight, T)
      BY <1>4, SelectionSums
    <3> HIDE DEF Q
    <3>3. SumOf(v, Q) = v[q] + SumOf(v, T)
      <4>1. \A p \in Proxy : v[p] \in Int
        BY DEF Selects
      <4>2. SumOf(v, Q) = v[q] + SumOf(v, Q \ {q})
        BY <1>1, <3>1, <4>1, SumRules
      <4> QED
        BY <3>1, <4>2
    <3>4. SumOf(Weight, Q) = Weight[q] + SumOf(Weight, T)
      <4>1. \A p \in Proxy : Weight[p] \in Int
        BY WeightsAdd
      <4>2. SumOf(Weight, Q) = Weight[q] + SumOf(Weight, Q \ {q})
        BY <1>1, <3>1, <4>1, SumRules
      <4> QED
        BY <3>1, <4>2
    <3>5. SumOf(Weight, Q) <= Round /\ SumOf(Weight, Q) \in Nat
      BY <1>1, <3>1, WeightsAdd
    <3>6. SumOf(v, Q) <= (Many - 1) * Round
      BY <3>1 DEF Balanced
    <3>7. (Many - 1) * Round + Round = Many * Round /\ (Many - 1) * Round \in Int
      BY <1>1
    <3> HIDE DEF A
    <3> QED
      BY <1>1, <1>2, <2>2, <3>2, <3>3, <3>4, <3>5, <3>6, <3>7
  <2> HIDE DEF A, g, k, Q
  <2>5. A <= (Many - 1) * Round
    BY <1>1, <2>1, <2>2, <2>3, <2>4, MostOfSome
  <2> QED
    BY <2>5 DEF A
<1> QED
  BY <1>3, <1>4

(* Nor does anybody owe more. *)
LEMMA SelectionLower ==
    ASSUME NEW v, NEW w, NEW S, NEW q, Selects(v, w, S, q), Balanced(v), NEW T \in SUBSET S
    PROVE  2 * SumOf(w, T) >= -(Round * Debt(Many, Cardinality(T)))
<1>1. /\ S \in SUBSET Proxy /\ T \in SUBSET Proxy /\ q \in S /\ IsFiniteSet(Proxy)
      /\ IsFiniteSet(T) /\ IsFiniteSet(S)
      /\ Many \in Nat /\ Round \in Nat /\ Round = SumOf(Weight, Proxy)
  <2>1. S \in SUBSET Proxy /\ T \in SUBSET Proxy /\ q \in S /\ IsFiniteSet(Proxy)
    BY WeightsAdd DEF Selects
  <2> QED
    BY <2>1, WeightsAdd, FS_Subset
<1>2. /\ SumOf(v, T) \in Int /\ SumOf(w, T) \in Int
      /\ SumOf(Weight, T) \in Nat /\ SumOf(Weight, S) \in Nat
  BY <1>1, SelectionSums, WeightsAdd
<1>3. 2 * SumOf(v, T) >= -(Round * Debt(Many, Cardinality(T)))
  BY <1>1 DEF Balanced
<1>d. \A n \in Nat, j \in Int : Round * Debt(n, j) \in Int
  BY <1>1 DEF Debt
<1>k. Cardinality(T) \in Nat
  BY <1>1, FS_CardinalityType
<1>4. CASE q \notin T
  <2>1. SumOf(w, T) = SumOf(v, T) + SumOf(Weight, T)
    BY <1>4, SelectionSums
  <2> QED
    BY <1>1, <1>2, <1>3, <1>d, <1>k, <2>1
<1>5. CASE q \in T /\ T = S
  <2>1. SumOf(w, T) = SumOf(v, T)
    <3>1. SumOf(w, T) = SumOf(v, T) + SumOf(Weight, T) - SumOf(Weight, S)
      BY <1>5, SelectionSums
    <3> QED
      BY <1>2, <1>5, <3>1
  <2> QED
    BY <1>3, <2>1
<1>6. CASE q \in T /\ T # S
  <2> DEFINE U == S \ T
             V == T \ {q}
             Y == SumOf(w, V)
             g == v[q] + Weight[q]
             P == SumOf(Weight, V)
             k == Cardinality(T)
             u == Cardinality(U)
  <2>1. /\ U \in SUBSET S /\ V \in SUBSET S /\ U \in SUBSET Proxy /\ V \in SUBSET Proxy
        /\ U \intersect T = {} /\ U \union T = S /\ U # {} /\ q \notin U /\ q \notin V
    BY <1>1, <1>6
  <2>2. /\ k \in Nat /\ u \in Nat \ {0} /\ Cardinality(V) = k - 1 /\ Cardinality(S) = k + u
    <3>1. IsFiniteSet(U) /\ u \in Nat \ {0}
      BY <1>1, <2>1, FS_Subset, FS_CardinalityType, FS_EmptySet
    <3>2. Cardinality(V) = k - 1
      BY <1>1, <1>6, FS_RemoveElement
    <3>3. Cardinality(U \union T) = u + k - Cardinality(U \intersect T)
      BY <1>1, <3>1, FS_Union
    <3>4. Cardinality({}) = 0
      BY FS_EmptySet
    <3> QED
      BY <1>k, <2>1, <3>1, <3>2, <3>3, <3>4
  <2>3. v[q] \in Int /\ Weight[q] \in Nat /\ g \in Int
    BY <1>1, WeightsAdd DEF Selects
  <2> HIDE DEF U, V
  <2>4. Y \in Int /\ P \in Nat /\ SumOf(v, V) \in Int /\ Y = SumOf(v, V) + P
    BY <2>1, SelectionSums, WeightsAdd
  <2>5. SumOf(w, U) \in Int /\ SumOf(v, U) \in Int /\ SumOf(w, U) = SumOf(v, U) + SumOf(Weight, U)
        /\ SumOf(Weight, U) \in Nat
    BY <2>1, SelectionSums, WeightsAdd
  <2>6. SumOf(v, T) = v[q] + SumOf(v, V) /\ SumOf(Weight, T) = Weight[q] + P
    <3>1. /\ \A p \in Proxy : v[p] \in Int
          /\ \A p \in Proxy : Weight[p] \in Int
      BY WeightsAdd DEF Selects
    <3>2. SumOf(v, T) = v[q] + SumOf(v, T \ {q})
      BY <1>1, <1>6, <3>1, SumRules
    <3>3. SumOf(Weight, T) = Weight[q] + SumOf(Weight, T \ {q})
      BY <1>1, <1>6, <3>1, SumRules
    <3> QED
      BY <3>2, <3>3 DEF V
  <2>7. /\ SumOf(v, S) = SumOf(v, U) + SumOf(v, T)
        /\ SumOf(Weight, S) = SumOf(Weight, U) + SumOf(Weight, T)
    <3>1. /\ \A p \in Proxy : v[p] \in Int
          /\ \A p \in Proxy : Weight[p] \in Int
      BY WeightsAdd DEF Selects
    <3>2. U \in SUBSET (Proxy \ T)
      BY <2>1
    <3>3. SumOf(v, U \union T) = SumOf(v, U) + SumOf(v, T)
      BY <1>1, <3>1, <3>2, SumApart
    <3>4. SumOf(Weight, U \union T) = SumOf(Weight, U) + SumOf(Weight, T)
      BY <1>1, <3>1, <3>2, SumApart
    <3> QED
      BY <2>1, <3>3, <3>4
  <2>8. SumOf(w, U) <= g * u
    <3>1. \A p \in U : w[p] \in Int /\ w[p] <= g
      BY <1>1, <2>1, WeightsAdd DEF Selects
    <3>2. IsFiniteSet(U)
      BY <1>1, <2>1, FS_Subset
    <3> HIDE DEF g
    <3> QED
      BY <2>3, <3>1, <3>2, SumAtMost
  <2>9. 2 * (Y - P) >= -(Round * Debt(Many, k - 1))
    <3>1. 2 * SumOf(v, V) >= -(Round * Debt(Many, Cardinality(V)))
      BY <2>1 DEF Balanced
    <3>2. Y - P = SumOf(v, V)
      BY <2>4
    <3> QED
      BY <2>2, <3>1, <3>2
  <2>10. 2 * (Y + g + g * u - SumOf(Weight, S)) >= -(Round * Debt(Many, k + u))
    <3>1. 2 * SumOf(v, S) >= -(Round * Debt(Many, k + u))
      <4>1. 2 * SumOf(v, S) >= -(Round * Debt(Many, Cardinality(S)))
        BY <1>1 DEF Balanced
      <4> QED
        BY <2>2, <4>1
    <3>2. SumOf(v, S) = Y + g + SumOf(w, U) - SumOf(Weight, S)
      <4> HIDE DEF Y, P
      <4> QED
        BY <1>2, <2>3, <2>4, <2>5, <2>6, <2>7
    <3>3. g * u \in Int /\ Round * Debt(Many, k + u) \in Int
      BY <1>1, <1>d, <2>2, <2>3
    <3> HIDE DEF Y, g, k, u
    <3> QED
      BY <1>2, <2>3, <2>4, <2>5, <2>8, <3>1, <3>2, <3>3
  <2>11. SumOf(Weight, S) - P <= Round
    BY <1>1, <1>2, <2>4, WeightsAdd
  <2>12. 2 * (Y + g - SumOf(Weight, S)) >= -(Round * Debt(Many, k))
    <3> DEFINE B == SumOf(Weight, S)
    <3>1. B \in Int /\ B - P <= Round /\ Y \in Int /\ g \in Int /\ P \in Int
      BY <1>2, <2>3, <2>4, <2>11
    <3>2. 2 * (Y + g + g * u - B) >= -(Round * Debt(Many, k + u))
      BY <2>10
    <3>3. Many \in Nat /\ k \in Nat /\ u \in Nat \ {0} /\ Round \in Nat
      BY <1>1, <2>2
    <3> HIDE DEF Y, g, P, k, u, B
    <3>4. 2 * (Y + g - B) >= -(Round * Debt(Many, k))
      BY <2>9, <3>1, <3>2, <3>3, LeastOfSome
    <3> QED
      BY <3>4 DEF B
  <2>13. SumOf(w, T) = Y + g - SumOf(Weight, S)
    <3>1. SumOf(w, T) = SumOf(v, T) + SumOf(Weight, T) - SumOf(Weight, S)
      BY <1>6, SelectionSums
    <3> HIDE DEF Y, P
    <3> QED
      BY <1>2, <2>3, <2>4, <2>6, <3>1
  <2> QED
    BY <2>12, <2>13
<1> QED
  BY <1>4, <1>5, <1>6

LEMMA BalancedStays ==
    ASSUME NEW v, NEW w, NEW S, NEW q, Selects(v, w, S, q), Balanced(v)
    PROVE  Balanced(w)
<1> SUFFICES ASSUME NEW T \in SUBSET Proxy
             PROVE  /\ SumOf(w, T) <= (Many - 1) * Round
                    /\ 2 * SumOf(w, T) >= -(Round * Debt(Many, Cardinality(T)))
  BY DEF Balanced
<1> DEFINE U == T \intersect S
<1>1. /\ IsFiniteSet(Proxy) /\ IsFiniteSet(T) /\ U \in SUBSET T /\ U \in SUBSET S
      /\ Many \in Nat /\ Round \in Nat
  BY WeightsAdd, FS_Subset
<1>2. SumOf(w, T) = SumOf(w, U)
  <2>1. (\A p \in T : w[p] \in Int) /\ \A p \in T \ S : w[p] = 0
    BY DEF Selects
  <2> QED
    BY <1>1, <2>1, SumOfPart
<1>3. /\ Cardinality(U) \in Nat /\ Cardinality(T) \in Nat
      /\ Cardinality(U) <= Cardinality(T) /\ Cardinality(T) <= Many
  <2>1. Cardinality(U) <= Cardinality(T)
    BY <1>1, FS_Subset
  <2>2. Cardinality(T) <= Many
    BY <1>1, FS_Subset DEF Many
  <2>3. Cardinality(U) \in Nat /\ Cardinality(T) \in Nat
    <3>1. IsFiniteSet(U)
      BY <1>1, FS_Subset
    <3> QED
      BY <1>1, <3>1, FS_CardinalityType
  <2> QED
    BY <2>1, <2>2, <2>3
<1> HIDE DEF U
<1>4. SumOf(w, U) <= (Many - 1) * Round /\ SumOf(w, U) \in Int
  BY <1>1, SelectionUpper, SelectionSums
<1>5. 2 * SumOf(w, U) >= -(Round * Debt(Many, Cardinality(U)))
  BY <1>1, SelectionLower
<1>6. Round * Debt(Many, Cardinality(U)) <= Round * Debt(Many, Cardinality(T))
  <2>1. Debt(Many, Cardinality(U)) <= Debt(Many, Cardinality(T))
    BY <1>1, <1>3, DebtGrows
  <2>2. Debt(Many, Cardinality(U)) \in Int /\ Debt(Many, Cardinality(T)) \in Int
    BY <1>1, <1>3 DEF Debt
  <2> QED
    BY <1>1, <2>1, <2>2, TimesKeeps
<1>7. Round * Debt(Many, Cardinality(U)) \in Int /\ Round * Debt(Many, Cardinality(T)) \in Int
  BY <1>1, <1>3 DEF Debt
<1> QED
  BY <1>2, <1>4, <1>5, <1>6, <1>7

(* What is held: a proxy without an entry holds nothing. *)
Held(c) == [p \in Proxy |-> IF p \in DOMAIN c THEN c[p] ELSE 0]

(* A proxy that waits has gained its weight every time. *)
CreditInv ==
    \A i \in Instance :
        /\ Balanced(Held(credit[i]))
        /\ \A p \in Proxy :
              Weight[p] * waited[i][p] - (Many - 1) * Round <= Held(credit[i])[p]

LEMMA RoundsAreNat == (Many - 1) * Round \in Nat
<1>1. Many \in Nat /\ Round \in Nat
  BY WeightsAdd
<1>2. CASE Many = 0
  <2>1. Proxy = {}
    BY <1>2, WeightsAdd, FS_EmptySet DEF Many
  <2>2. SumOf(Weight, {}) = 0
    BY WeightsAdd, SumRules
  <2>3. Round = 0
    BY <2>1, <2>2, WeightsAdd
  <2> QED
    BY <1>2, <2>3
<1>3. CASE Many # 0
  <2>1. (Many - 1) * 0 <= (Many - 1) * Round
    BY <1>1, <1>3, TimesKeeps, Many - 1 \in Nat
  <2> QED
    BY <1>1, <2>1
<1> QED
  BY <1>2, <1>3

LEMMA CreditInvInit == SelectInit => CreditInv
<1> SUFFICES ASSUME SelectInit, NEW i \in Instance
             PROVE  /\ Balanced(Held(credit[i]))
                    /\ \A p \in Proxy :
                         Weight[p] * waited[i][p] - (Many - 1) * Round <= Held(credit[i])[p]
  BY DEF CreditInv
<1> DEFINE v == Held(credit[i])
<1>1. \A p \in Proxy : v[p] = 0 /\ waited[i][p] = 0
  BY DEF SelectInit, Held, Empty
<1>2. Balanced(v)
  <2> SUFFICES ASSUME NEW T \in SUBSET Proxy
               PROVE  /\ SumOf(v, T) <= (Many - 1) * Round
                      /\ 2 * SumOf(v, T) >= -(Round * Debt(Many, Cardinality(T)))
    BY DEF Balanced
  <2> HIDE DEF v
  <2>1. IsFiniteSet(T) /\ Cardinality(T) \in Nat /\ Cardinality(T) <= Many
    BY WeightsAdd, FS_Subset, FS_CardinalityType DEF Many
  <2>2. SumOf(v, T) = 0
    <3>1. SumOf(v, T) = SumOf(v, T \intersect {})
      BY <1>1, <2>1, SumOfPart
    <3>2. T \intersect {} = {}
      OBVIOUS
    <3>3. SumOf(v, {}) = 0
      BY <1>1, <2>1, SumRules
    <3> QED
      BY <3>1, <3>2, <3>3
  <2>3. Round * Debt(Many, Cardinality(T)) >= 0 /\ Round * Debt(Many, Cardinality(T)) \in Int
    <3>1. Debt(Many, 0) <= Debt(Many, Cardinality(T))
      BY <2>1, WeightsAdd, DebtGrows
    <3>2. Debt(Many, 0) = 0 /\ Debt(Many, Cardinality(T)) \in Int
      BY <2>1, WeightsAdd DEF Debt
    <3>3. Round * 0 <= Round * Debt(Many, Cardinality(T))
      BY <3>1, <3>2, WeightsAdd, TimesKeeps
    <3>4. Round * 0 = 0 /\ Round * Debt(Many, Cardinality(T)) \in Int
      BY <3>2, WeightsAdd
    <3> QED
      BY <3>3, <3>4
  <2> QED
    BY <2>2, <2>3, RoundsAreNat
<1>3. ASSUME NEW p \in Proxy PROVE Weight[p] * waited[i][p] - (Many - 1) * Round <= v[p]
  <2>1. Weight[p] * waited[i][p] = 0 /\ v[p] = 0
    BY <1>1, WeightsAdd
  <2> HIDE DEF v
  <2> QED
    BY <2>1, RoundsAreNat
<1> QED
  BY <1>2, <1>3

(* What the local selector does to what is held is a selection. *)
LEMMA LocalSelects ==
    ASSUME SelectInv, NEW i \in Instance, LocalSelect(i)
    PROVE  \E q \in allowed(i) :
             /\ Selects(Held(credit[i]), Held(credit'[i]), allowed(i), q)
             /\ \A p \in Proxy :
                   waited'[i][p] = IF p \in allowed(i) \ {q} THEN waited[i][p] + 1 ELSE 0
             /\ \A j \in Instance \ {i} : credit'[j] = credit[j] /\ waited'[j] = waited[j]
<1> DEFINE gain == Raised(i)
           q == Richest(gain)
           S == allowed(i)
           v == Held(credit[i])
           w == Held(credit'[i])
<1>1. /\ view[i] \in Partial(Clock) /\ credit \in [Instance -> Partial(Int)]
      /\ waited \in [Instance -> [Proxy -> Nat]]
  BY DEF SelectInv, SelectTypes
<1>2. S \in SUBSET Proxy /\ S # {}
  BY <1>1, InPartial DEF LocalSelect, SelectInv, Asked, allowed
<1>3. \A p \in Proxy : v[p] \in Int
  <2>1. \A p \in DOMAIN credit[i] : credit[i][p] \in Int
    BY <1>1, InPartial
  <2> QED
    BY <2>1 DEF Held
<1>4. /\ DOMAIN gain = S /\ gain = [p \in S |-> gain[p]]
      /\ \A p \in S : gain[p] = v[p] + Weight[p] /\ gain[p] \in Int
  <2>1. \A p \in S : p \in Proxy /\ Weight[p] \in Int /\ v[p] \in Int
    BY <1>2, <1>3, WeightsAdd
  <2>2. ASSUME NEW p \in S PROVE gain[p] = v[p] + Weight[p]
    <3>1. gain[p] = Weight[p] + (IF p \in DOMAIN credit[i] THEN credit[i][p] ELSE 0)
      BY DEF Raised
    <3>2. v[p] = IF p \in DOMAIN credit[i] THEN credit[i][p] ELSE 0
      BY <2>1 DEF Held
    <3> HIDE DEF gain, v
    <3> QED
      BY <2>1, <3>1, <3>2
  <2> HIDE DEF v
  <2> QED
    BY <2>1, <2>2 DEF Raised
<1>5. /\ credit' = [credit EXCEPT ![i] = [gain EXCEPT ![q] = @ - Cost(S, q)]]
      /\ waited' = [waited EXCEPT ![i] =
             [p \in Proxy |-> IF p \in S \ {q} THEN waited[i][p] + 1 ELSE 0]]
  BY DEF LocalSelect
<1> HIDE DEF gain
<1>6. gain \in [S -> Int]
  BY <1>4
<1>7. q \in S /\ \A p \in S : gain[p] <= gain[q]
  BY <1>2, <1>6, RichestIsEligible
<1> HIDE DEF q, S
<1>8. Cost(S, q) = SumOf(Weight, S) /\ SumOf(Weight, S) \in Int
  BY <1>2, TotalIsSum, WeightsAdd DEF Cost
<1>9. /\ DOMAIN credit'[i] = S
      /\ \A p \in S : credit'[i][p] = IF p = q THEN gain[q] - SumOf(Weight, S) ELSE gain[p]
  BY <1>1, <1>5, <1>6, <1>7, <1>8
<1>10. /\ \A p \in S \ {q} : w[p] = gain[p]
       /\ w[q] = gain[q] - SumOf(Weight, S)
       /\ \A p \in Proxy \ S : w[p] = 0
  BY <1>2, <1>7, <1>9 DEF Held
<1> HIDE DEF v, w
<1>11. Selects(v, w, S, q)
  <2>1. \A p \in Proxy : w[p] \in Int
    BY <1>4, <1>7, <1>8, <1>10
  <2>2. \A p \in S : v[p] + Weight[p] <= v[q] + Weight[q]
    BY <1>4, <1>7
  <2>3. w[q] = v[q] + Weight[q] - SumOf(Weight, S)
    <3>1. gain[q] = v[q] + Weight[q]
      BY <1>4, <1>7
    <3>2. w[q] = gain[q] - SumOf(Weight, S)
      BY <1>10
    <3>3. v[q] \in Int /\ Weight[q] \in Int
      BY <1>2, <1>3, <1>7, WeightsAdd
    <3> QED
      BY <1>8, <3>1, <3>2, <3>3
  <2> QED
    BY <1>2, <1>3, <1>4, <1>7, <1>10, <2>1, <2>2, <2>3 DEF Selects
<1>12. /\ \A p \in Proxy : waited'[i][p] = IF p \in S \ {q} THEN waited[i][p] + 1 ELSE 0
       /\ \A j \in Instance \ {i} : credit'[j] = credit[j] /\ waited'[j] = waited[j]
  BY <1>1, <1>5
<1> QED
  BY <1>7, <1>11, <1>12 DEF S, v, w

LEMMA LocalCreditStep ==
    ASSUME SelectInv, CreditInv, NEW i \in Instance, LocalSelect(i)
    PROVE  CreditInv'
<1> DEFINE v == Held(credit[i])
           w == Held(credit'[i])
           S == allowed(i)
<1>1. PICK q \in S :
             /\ Selects(v, w, S, q)
             /\ \A p \in Proxy : waited'[i][p] = IF p \in S \ {q} THEN waited[i][p] + 1 ELSE 0
             /\ \A j \in Instance \ {i} : credit'[j] = credit[j] /\ waited'[j] = waited[j]
  BY LocalSelects
<1>2. \A p \in Proxy : waited[i][p] \in Nat
  BY DEF SelectInv, SelectTypes
<1>3. Balanced(v) /\ \A p \in Proxy : Weight[p] * waited[i][p] - (Many - 1) * Round <= v[p]
  BY DEF CreditInv
<1> HIDE DEF v, w, S
<1>4. Balanced(w)
  BY <1>1, <1>3, BalancedStays
<1>5. ASSUME NEW p \in Proxy PROVE Weight[p] * waited'[i][p] - (Many - 1) * Round <= w[p]
  <2>1. Weight[p] \in Nat /\ v[p] \in Int /\ w[p] \in Int /\ waited[i][p] \in Nat
    BY <1>1, <1>2, WeightsAdd DEF Selects
  <2>2. CASE p \in S \ {q}
    <3>1. waited'[i][p] = waited[i][p] + 1 /\ w[p] = v[p] + Weight[p]
      BY <1>1, <2>2 DEF Selects
    <3>2. Weight[p] * (waited[i][p] + 1) = Weight[p] * waited[i][p] + Weight[p]
          /\ Weight[p] * waited[i][p] \in Int
      BY <2>1
    <3>3. Weight[p] * waited[i][p] - (Many - 1) * Round <= v[p]
      BY <1>3
    <3> QED
      BY <2>1, <3>1, <3>2, <3>3, RoundsAreNat
  <2>3. CASE p \notin S \ {q}
    <3>1. waited'[i][p] = 0 /\ Weight[p] * 0 = 0
      BY <1>1, <2>1, <2>3
    <3>2. 2 * w[p] >= -(Round * Debt(Many, 1))
      <4>1. SumOf(w, {p}) = w[p]
        <5>1. \A x \in Proxy : w[x] \in Int
          BY <1>1 DEF Selects
        <5>2. SumOf(w, {p}) = w[p] + SumOf(w, {p} \ {p}) /\ SumOf(w, {}) = 0
          BY <5>1, WeightsAdd, SumRules
        <5>3. {p} \ {p} = {}
          OBVIOUS
        <5> QED
          BY <2>1, <5>2, <5>3
      <4>2. Cardinality({p}) = 1
        BY FS_Singleton
      <4>3. 2 * SumOf(w, {p}) >= -(Round * Debt(Many, Cardinality({p})))
        BY <1>4 DEF Balanced
      <4> QED
        BY <4>1, <4>2, <4>3
    <3>3. Round * Debt(Many, 1) = 2 * ((Many - 1) * Round)
      BY WeightsAdd DEF Debt
    <3> QED
      BY <2>1, <3>1, <3>2, <3>3, RoundsAreNat
  <2> QED
    BY <2>2, <2>3
<1> SUFFICES ASSUME NEW j \in Instance
             PROVE  /\ Balanced(Held(credit'[j]))
                    /\ \A p \in Proxy :
                         Weight[p] * waited'[j][p] - (Many - 1) * Round <= Held(credit'[j])[p]
  BY DEF CreditInv, Many, Round, Balanced, Held
<1>6. CASE j = i
  BY <1>4, <1>5, <1>6 DEF w
<1>7. CASE j # i
  BY <1>1, <1>7 DEF CreditInv
<1> QED
  BY <1>6, <1>7

LEMMA CreditInvStep == SelectInv /\ CreditInv /\ [SelectNext]_selectVars => CreditInv'
<1> SUFFICES ASSUME SelectInv, CreditInv, [SelectNext]_selectVars PROVE CreditInv'
  OBVIOUS
<1>1. ASSUME UNCHANGED localVars PROVE CreditInv'
  BY <1>1 DEF localVars, CreditInv, Many, Round, Balanced, Held
<1>2. ASSUME NEW i \in Instance, InstanceStep(i) PROVE CreditInv'
  <2>1. CASE LocalSelect(i)
    BY <2>1, LocalCreditStep
  <2>2. CASE ~LocalSelect(i)
    <3>1. UNCHANGED localVars
      BY <1>2, <2>2
      DEF InstanceStep, BeginCreate, SkipSync, WriteNode, EndSync, Evaluate, SeedRead, SeedWrite,
          SeedFails, TryAgain, Fallback, RedisFails
    <3> QED
      BY <1>1, <3>1
  <2> QED
    BY <2>1, <2>2
<1>3. CASE Change \/ ClockTick \/ UNCHANGED selectVars
  BY <1>1, <1>3 DEF Change, ClockTick, selectVars
<1> QED
  BY <1>2, <1>3 DEF SelectNext

(* However candidates come and go, no credit and no debt is more than a     *)
(* round for each of the others, and nobody waits longer than the weight   *)
(* needs to make up for twice as much (local.go: Select).             *)
THEOREM CreditsAreBounded == SelectSpec => []CreditIsBounded
<1>1. SelectInv /\ CreditInv => CreditIsBounded
  <2> SUFFICES ASSUME SelectInv, CreditInv, NEW i \in Instance
               PROVE  LET most == (Cardinality(Proxy) - 1) * TotalWeight(Proxy) IN
                      /\ \A p \in DOMAIN credit[i] : credit[i][p] \in -most .. most
                      /\ \A p \in Proxy : Weight[p] * waited[i][p] <= 2 * most
    BY DEF CreditIsBounded
  <2> DEFINE most == (Many - 1) * Round
             v == Held(credit[i])
  <2>1. most \in Nat
    BY RoundsAreNat
  <2>2. /\ Balanced(v) /\ \A p \in Proxy : Weight[p] * waited[i][p] - most <= v[p]
    BY DEF CreditInv
  <2>3. credit[i] \in Partial(Int) /\ \A p \in Proxy : waited[i][p] \in Nat
    BY DEF SelectInv, SelectTypes
  <2>4. /\ DOMAIN credit[i] \subseteq Proxy /\ \A p \in Proxy : v[p] \in Int
        /\ \A p \in DOMAIN credit[i] : v[p] = credit[i][p]
    BY <2>3, InPartial DEF Held
  <2> HIDE DEF most, v
  <2>5. ASSUME NEW p \in Proxy
        PROVE  v[p] <= most /\ Weight[p] * waited[i][p] \in Nat
    <3>1. SumOf(v, {p}) = v[p]
      <4>1. SumOf(v, {p}) = v[p] + SumOf(v, {p} \ {p}) /\ SumOf(v, {}) = 0
        BY <2>4, WeightsAdd, SumRules
      <4>2. {p} \ {p} = {}
        OBVIOUS
      <4> QED
        BY <2>4, <4>1, <4>2
    <3>2. SumOf(v, {p}) <= most
      BY <2>2 DEF Balanced, most
    <3>3. Weight[p] \in Nat /\ waited[i][p] \in Nat
      BY <2>3, WeightsAdd
    <3> QED
      BY <3>1, <3>2, <3>3
  <2>6. \A p \in Proxy : -most <= v[p] /\ Weight[p] * waited[i][p] <= 2 * most
    BY <2>1, <2>2, <2>4, <2>5
  <2>7. \A p \in DOMAIN credit[i] : credit[i][p] \in -most .. most
    BY <2>1, <2>4, <2>5, <2>6
  <2> QED
    BY <2>6, <2>7 DEF most, Many, Round
<1> QED
  BY <1>1, SelectInvInit, SelectInvStep, CreditInvInit, CreditInvStep, PTL DEF SelectSpec

-----------------------------------------------------------------------------
(* The selector that is shared: who is charged                             *)

(* Every score and every runtime is what its proxy was charged, and all    *)
(* that is known may be picked.                                            *)
Level(k, D, t, c) ==
    /\ Priced(k, c)
    /\ DOMAIN k.node \subseteq D /\ DOMAIN k.ready \subseteq DOMAIN k.node
    /\ DOMAIN k.delayed = {}
    /\ \A p \in DOMAIN k.node :
          k.node[p].until = 0 /\ k.node[p].next <= t /\ k.node[p].runtime = c[p]
    /\ \A p \in DOMAIN k.ready : k.ready[p] = c[p]

LEMMA LevelIsDue ==
    ASSUME NEW k, NEW D, NEW t \in Clock, NEW c, Level(k, D, t, c)
    PROVE  \A p \in DOMAIN k.node : k.node[p] \in Node /\ Due(k.node[p]) <= t
<1> TAKE p \in DOMAIN k.node
<1>1. k.node[p] \in Node
  BY InPartial DEF Level, Priced, KeySpace
<1>2. k.node[p].until = 0 /\ k.node[p].next <= t /\ k.node[p].next \in Nat
  BY <1>1 DEF Level, Node, Clock
<1> QED
  BY <1>1, <1>2 DEF Due

(* Nothing written, and nothing taken away. *)
LEMMA WithNone ==
    ASSUME NEW V, NEW f \in Partial(V), NEW g, DOMAIN g = {}
    PROVE  With(f, g) = f
<1>1. /\ DOMAIN With(f, g) = DOMAIN f /\ \A p \in DOMAIN f : With(f, g)[p] = f[p]
      /\ With(f, g) = [p \in DOMAIN With(f, g) |-> With(f, g)[p]]
  BY DEF With
<1>2. f = [p \in DOMAIN f |-> f[p]]
  BY InPartial
<1> DEFINE w == With(f, g)
<1> HIDE DEF w
<1>3. w = f
  BY <1>1, <1>2 DEF w
<1> QED
  BY <1>3 DEF w

LEMMA WithoutNone ==
    ASSUME NEW V, NEW f \in Partial(V), NEW S, S = {}
    PROVE  Without(f, S) = f
BY InPartial DEF Without, Restrict

LEMMA PlaceLevel ==
    ASSUME NEW c \in Fees, NEW k, NEW D, NEW t \in Clock, Level(k, D, t, c),
           NEW S \in SUBSET (DOMAIN k.node)
    PROVE  /\ Level(Place(k, S, t), D, t, c) /\ Place(k, S, t).node = k.node
           /\ DOMAIN Place(k, S, t).ready = DOMAIN k.ready \union S
<1> DEFINE late == {p \in S : Due(k.node[p]) > t}
           put == [p \in S \ late |-> k.node[p].runtime]
           off == [p \in late |-> IF k.node[p].until > t THEN k.node[p].until
                                  ELSE k.node[p].next]
<1>1. /\ Priced(Place(k, S, t), c) /\ Place(k, S, t).node = k.node
      /\ k = [node |-> k.node, ready |-> k.ready, delayed |-> k.delayed]
  <2>1. Priced(k, c) /\ k = [node |-> k.node, ready |-> k.ready, delayed |-> k.delayed]
    BY DEF Level, Priced, KeySpace
  <2> QED
    BY <2>1, PlacePriced
<1>2. late = {}
  <2>1. ASSUME NEW p \in S PROVE ~(Due(k.node[p]) > t)
    <3>1. Due(k.node[p]) <= t /\ Due(k.node[p]) \in Int
      BY LevelIsDue DEF Due, Node, Clock
    <3> QED
      BY <3>1 DEF Clock
  <2> QED
    BY <2>1
<1>3. Place(k, S, t) = [node |-> k.node, ready |-> With(k.ready, put),
                        delayed |-> With(k.delayed, off)]
  <2>1. Place(k, S, t) = [k EXCEPT !.ready = With(k.ready, put), !.delayed = With(k.delayed, off)]
    BY Zenon DEF Place
  <2> HIDE DEF put, off
  <2> QED
    BY <1>1, <2>1
<1>4. DOMAIN put = S /\ \A p \in S : put[p] = c[p]
  BY <1>2 DEF Level
<1>5. DOMAIN off = {}
  BY <1>2
<1> HIDE DEF put, off
<1>6. /\ DOMAIN With(k.ready, put) = DOMAIN k.ready \union S
      /\ \A p \in DOMAIN With(k.ready, put) : With(k.ready, put)[p] = c[p]
  <2> DEFINE w == With(k.ready, put)
  <2>1. /\ DOMAIN w = DOMAIN k.ready \union DOMAIN put
        /\ \A p \in DOMAIN put : w[p] = put[p]
        /\ \A p \in DOMAIN k.ready \ DOMAIN put : w[p] = k.ready[p]
    BY DEF With
  <2>2. \A p \in DOMAIN k.ready : k.ready[p] = c[p]
    BY DEF Level
  <2> HIDE DEF w
  <2>3. DOMAIN w = DOMAIN k.ready \union S /\ \A p \in DOMAIN w : w[p] = c[p]
    BY <1>4, <2>1, <2>2
  <2> QED
    BY <2>3 DEF w
<1>7. DOMAIN With(k.delayed, off) = {}
  <2>1. DOMAIN With(k.delayed, off) = DOMAIN k.delayed \union DOMAIN off
    BY WithIs, Zenon
  <2>2. DOMAIN k.delayed = {}
    BY DEF Level
  <2> QED
    BY <1>5, <2>1, <2>2
<1> QED
  BY <1>1, <1>3, <1>6, <1>7 DEF Level

(* Once all that are listed are known, they are all in the ready set.      *)
LEMMA PreparedLevel ==
    ASSUME NEW c \in Fees, NEW k, NEW D, D # {}, NEW t \in Clock, Level(k, D, t, c),
           DOMAIN k.node = D
    PROVE  LET r == Prepared(k, D, t) IN
           Level(r, D, t, c) /\ r.node = k.node /\ DOMAIN r.ready = D
<1> DEFINE k1 == Adopt(k, D, t)
           k2 == Promote(k1, D, t)
           k3 == Rebuild(k2, D, t)
<1>1. Level(k1, D, t, c) /\ k1.node = k.node /\ DOMAIN k1.ready = D
  <2> DEFINE S == (D \intersect DOMAIN k.node) \ (DOMAIN k.ready \union DOMAIN k.delayed)
  <2>1. S \in SUBSET (DOMAIN k.node) /\ DOMAIN k.ready \union S = D
    BY DEF Level
  <2>2. k1 = Place(k, S, t)
    BY DEF Adopt
  <2> HIDE DEF S, k1
  <2>3. /\ Level(Place(k, S, t), D, t, c) /\ Place(k, S, t).node = k.node
        /\ DOMAIN Place(k, S, t).ready = DOMAIN k.ready \union S
    BY <2>1, PlaceLevel
  <2> QED
    BY <2>1, <2>2, <2>3
<1> HIDE DEF k1
<1>2. Level(k2, D, t, c) /\ k2.node = k.node /\ DOMAIN k2.ready = D
  <2> DEFINE due == {p \in DOMAIN k1.delayed : k1.delayed[p] <= t}
             put == [p \in due \intersect D \intersect DOMAIN k1.node |-> k1.node[p].runtime]
  <2>1. due = {} /\ DOMAIN put = {}
    BY <1>1 DEF Level
  <2>2. k1 = [node |-> k1.node, ready |-> k1.ready, delayed |-> k1.delayed]
    BY <1>1 DEF Level, Priced, KeySpace
  <2>3. k2 = [node |-> k1.node, ready |-> With(k1.ready, put),
              delayed |-> Without(k1.delayed, due)]
    <3>1. k2 = [k1 EXCEPT !.delayed = Without(k1.delayed, due), !.ready = With(k1.ready, put)]
      BY Zenon DEF Promote
    <3> HIDE DEF put, due, k2
    <3> QED
      BY <2>2, <3>1
  <2> HIDE DEF put, due, k2
  <2>5. With(k1.ready, put) = k1.ready /\ Without(k1.delayed, due) = k1.delayed
    <3>1. k1.ready \in Partial(Nat) /\ k1.delayed \in Partial(Clock)
      BY <1>1 DEF Level, Priced, KeySpace
    <3> QED
      BY <2>1, <3>1, WithNone, WithoutNone
  <2>6. k2 = k1
    BY <2>2, <2>3, <2>5
  <2> QED
    BY <1>1, <2>6
<1> HIDE DEF k2
<1>3. k3 = k2
  <2>1. k2.ready # Empty
    BY <1>2 DEF Empty
  <2> QED
    BY <2>1 DEF Rebuild
<1>4. Prepared(k, D, t) = k3
  BY DEF Prepared, k1, k2
<1> HIDE DEF k3
<1> QED
  BY <1>2, <1>3, <1>4

(* The scan picks the first: the proxy that has been charged the least. *)
LEMMA ScannedLevel ==
    ASSUME NEW c \in Fees, NEW k, NEW D \in SUBSET Proxy, D # {}, NEW t \in Clock,
           Level(k, D, t, c), DOMAIN k.node = D, DOMAIN k.ready = D
    PROVE  LET r == Scanned(k, D, t)
               p == Lowest(k.ready, Pickable(k, D, t))
           IN  /\ Pickable(k, D, t) = D
               /\ p \in D /\ \A q \in D : c[p] <= c[q]
               /\ Level(r, D, t, c) /\ DOMAIN r.node = D /\ DOMAIN r.ready = D
<1> DEFINE S == Pickable(k, D, t)
           p == Lowest(k.ready, S)
           drop == Popped(k, D, t)
           r == Without(k.ready, drop)
           n == Without(k.node, drop \ D)
           bare == [k EXCEPT !.ready = r, !.node = n]
<1>1. S = D
  BY LevelIsDue DEF Pickable
<1>2. \A q \in D : q \in Nat /\ k.ready[q] = c[q] /\ c[q] \in Nat
  BY ModeAssumption DEF Level, Fees
<1>3. p \in D /\ \A q \in D : Before(k.ready, p, q)
  <2>1. D \in SUBSET Nat /\ \A q \in D : k.ready[q] \in Nat
    BY <1>2
  <2>2. Lowest(k.ready, D) \in D /\ \A q \in D : Before(k.ready, Lowest(k.ready, D), q)
    BY <2>1, LowestIsMember
  <2> QED
    BY <1>1, <2>2
<1>4. drop = {}
  <2>1. drop = {q \in D : q # p /\ Before(k.ready, q, p)}
    BY <1>1 DEF Popped
  <2> HIDE DEF drop, p, S
  <2>2. ASSUME NEW q \in D, q # p, Before(k.ready, q, p) PROVE FALSE
    BY <1>2, <1>3, <2>2 DEF Before
  <2> QED
    BY <2>1, <2>2
<1>5. \A q \in D : c[p] <= c[q]
  <2> HIDE DEF p
  <2> QED
    BY <1>2, <1>3 DEF Before
<1>6. /\ k.node \in Partial(Node) /\ k.ready \in Partial(Nat) /\ k.delayed \in Partial(Clock)
      /\ k = [node |-> k.node, ready |-> k.ready, delayed |-> k.delayed]
  BY DEF Level, Priced, KeySpace
<1>7. r = k.ready /\ n = k.node
  <2>1. drop \ D = {}
    BY <1>4
  <2> HIDE DEF drop
  <2> QED
    BY <1>4, <1>6, <2>1, WithoutNone
<1>8. bare = k
  <2> HIDE DEF r, n
  <2> QED
    BY <1>6, <1>7
<1>9. Scanned(k, D, t) = Place(bare, drop \intersect D \intersect DOMAIN k.node, t)
  BY Zenon DEF Scanned
<1>10. /\ Level(Scanned(k, D, t), D, t, c)
       /\ DOMAIN Scanned(k, D, t).node = D /\ DOMAIN Scanned(k, D, t).ready = D
  <2>1. Scanned(k, D, t) = Place(k, {}, t)
    <3> HIDE DEF bare, drop
    <3> QED
      BY <1>4, <1>8, <1>9
  <2>2. PICK Z \in SUBSET (DOMAIN k.node) : Z = {}
    OBVIOUS
  <2> HIDE DEF bare, drop, r, n, p, S
  <2>3. /\ Level(Place(k, Z, t), D, t, c) /\ Place(k, Z, t).node = k.node
        /\ DOMAIN Place(k, Z, t).ready = DOMAIN k.ready \union Z
    BY PlaceLevel
  <2> QED
    BY <2>1, <2>2, <2>3
<1> QED
  BY <1>1, <1>3, <1>5, <1>10

(* The pick pays in both places. *)
Pays(c, d, p) == d = [c EXCEPT ![p] = @ + Charge(p)]

LEMMA PaidLevel ==
    ASSUME NEW c \in Fees, NEW d \in Fees, NEW k, NEW D, NEW t \in Clock, Level(k, D, t, c),
           NEW p \in DOMAIN k.ready \intersect DOMAIN k.node, Pays(c, d, p)
    PROVE  Level(Paid(k, p, t), D, t, d) /\ DOMAIN Paid(k, p, t).node = DOMAIN k.node
<1> DEFINE v == k.ready[p] + Charge(p)
           r == [k.ready EXCEPT ![p] = v]
           n == [k.node EXCEPT ![p].runtime = v, ![p].next = t]
<1>1. /\ k.node \in Partial(Node) /\ k.ready \in Partial(Nat) /\ k.delayed \in Partial(Clock)
      /\ k = [node |-> k.node, ready |-> k.ready, delayed |-> k.delayed] /\ Priced(k, c)
  BY DEF Level, Priced, KeySpace
<1>2. Paid(k, p, t) = [node |-> n, ready |-> r, delayed |-> k.delayed]
  <2>1. Paid(k, p, t) =
          [k EXCEPT !.ready[p] = v, !.node[p].runtime = v, !.node[p].next = t]
    BY Zenon DEF Paid
  <2> HIDE DEF v
  <2> QED
    BY <1>1, <2>1
<1>p. d = [c EXCEPT ![p] = @ + Charge(p)]
  BY DEF Pays
<1>3. Priced(Paid(k, p, t), d)
  BY <1>1, <1>p, PaidPriced
<1>4. p \in Proxy /\ k.node[p] \in Node /\ v = d[p] /\ t <= t
  <2>1. p \in Proxy /\ k.node[p] \in Node
    BY <1>1, InPartial
  <2>2. d[p] = c[p] + Charge(p)
    BY <2>1, <1>p DEF Fees
  <2> QED
    BY <2>1, <2>2 DEF Level, Clock
<1>5. \A q \in Proxy : q # p => d[q] = c[q]
  BY <1>p DEF Fees
<1> HIDE DEF v
<1>6. /\ DOMAIN r = DOMAIN k.ready
      /\ \A q \in DOMAIN k.ready : q \in Proxy /\ r[q] = IF q = p THEN v ELSE k.ready[q]
  BY <1>1, InPartial
<1>7. /\ DOMAIN n = DOMAIN k.node
      /\ \A q \in DOMAIN k.node : q # p => n[q] = k.node[q]
      /\ n[p] = [until |-> k.node[p].until, next |-> t, runtime |-> v]
  <2> HIDE DEF r
  <2> QED
    BY <1>1, <1>4, InPartial DEF Node
<1>n. \A q \in DOMAIN k.node : q \in Proxy
  BY <1>1, InPartial
<1> HIDE DEF r, n
<1>8. \A q \in DOMAIN r : r[q] = d[q]
  BY <1>4, <1>5, <1>6 DEF Level
<1>9. \A q \in DOMAIN n : n[q].until = 0 /\ n[q].next <= t /\ n[q].runtime = d[q]
  BY <1>4, <1>5, <1>7, <1>n DEF Level
<1> QED
  BY <1>2, <1>3, <1>6, <1>7, <1>8, <1>9 DEF Level

Listed == DOMAIN catalog

(* While it is steady, every create is of the current tick and of all that *)
(* are listed, and what a create or an instance has synced is known.       *)
Synced ==
    \A i \in Instance :
        /\ stage[i] \in {"idle", "local", "syncing", "evaluating"}
        /\ stage[i] # "idle" => view[i] = catalog /\ stamp[i] = clock
        /\ stage[i] = "syncing" => Listed \ todo[i] \subseteq DOMAIN node
        /\ stage[i] = "evaluating" => Listed \subseteq DOMAIN node
        /\ synced[i].of = catalog => Listed \subseteq DOMAIN node

(* Scores and runtimes are what was charged, which is even.                *)
Even ==
    /\ Level(Keys, Listed, clock, Fee)
    /\ \A p \in Listed \ DOMAIN node : Fee[p] = 0
    /\ \A p, q \in Listed : Fee[p] <= Fee[q] + Charge(p)

EvenInv ==
    /\ catalog \in mode.catalogs /\ DOMAIN synced = Instance
    /\ Steady => Synced /\ Even

LEMMA EvenInvInit == SelectInit => EvenInv
<1> SUFFICES ASSUME SelectInit PROVE EvenInv
  OBVIOUS
<1>1. SelectInv
  BY SelectInvInit
<1>2. /\ catalog \in mode.catalogs /\ DOMAIN synced = Instance
      /\ DOMAIN node = {} /\ DOMAIN ready = {} /\ DOMAIN delayed = {}
  BY DEF SelectInit, Empty
<1>3. Synced
  <2>1. \A i \in Instance : stage[i] = "idle" /\ (synced[i].of = catalog => Listed = {})
    BY DEF SelectInit, Listed, Empty
  <2> QED
    BY <2>1 DEF Synced
<1>4. \A p \in Listed : p \in Proxy /\ Fee[p] = 0 /\ Charge(p) \in Nat
  <2>1. Listed \subseteq Proxy
    BY <1>1, InPartial DEF SelectInv, SelectTypes, Listed
  <2>2. \A p \in Proxy : charged[p] = 0 /\ Charge(p) \in Nat
    BY ChargeIsNat DEF SelectInit
  <2> QED
    BY <2>1, <2>2 DEF Fee
<1>5. Level(Keys, Listed, clock, Fee)
  BY <1>1, <1>2 DEF Level, SelectInv, PaidFor, Keys
<1>6. Even
  <2> HIDE DEF Fee
  <2> QED
    BY <1>4, <1>5 DEF Even
<1> QED
  BY <1>2, <1>3, <1>6 DEF EvenInv

(* What does not touch the keys, the counts or the clock leaves it even.   *)
LEMMA EvenStays ==
    ASSUME Even, UNCHANGED <<node, ready, delayed, charged, clock, catalog>>
    PROVE  Even'
<1>1. Fee' = Fee /\ Keys' = Keys /\ Listed' = Listed
  BY DEF Fee, Keys, Listed
<1> QED
  BY <1>1 DEF Even, Level, Priced

LEMMA BeginCreateEven ==
    ASSUME SelectInv, EvenInv, Steady, NEW i \in Instance, BeginCreate(i),
           UNCHANGED <<mode, clock, catalog>>
    PROVE  Synced' /\ Even' /\ DOMAIN synced' = Instance
<1> DEFINE eligible == Restrict(catalog, {p \in DOMAIN catalog : catalog[p] <= clock})
<1>1. eligible = catalog
  <2>1. catalog \in Partial(Clock) /\ clock \in Nat
    BY DEF SelectInv, SelectTypes, Clock
  <2>2. {p \in DOMAIN catalog : catalog[p] <= clock} = DOMAIN catalog
    BY <2>1 DEF Steady
  <2>3. catalog = [p \in DOMAIN catalog |-> catalog[p]]
    BY <2>1, InPartial
  <2> QED
    BY <2>2, <2>3 DEF Restrict
<1>2. /\ view' = [view EXCEPT ![i] = eligible] /\ stamp' = [stamp EXCEPT ![i] = clock]
      /\ todo' = [todo EXCEPT ![i] = DOMAIN eligible]
      /\ \E s \in {"idle", "syncing", "local"} : stage' = [stage EXCEPT ![i] = s]
      /\ UNCHANGED <<redisVars, synced>>
  BY DEF BeginCreate, Give, Enter
<1> HIDE DEF eligible
<1>3. /\ view'[i] = catalog /\ stamp'[i] = clock /\ todo'[i] = Listed
      /\ stage'[i] \in {"idle", "syncing", "local"}
      /\ \A j \in Instance \ {i} : /\ view'[j] = view[j] /\ stamp'[j] = stamp[j]
                                    /\ todo'[j] = todo[j] /\ stage'[j] = stage[j]
  BY <1>1, <1>2 DEF SelectInv, SelectTypes, Listed
<1>4. Synced'
  <2>1. node' = node /\ synced' = synced /\ Listed' = Listed
    BY <1>2 DEF redisVars, Listed
  <2> QED
    BY <1>3, <2>1 DEF EvenInv, Synced
<1>5. Even'
  BY <1>2, EvenStays DEF EvenInv, redisVars
<1> QED
  BY <1>2, <1>4, <1>5 DEF EvenInv

LEMMA SkipSyncEven ==
    ASSUME SelectInv, EvenInv, Steady, NEW i \in Instance, SkipSync(i) \/ EndSync(i),
           UNCHANGED <<mode, clock, catalog>>
    PROVE  Synced' /\ Even' /\ DOMAIN synced' = Instance
<1>1. /\ stage[i] = "syncing" /\ stage' = [stage EXCEPT ![i] = "evaluating"]
      /\ UNCHANGED <<redisVars, view, stamp>>
      /\ \/ synced[i].of = view[i] /\ UNCHANGED synced
            /\ todo' = [todo EXCEPT ![i] = {}]
         \/ todo[i] = {} /\ synced' = [synced EXCEPT ![i] = [of |-> view[i], at |-> stamp[i]]]
            /\ UNCHANGED todo
  BY DEF SkipSync, EndSync, UpToDate, Enter
<1>2. view[i] = catalog /\ Listed \ todo[i] \subseteq DOMAIN node
  BY <1>1 DEF EvenInv, Synced
<1>3. Listed \subseteq DOMAIN node
  BY <1>1, <1>2 DEF EvenInv, Synced
<1>4. /\ stage'[i] = "evaluating"
      /\ \A j \in Instance \ {i} : stage'[j] = stage[j] /\ todo'[j] = todo[j]
      /\ DOMAIN synced' = Instance
  BY <1>1 DEF SelectInv, SelectTypes, EvenInv
<1>5. Synced'
  <2>1. node' = node /\ view' = view /\ stamp' = stamp /\ Listed' = Listed
    BY <1>1 DEF redisVars, Listed
  <2> QED
    BY <1>1, <1>3, <1>4, <2>1 DEF EvenInv, Synced
<1>6. Even'
  BY <1>1, EvenStays DEF EvenInv, redisVars
<1> QED
  BY <1>4, <1>5, <1>6

(* A new hash begins with nothing charged, and so does its proxy. *)
LEMMA WriteNodeEven ==
    ASSUME SelectInv, EvenInv, Steady, NEW i \in Instance, WriteNode(i),
           UNCHANGED <<mode, clock, catalog>>
    PROVE  Synced' /\ Even' /\ DOMAIN synced' = Instance
<1>0. SelectInv'
  BY WriteNodeStep
<1>1. PICK p \in todo[i] :
        /\ stage[i] = "syncing"
        /\ node' = With(node, [q \in {p} |->
               IF p \in DOMAIN node THEN [node[p] EXCEPT !.until = view[i][p]]
               ELSE [until |-> view[i][p], next |-> 0, runtime |-> 0]])
        /\ todo' = [todo EXCEPT ![i] = @ \ {p}]
        /\ UNCHANGED <<ready, delayed, charged, localVars, stage, left, view, stamp,
                       synced, plan, tries, answer>>
  BY DEF WriteNode
<1>2. view[i] = catalog /\ Listed \ todo[i] \subseteq DOMAIN node /\ p \in Listed /\ catalog[p] = 0
  <2>1. view[i] = catalog /\ Listed \ todo[i] \subseteq DOMAIN node
    BY <1>1 DEF EvenInv, Synced
  <2>2. p \in DOMAIN catalog
    BY <2>1 DEF SelectInv, Asked, allowed
  <2> QED
    BY <2>1, <2>2 DEF Listed, Steady
<1>3. node \in Partial(Node) /\ Level(Keys, Listed, clock, Fee) /\ clock \in Nat
  BY KeysAreKeys DEF SelectInv, SelectTypes, PaidFor, EvenInv, Even, Clock
<1>4. /\ DOMAIN node' = DOMAIN node \union {p}
      /\ \A q \in DOMAIN node : q # p => node'[q] = node[q]
      /\ node'[p] = IF p \in DOMAIN node THEN [node[p] EXCEPT !.until = 0]
                    ELSE [until |-> 0, next |-> 0, runtime |-> 0]
  BY <1>1, <1>2 DEF With
<1>5. /\ DOMAIN node \subseteq Listed /\ DOMAIN ready \subseteq DOMAIN node /\ DOMAIN delayed = {}
      /\ \A q \in DOMAIN node :
            node[q].until = 0 /\ node[q].next <= clock /\ node[q].runtime = Fee[q]
      /\ \A q \in DOMAIN ready : ready[q] = Fee[q]
  BY <1>3 DEF Level, Keys
<1>6. \A q \in DOMAIN node' :
         node'[q].until = 0 /\ node'[q].next <= clock /\ node'[q].runtime = Fee[q]
  <2>1. p \in DOMAIN node => node[p] \in Node
    BY <1>3, InPartial
  <2>2. p \notin DOMAIN node => Fee[p] = 0
    BY <1>2 DEF EvenInv, Even
  <2>3. node'[p].until = 0 /\ node'[p].next <= clock /\ node'[p].runtime = Fee[p]
    BY <1>2, <1>3, <1>4, <1>5, <2>1, <2>2 DEF Node
  <2> QED
    BY <1>4, <1>5, <2>3
<1>7. Fee' = Fee /\ Listed' = Listed
  BY <1>1 DEF Fee, Listed
<1>8. Level(Keys', Listed, clock, Fee)
  <2>1. Priced(Keys', Fee)
    BY <1>0, <1>7 DEF SelectInv, PaidFor
  <2> HIDE DEF Fee
  <2> QED
    BY <1>1, <1>2, <1>4, <1>5, <1>6, <2>1 DEF Level, Keys
<1>9. Even'
  BY <1>4, <1>7, <1>8 DEF EvenInv, Even, Level, Priced
<1>10. Synced'
  <2>1. todo'[i] = todo[i] \ {p} /\ \A j \in Instance \ {i} : todo'[j] = todo[j]
    BY <1>1 DEF SelectInv, SelectTypes
  <2> QED
    BY <1>1, <1>2, <1>4, <1>7, <2>1 DEF EvenInv, Synced
<1> QED
  BY <1>1, <1>9, <1>10 DEF EvenInv

(* The script picks the proxy that has been charged the least.             *)
LEMMA EvaluateEven ==
    ASSUME SelectInv, EvenInv, Steady, NEW i \in Instance, Evaluate(i),
           UNCHANGED <<mode, clock, catalog>>
    PROVE  Synced' /\ Even' /\ DOMAIN synced' = Instance
<1> DEFINE t == stamp[i]
           k == Prepared(Keys, allowed(i), t)
           S == Pickable(k, allowed(i), t)
           p == Lowest(k.ready, S)
           scanned == Scanned(k, allowed(i), t)
           paid == Paid(scanned, p, t)
           d == [Fee EXCEPT ![p] = @ + Charge(p)]
<1>1. /\ stage[i] = "evaluating" /\ view[i] = catalog /\ t = clock /\ Listed \subseteq DOMAIN node
      /\ allowed(i) = Listed
  BY DEF Evaluate, EvenInv, Synced, allowed, Listed
<1>2. /\ Listed # {} /\ Listed \in SUBSET Proxy /\ clock \in Clock /\ Fee \in Fees
      /\ charged \in [Proxy -> Nat]
  <2>1. Listed # {}
    BY <1>1 DEF SelectInv, Asked
  <2>2. Listed \in SUBSET Proxy
    BY InPartial DEF SelectInv, SelectTypes, Listed
  <2> QED
    BY <2>1, <2>2, FeeType DEF SelectInv, SelectTypes
<1>3. Level(Keys, Listed, clock, Fee) /\ DOMAIN Keys.node = Listed
  <2>1. Level(Keys, Listed, clock, Fee)
    BY DEF EvenInv, Even
  <2> QED
    BY <1>1, <2>1 DEF Level, Keys
<1>4. Level(k, Listed, clock, Fee) /\ DOMAIN k.node = Listed /\ DOMAIN k.ready = Listed
  <2> DEFINE r == Prepared(Keys, Listed, clock)
  <2>1. Level(r, Listed, clock, Fee) /\ r.node = Keys.node /\ DOMAIN r.ready = Listed
    <3> HIDE DEF Fee, Listed
    <3> QED
      BY <1>2, <1>3, PreparedLevel
  <2> QED
    BY <1>1, <1>3, <2>1
<1>5. /\ S = Listed /\ p \in Listed /\ \A q \in Listed : Fee[p] <= Fee[q]
      /\ Level(scanned, Listed, clock, Fee)
      /\ DOMAIN scanned.node = Listed /\ DOMAIN scanned.ready = Listed
  <2> DEFINE r == Scanned(k, Listed, clock)
             x == Lowest(k.ready, Pickable(k, Listed, clock))
  <2>1. /\ Pickable(k, Listed, clock) = Listed
        /\ x \in Listed /\ \A q \in Listed : Fee[x] <= Fee[q]
        /\ Level(r, Listed, clock, Fee) /\ DOMAIN r.node = Listed /\ DOMAIN r.ready = Listed
    <3>1. /\ Fee \in Fees /\ Listed \in SUBSET Proxy /\ Listed # {} /\ clock \in Clock
          /\ Level(k, Listed, clock, Fee) /\ DOMAIN k.node = Listed /\ DOMAIN k.ready = Listed
      BY <1>2, <1>4
    <3> HIDE DEF Fee, Listed, k
    <3> QED
      BY <3>1, ScannedLevel
  <2> QED
    BY <1>1, <2>1
<1>6. /\ SetKeys(paid) /\ charged' = [charged EXCEPT ![p] = @ + 1]
      /\ stage' = [stage EXCEPT ![i] = "idle"]
      /\ UNCHANGED <<view, stamp, todo, synced>>
  <2>1. S # {}
    BY <1>2, <1>5
  <2>2. ~Lost(i, "seeding")
    BY DEF Lost, Steady
  <2> HIDE DEF t, k, S, p, scanned, paid
  <2> QED
    BY <2>1, <2>2 DEF Evaluate, Give, Enter, t, k, S, p, scanned, paid
<1> HIDE DEF t, k, S, p, scanned
<1>7. Fee' = d /\ d \in Fees /\ p \in Proxy /\ Charge(p) \in Nat
  <2>1. p \in Proxy /\ Charge(p) \in Nat
    BY <1>2, <1>5, ChargeIsNat
  <2>2. Fee' = [Fee EXCEPT ![p] = @ + Charge(p)]
    BY <1>2, <1>6, <2>1, FeeGrows
  <2> HIDE DEF Fee
  <2> QED
    BY <1>2, <2>1, <2>2 DEF Fees
<1> HIDE DEF d
<1>8. Level(paid, Listed, clock, d) /\ DOMAIN paid.node = Listed
  <2>1. Pays(Fee, d, p)
    BY DEF d, Pays
  <2>2. p \in DOMAIN scanned.ready \intersect DOMAIN scanned.node
    BY <1>5
  <2>3. /\ Fee \in Fees /\ d \in Fees /\ clock \in Clock
        /\ Level(scanned, Listed, clock, Fee)
    BY <1>2, <1>5, <1>7
  <2> HIDE DEF Fee, Listed, paid
  <2>4. /\ Level(Paid(scanned, p, clock), Listed, clock, d)
        /\ DOMAIN Paid(scanned, p, clock).node = DOMAIN scanned.node
    BY <2>1, <2>2, <2>3, PaidLevel
  <2> QED
    BY <1>1, <1>5, <2>4 DEF paid
<1> HIDE DEF paid
<1>9. Keys' = paid /\ DOMAIN node' = Listed /\ Listed' = Listed
  <2>1. paid = [node |-> paid.node, ready |-> paid.ready, delayed |-> paid.delayed]
    BY <1>8 DEF Level, Priced, KeySpace
  <2> QED
    BY <1>6, <1>8, <2>1 DEF SetKeys, Keys, Listed
<1>10. ASSUME NEW x \in Listed, NEW y \in Listed PROVE d[x] <= d[y] + Charge(x)
  <2> HIDE DEF Fee
  <2>1. /\ x \in Proxy /\ y \in Proxy /\ Charge(x) \in Nat
        /\ Fee[x] \in Nat /\ Fee[y] \in Nat /\ Fee[p] \in Nat
    BY <1>2, <1>7, ChargeIsNat DEF Fees
  <2>2. /\ d[x] = IF x = p THEN Fee[p] + Charge(p) ELSE Fee[x]
        /\ d[y] = IF y = p THEN Fee[p] + Charge(p) ELSE Fee[y]
    BY <1>2, <2>1 DEF Fees, d
  <2>3. Fee[p] <= Fee[y] /\ Fee[x] <= Fee[y] + Charge(x)
    BY <1>5 DEF EvenInv, Even
  <2> QED
    BY <1>7, <2>1, <2>2, <2>3
<1>11. Even'
  <2>1. Level(Keys', Listed', clock', Fee')
    BY <1>7, <1>8, <1>9
  <2> QED
    BY <1>7, <1>9, <1>10, <2>1 DEF Even
<1>12. Synced'
  <2>1. stage'[i] = "idle" /\ \A j \in Instance \ {i} : stage'[j] = stage[j]
    BY <1>6 DEF SelectInv, SelectTypes
  <2> QED
    BY <1>6, <1>9, <2>1 DEF EvenInv, Synced
<1> QED
  BY <1>6, <1>11, <1>12 DEF EvenInv

LEMMA EvenInvStep == SelectInv /\ EvenInv /\ [SelectNext]_selectVars => EvenInv'
<1> SUFFICES ASSUME SelectInv, EvenInv, [SelectNext]_selectVars PROVE EvenInv'
  OBVIOUS
<1>1. CASE UNCHANGED selectVars
  <2>1. Steady' = Steady /\ Synced' = Synced
    BY <1>1 DEF selectVars, redisVars, Steady, Synced, Listed
  <2>2. Even => Even'
    BY <1>1, EvenStays DEF selectVars, redisVars
  <2> QED
    BY <1>1, <2>1, <2>2 DEF EvenInv, selectVars
<1>2. ASSUME NEW i \in Instance, InstanceStep(i) PROVE EvenInv'
  <2>1. UNCHANGED <<mode, clock, catalog>>
    BY <1>2 DEF InstanceStep
  <2>2. Steady' = Steady
    BY <2>1 DEF Steady
  <2>3. DOMAIN synced' = Instance
    BY <1>2
    DEF EvenInv, InstanceStep, BeginCreate, SkipSync, WriteNode, EndSync, Evaluate, SeedRead,
        SeedWrite, SeedFails, TryAgain, Fallback, RedisFails, LocalSelect
  <2>4. ASSUME Steady PROVE Synced' /\ Even'
    <3>1. stage[i] \in {"idle", "local", "syncing", "evaluating"} /\ ~mode.faulty
      BY <2>4 DEF EvenInv, Synced, Steady
    <3>2. CASE BeginCreate(i)
      BY <2>1, <2>4, <3>2, BeginCreateEven
    <3>3. CASE SkipSync(i) \/ EndSync(i)
      BY <2>1, <2>4, <3>3, SkipSyncEven
    <3>4. CASE WriteNode(i)
      BY <2>1, <2>4, <3>4, WriteNodeEven
    <3>5. CASE Evaluate(i)
      BY <2>1, <2>4, <3>5, EvaluateEven
    <3>6. CASE LocalSelect(i)
      <4>1. /\ stage' = [stage EXCEPT ![i] = "idle"]
            /\ UNCHANGED <<redisVars, view, stamp, todo, synced>>
        BY <3>6 DEF LocalSelect, Give, Enter
      <4>2. stage'[i] = "idle" /\ \A j \in Instance \ {i} : stage'[j] = stage[j]
        BY <4>1 DEF SelectInv, SelectTypes
      <4>3. node' = node /\ Listed' = Listed
        BY <2>1, <4>1 DEF redisVars, Listed
      <4>4. Synced'
        BY <2>1, <2>4, <4>1, <4>2, <4>3 DEF EvenInv, Synced
      <4>5. Even'
        BY <2>1, <2>4, <4>1, EvenStays DEF EvenInv, redisVars
      <4> QED
        BY <4>4, <4>5
    <3>7. ~(SeedRead(i) \/ SeedWrite(i) \/ SeedFails(i) \/ Fallback(i) \/ RedisFails(i))
      BY <3>1 DEF SeedRead, SeedWrite, SeedFails, Fallback, RedisFails
    <3> QED
      BY <1>2, <3>2, <3>3, <3>4, <3>5, <3>6, <3>7 DEF InstanceStep
  <2> QED
    BY <2>1, <2>2, <2>3, <2>4 DEF EvenInv
<1>3. CASE Change
  <2>1. UNCHANGED <<mode, synced>> /\ catalog' \in mode.catalogs /\ catalog' # catalog
    BY <1>3 DEF Change
  <2>2. ~Steady'
    BY <2>1 DEF EvenInv, Steady
  <2> QED
    BY <2>1, <2>2 DEF EvenInv
<1>4. CASE ClockTick
  <2>1. /\ clock' = clock + 1
        /\ \A i \in Instance : stage[i] # "idle" => clock < stamp[i] + mode.lag
        /\ UNCHANGED <<mode, catalog, redisVars, stage, view, stamp, todo, synced>>
    BY <1>4 DEF ClockTick
  <2>2. clock \in Nat /\ \A i \in Instance : stamp[i] \in Nat
    BY DEF SelectInv, SelectTypes, Clock
  <2>3. Steady' = Steady /\ Listed' = Listed /\ Fee' = Fee /\ Keys' = Keys /\ node' = node
    BY <2>1 DEF Steady, Listed, Fee, Keys, redisVars
  <2>4. ASSUME Steady PROVE Synced' /\ Even'
    <3>1. \A i \in Instance : stage[i] = "idle"
      <4>1. mode.lag = 0 /\ \A i \in Instance : stage[i] # "idle" => stamp[i] = clock
        BY <2>4 DEF Steady, EvenInv, Synced
      <4> QED
        BY <2>1, <2>2, <4>1
    <3>2. Synced'
      BY <2>1, <2>3, <2>4, <3>1 DEF EvenInv, Synced
    <3>3. Level(Keys, Listed, clock + 1, Fee)
      <4>1. Level(Keys, Listed, clock, Fee)
        BY <2>4 DEF EvenInv, Even
      <4>2. \A p \in DOMAIN Keys.node : Keys.node[p].next \in Nat
        <5>1. \A p \in DOMAIN Keys.node : Keys.node[p] \in Node
          BY <4>1, InPartial DEF Level, Priced, KeySpace
        <5> QED
          BY <5>1 DEF Node, Clock
      <4> HIDE DEF Keys, Fee
      <4> QED
        BY <2>2, <4>1, <4>2 DEF Level
    <3>4. Even'
      <4>1. Level(Keys', Listed', clock', Fee')
        BY <2>1, <2>3, <3>3
      <4> QED
        BY <2>3, <2>4, <4>1 DEF EvenInv, Even
    <3> QED
      BY <3>2, <3>4
  <2> QED
    BY <2>1, <2>3, <2>4 DEF EvenInv
<1> QED
  BY <1>1, <1>2, <1>3, <1>4 DEF SelectNext

(* The instances share out their creates by weight: while it is steady, no *)
(* proxy is ever charged more than one selection ahead of another          *)
(* (redis_zfair.go: the select script and the sync before it).             *)
THEOREM CreatesAreSharedOut == SelectSpec => []FairTogether
<1>1. SelectInv /\ EvenInv => FairTogether
  <2> SUFFICES ASSUME SelectInv, EvenInv, Steady, NEW p \in Listed, NEW q \in Listed
               PROVE  charged[p] * Charge(p) <= charged[q] * Charge(q) + Charge(p)
    BY DEF FairTogether, Listed
  <2>1. p \in Proxy /\ q \in Proxy
    BY InPartial DEF SelectInv, SelectTypes, Listed
  <2>2. Fee[p] <= Fee[q] + Charge(p)
    BY DEF EvenInv, Even
  <2> QED
    BY <2>1, <2>2 DEF Fee
<1> QED
  BY <1>1, SelectInvInit, SelectInvStep, EvenInvInit, EvenInvStep, PTL DEF SelectSpec
=============================================================================
