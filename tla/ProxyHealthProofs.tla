--------------------------- MODULE ProxyHealthProofs ---------------------------
(***************************************************************************)
(* Proofs about ProxyHealth, for any proxies, deployments and policy:      *)
(* what draining the queue does to the outcomes in it, where an outcome    *)
(* can be on its way to the store, and how often it can count.             *)
(***************************************************************************)
EXTENDS ProxyHealth, FiniteFolds, SequenceTheorems, TLAPS

-----------------------------------------------------------------------------
(* Draining.  Coalesce is a fold: what holds of every turn of its loop      *)
(* holds of its result.                                                    *)

(* The deltas d stand for outcomes of I only, and for none of them twice. *)
Sound(d, I) ==
    /\ d \in Seq(Delta)
    /\ \A j \in 1 .. Len(d) : d[j].ids \subseteq I
    /\ \A j, k \in 1 .. Len(d) : d[j].ids \intersect d[k].ids # {} => j = k

(* The last of some deltas is one of them, and none comes after it. *)
LEMMA MaxIsMember ==
    ASSUME NEW S \in SUBSET Int, IsFiniteSet(S), S # {}
    PROVE  Max(S) \in S /\ \A x \in S : x <= Max(S)
<1> DEFINE f == [x \in S |-> x]
<1>1. PICK m \in S : \A x \in S : f[x] <= f[m]
  <2>1. f \in [S -> Int]
    OBVIOUS
  <2> HIDE DEF f
  <2> QED
    BY <2>1, GreatestValue
<1>2. \A x \in S : m >= x
  BY <1>1
<1>3. Max(S) \in S /\ \A x \in S : Max(S) >= x
  BY <1>2 DEF Max
<1> QED
  BY <1>3

(* What a turn of the loop of drain does: the outcome gets a delta of its   *)
(* own, or joins a success of its proxy after which nothing happened to it. *)
LEMMA MergeShape ==
    ASSUME NEW d \in Seq(Delta), NEW e \in Event
    PROVE  \/ Merge(d, e) = Append(d, Alone(e))
           \/ \E n \in 1 .. Len(d) :
                 /\ Merge(d, e) = [d EXCEPT ![n].ids = @ \union {e.id}]
                 /\ d[n].proxy = e.proxy /\ d[n].penalty = 0 /\ e.penalty = 0
                 /\ \A j \in 1 .. Len(d) : d[j].proxy = e.proxy => j <= n
<1> DEFINE same == {j \in DOMAIN d : d[j].proxy = e.proxy}
<1>1. DOMAIN d = 1 .. Len(d) /\ Len(d) \in Nat
  OBVIOUS
<1>2. same # {} => Max(same) \in same /\ \A j \in same : j <= Max(same)
  <2>1. IsFiniteSet(1 .. Len(d)) /\ same \subseteq 1 .. Len(d) /\ 1 .. Len(d) \subseteq Int
    BY <1>1, FS_Interval
  <2> HIDE DEF same
  <2>2. IsFiniteSet(same) /\ same \in SUBSET Int
    BY <2>1, FS_Subset
  <2> QED
    BY <2>2, MaxIsMember
<1>3. CASE e.penalty = 0 /\ same # {} /\ d[Max(same)].penalty = 0
  <2> DEFINE n == Max(same)
  <2>1. Merge(d, e) = [d EXCEPT ![n].ids = @ \union {e.id}]
    BY <1>3 DEF Merge
  <2>2. n \in 1 .. Len(d) /\ d[n].proxy = e.proxy
    BY <1>1, <1>2, <1>3
  <2>3. \A j \in 1 .. Len(d) : d[j].proxy = e.proxy => j <= n
    BY <1>1, <1>2, <1>3
  <2> HIDE DEF n
  <2>4. d[n].penalty = 0 /\ e.penalty = 0
    BY <1>3 DEF n
  <2> QED
    BY <2>1, <2>2, <2>3, <2>4
<1>4. CASE ~(e.penalty = 0 /\ same # {} /\ d[Max(same)].penalty = 0)
  BY <1>4 DEF Merge
<1> QED
  BY <1>3, <1>4

LEMMA AloneType ==
    ASSUME NEW e \in Event
    PROVE  /\ Alone(e) \in Delta /\ Alone(e).ids = {e.id}
           /\ Alone(e).proxy = e.proxy /\ Alone(e).penalty = e.penalty
BY DEF Event, Delta, Alone

LEMMA MergeType ==
    ASSUME NEW d \in Seq(Delta), NEW e \in Event
    PROVE  Merge(d, e) \in Seq(Delta)
<1>1. e.id \in 1 .. MaxEvents
  BY DEF Event
<1>2. Append(d, Alone(e)) \in Seq(Delta)
  BY AloneType
<1>3. ASSUME NEW n \in 1 .. Len(d) PROVE [d EXCEPT ![n].ids = @ \union {e.id}] \in Seq(Delta)
  <2> DEFINE x == [d[n] EXCEPT !.ids = @ \union {e.id}]
  <2>1. d[n] \in Delta
    OBVIOUS
  <2>2. x \in Delta
    BY <1>1, <2>1 DEF Delta
  <2>3. [d EXCEPT ![n].ids = @ \union {e.id}] = [d EXCEPT ![n] = x]
    OBVIOUS
  <2>4. \A y \in Delta : [d EXCEPT ![n] = y] \in Seq(Delta)
    OBVIOUS
  <2> HIDE DEF x
  <2> QED
    BY <2>2, <2>3, <2>4
<1>4. ASSUME NEW n \in 1 .. Len(d), Merge(d, e) = [d EXCEPT ![n].ids = @ \union {e.id}]
      PROVE  Merge(d, e) \in Seq(Delta)
  BY <1>3, <1>4
<1> QED
  BY <1>2, <1>4, MergeShape

(* A loop over 1 .. n, as the library's fold has it and turn by turn. *)
FoldsTo(h, n, V, base, turn) ==
    /\ h[{}] = base
    /\ \A s \in SUBSET (1 .. n) :
           s # {} /\ h[s \ {Max(s)}] \in V => h[s] = turn[<<Max(s), h[s \ {Max(s)}]>>]

InTurn(g, n, base, turn) == g[0] = base /\ \A i \in 1 .. n : g[i] = turn[<<i, g[i - 1]>>]

LEMMA TurnByTurn ==
    ASSUME NEW n \in Nat, NEW V, NEW base \in V, NEW h,
           NEW turn \in [(1 .. n) \X V -> V], FoldsTo(h, n, V, base, turn)
    PROVE  \E g \in [0 .. n -> V] : g[n] = h[1 .. n] /\ InTurn(g, n, base, turn)
<1> DEFINE g == [i \in 0 .. n |-> h[1 .. i]]
<1>1. ASSUME NEW i \in 1 .. n
      PROVE  (1 .. i) \in SUBSET (1 .. n) /\ 1 .. i # {} /\ (1 .. i) \ {Max(1 .. i)} = 1 .. (i - 1)
             /\ Max(1 .. i) = i
  <2>1. 1 .. i \in SUBSET Int /\ IsFiniteSet(1 .. i) /\ i \in 1 .. i
    BY FS_Interval
  <2>2. Max(1 .. i) \in 1 .. i /\ i <= Max(1 .. i)
    <3> DEFINE S == 1 .. i
    <3>1. S # {}
      BY <2>1
    <3> HIDE DEF S
    <3>2. Max(S) \in S /\ \A x \in S : x <= Max(S)
      BY <2>1, <3>1, MaxIsMember DEF S
    <3> QED
      BY <2>1, <3>2 DEF S
  <2>3. Max(1 .. i) = i
    BY <2>2
  <2>4. (1 .. i) \in SUBSET (1 .. n) /\ 1 .. i # {}
    BY <2>1
  <2>5. (1 .. i) \ {i} = 1 .. (i - 1)
    OBVIOUS
  <2> QED
    BY <2>3, <2>4, <2>5
<1>2. ASSUME NEW i \in 1 .. n, h[1 .. (i - 1)] \in V
      PROVE  h[1 .. i] = turn[<<i, h[1 .. (i - 1)]>>] /\ h[1 .. i] \in V
  <2>1. h[1 .. i] = turn[<<i, h[1 .. (i - 1)]>>]
    <3> DEFINE s == 1 .. i
    <3>1. s \in SUBSET (1 .. n) /\ s # {} /\ s \ {Max(s)} = 1 .. (i - 1) /\ Max(s) = i
      BY <1>1
    <3>2. h[s \ {Max(s)}] \in V
      BY <1>2, <3>1, Zenon
    <3> HIDE DEF s
    <3>3. h[s] = turn[<<Max(s), h[s \ {Max(s)}]>>]
      BY <3>1, <3>2 DEF FoldsTo
    <3> QED
      BY <3>1, <3>3, Zenon DEF s
  <2> QED
    BY <1>2, <2>1
<1>3. \A i \in 0 .. n : h[1 .. i] \in V
  <2> DEFINE N == {i \in 0 .. n : h[1 .. i] \notin V}
  <2>1. SUFFICES ASSUME N # {} PROVE FALSE
    OBVIOUS
  <2>2. PICK m \in N : \A k \in N : m <= k
    <3>1. N \in SUBSET Nat
      OBVIOUS
    <3> HIDE DEF N
    <3> QED
      BY <2>1, <3>1, SmallestNumber
  <2>3. m # 0
    <3>1. 1 .. 0 = {}
      OBVIOUS
    <3> QED
      BY <2>2, <3>1, Zenon DEF FoldsTo
  <2>4. m \in 1 .. n /\ m - 1 \in 0 .. n /\ ~(m <= m - 1)
    BY <2>2, <2>3
  <2>5. h[1 .. (m - 1)] \in V
    BY <2>2, <2>4
  <2> QED
    BY <1>2, <2>2, <2>4, <2>5
<1>4. g \in [0 .. n -> V]
  BY <1>3
<1>5. g[0] = base /\ g[n] = h[1 .. n]
  <2>1. 1 .. 0 = {} /\ 0 \in 0 .. n /\ n \in 0 .. n
    OBVIOUS
  <2> QED
    BY <2>1, Zenon DEF FoldsTo
<1>6. ASSUME NEW i \in 1 .. n PROVE g[i] = turn[<<i, g[i - 1]>>]
  <2>1. i \in 0 .. n /\ i - 1 \in 0 .. n
    OBVIOUS
  <2>2. h[1 .. i] = turn[<<i, h[1 .. (i - 1)]>>]
    BY <1>2, <1>3, <2>1
  <2> QED
    BY <2>1, <2>2, Zenon
<1> HIDE DEF g
<1> QED
  BY <1>4, <1>5, <1>6 DEF InTurn

(* It can be run: it has a result of its kind. *)
IsRun(h, n, base, turn) ==
    h = [s \in SUBSET (1 .. n) |->
            IF s = {} THEN base ELSE turn[<<Max(s), h[s \ {Max(s)}]>>]]

LEMMA RunExists ==
    ASSUME NEW n \in Nat, NEW V, NEW base \in V, NEW turn \in [(1 .. n) \X V -> V]
    PROVE  \E h \in [SUBSET (1 .. n) -> V] : IsRun(h, n, base, turn)
<1> DEFINE D == 1 .. n
           pick == [s \in SUBSET D |-> Max(s)]
<1>1. IsFiniteSet(D) /\ D \in SUBSET Int
  BY FS_Interval
<1> HIDE DEF D
<1>2. \A s \in SUBSET D : s # {} => pick[s] = Max(s) /\ pick[s] \in s
  BY <1>1, MaxIsMember, FS_Subset
<1> HIDE DEF pick
<1>3. PICK g : IsFold(g, D, base, pick, turn)
  <2>1. \A s \in SUBSET D : s # {} => pick[s] \in s
    BY <1>2
  <2> QED
    BY <1>1, <2>1, FoldExists
<1>4. \A s \in SUBSET D : g[s] \in V
  <2>1. \A s \in SUBSET D : s # {} => pick[s] \in s
    BY <1>2
  <2>2. \A x \in D, v \in V : turn[<<x, v>>] \in V
    BY DEF D
  <2> QED
    BY <1>1, <1>3, <2>1, <2>2, FoldStaysIn
<1>5. g = [s \in SUBSET D |-> IF s = {} THEN base ELSE turn[<<Max(s), g[s \ {Max(s)}]>>]]
  BY <1>2, <1>3 DEF IsFold
<1>6. g \in [SUBSET D -> V]
  <2>1. g = [s \in SUBSET D |-> g[s]]
    BY <1>5
  <2> QED
    BY <1>4, <2>1
<1> QED
  BY <1>5, <1>6 DEF D, IsRun

(* Draining, turn by turn. *)
LEMMA CoalesceInTurn ==
    ASSUME NEW events \in Seq(Event)
    PROVE  \E g \in [0 .. Len(events) -> Seq(Delta)] :
               /\ g[0] = <<>> /\ g[Len(events)] = Coalesce(events)
               /\ \A i \in 1 .. Len(events) : g[i] = Merge(g[i - 1], events[i])
<1> DEFINE n == Len(events)
           turn == [xv \in (1 .. n) \X Seq(Delta) |-> Merge(xv[2], events[xv[1]])]
           Run(h) == h = [s \in SUBSET (1 .. n) |->
                            IF s = {} THEN <<>>
                            ELSE Merge(h[s \ {Max(s)}], events[Max(s)])]
           of == CHOOSE h : Run(h)
           none == <<>>
           V == Seq(Delta)
<1>1. n \in Nat /\ DOMAIN events = 1 .. n /\ \A x \in 1 .. n : events[x] \in Event
  OBVIOUS
<1>2. Coalesce(events) = of[1 .. n]
  BY <1>1 DEF Coalesce, FoldLeft, MapThenFoldSet
<1>3. \A x \in 1 .. n, v \in Seq(Delta) :
          turn[<<x, v>>] = Merge(v, events[x]) /\ turn[<<x, v>>] \in Seq(Delta)
  <2>1. ASSUME NEW x \in 1 .. n, NEW v \in Seq(Delta) PROVE Merge(v, events[x]) \in Seq(Delta)
    BY <1>1, MergeType
  <2> QED
    BY <2>1
<1>4. turn \in [(1 .. n) \X Seq(Delta) -> Seq(Delta)]
  <2>1. ASSUME NEW xv \in (1 .. n) \X Seq(Delta) PROVE Merge(xv[2], events[xv[1]]) \in Seq(Delta)
    BY <1>1, MergeType
  <2> QED
    BY <2>1
<1>5. none \in V /\ turn \in [(1 .. n) \X V -> V]
  BY <1>4
<1>6. \A s \in SUBSET (1 .. n) : s # {} => Max(s) \in 1 .. n
  <2>1. ASSUME NEW s \in SUBSET (1 .. n), s # {} PROVE Max(s) \in 1 .. n
    <3>1. IsFiniteSet(1 .. n) /\ 1 .. n \in SUBSET Int
      BY <1>1, FS_Interval
    <3>2. IsFiniteSet(s) /\ s \in SUBSET Int
      BY <3>1, FS_Subset
    <3> QED
      BY <2>1, <3>2, MaxIsMember
  <2> QED
    BY <2>1
<1> HIDE DEF n, turn, none, V
<1>7. \E h : Run(h)
  <2>1. PICK h \in [SUBSET (1 .. n) -> V] : IsRun(h, n, none, turn)
    BY <1>1, <1>5, RunExists
  <2>2. ASSUME NEW s \in SUBSET (1 .. n), s # {}
        PROVE  turn[<<Max(s), h[s \ {Max(s)}]>>] = Merge(h[s \ {Max(s)}], events[Max(s)])
    <3>1. h[s \ {Max(s)}] \in V
      BY <2>2
    <3> QED
      BY <1>3, <1>6, <2>2, <3>1 DEF V
  <2>3. Run(h)
    BY <2>1, <2>2 DEF none, IsRun
  <2> QED
    BY <2>3
<1>8. Run(of)
  <2> HIDE DEF Run
  <2> QED
    BY <1>7, Zenon
<1> HIDE DEF of
<1>9. of[{}] = none
  BY <1>8 DEF none
<1>10. ASSUME NEW s \in SUBSET (1 .. n), s # {}, of[s \ {Max(s)}] \in V
       PROVE  of[s] = turn[<<Max(s), of[s \ {Max(s)}]>>]
  <2>1. of[s] = Merge(of[s \ {Max(s)}], events[Max(s)])
    BY <1>8, <1>10
  <2> QED
    BY <1>3, <1>6, <1>10, <2>1 DEF V
<1> HIDE DEF Run
<1>11. PICK g \in [0 .. n -> V] : g[n] = of[1 .. n] /\ InTurn(g, n, none, turn)
  <2>1. FoldsTo(of, n, V, none, turn)
    BY <1>9, <1>10 DEF FoldsTo
  <2> QED
    BY <1>1, <1>5, <2>1, TurnByTurn
<1>12. ASSUME NEW i \in 1 .. n PROVE g[i] = Merge(g[i - 1], events[i])
  <2>1. i - 1 \in 0 .. n
    BY <1>1
  <2> QED
    BY <1>3, <1>11, <2>1 DEF V, InTurn
<1> QED
  BY <1>2, <1>11, <1>12 DEF n, none, V, InTurn

(* One outcome more. *)
LEMMA MergeIsSound ==
    ASSUME NEW I \in SUBSET (1 .. MaxEvents), NEW d, Sound(d, I), NEW e \in Event, e.id \notin I
    PROVE  Sound(Merge(d, e), I \union {e.id})
<1> DEFINE new == Alone(e)
<1>1. /\ d \in Seq(Delta) /\ DOMAIN d = 1 .. Len(d) /\ Len(d) \in Nat
      /\ \A j \in 1 .. Len(d) : d[j] \in Delta
  BY DEF Sound
<1>2. e.proxy \in Proxy /\ e.penalty \in Penalties \union {0} /\ e.id \in 1 .. MaxEvents
  BY DEF Event
<1>3. new \in Delta /\ new.ids = {e.id}
  BY AloneType
<1> HIDE DEF new
<1>5. CASE Merge(d, e) = Append(d, new)
  <2> DEFINE a == Append(d, new)
  <2>1. /\ a \in Seq(Delta) /\ Len(a) = Len(d) + 1 /\ a[Len(d) + 1] = new
        /\ \A j \in 1 .. Len(d) : a[j] = d[j]
    BY <1>1, <1>3
  <2> HIDE DEF a
  <2>2. ASSUME NEW j \in 1 .. Len(a)
        PROVE  (j \in 1 .. Len(d) /\ a[j].ids = d[j].ids) \/ (j = Len(d) + 1 /\ a[j].ids = {e.id})
    BY <1>1, <1>3, <2>1
  <2>3. \A j \in 1 .. Len(a) : a[j].ids \subseteq I \union {e.id}
    BY <2>2 DEF Sound
  <2>4. \A j, k \in 1 .. Len(a) : a[j].ids \intersect a[k].ids # {} => j = k
    BY <2>2 DEF Sound
  <2> QED
    BY <1>5, <2>1, <2>3, <2>4 DEF Sound, a
<1>6. ASSUME NEW n \in 1 .. Len(d), Merge(d, e) = [d EXCEPT ![n].ids = @ \union {e.id}]
      PROVE  Sound(Merge(d, e), I \union {e.id})
  <2> DEFINE a == [d EXCEPT ![n].ids = @ \union {e.id}]
  <2>1. /\ d[n] \in Delta
        /\ a = [d EXCEPT ![n] = [proxy |-> d[n].proxy, penalty |-> d[n].penalty,
                                 ids |-> d[n].ids \union {e.id}]]
    BY <1>1, <1>6 DEF Delta
  <2>2. /\ a \in Seq(Delta) /\ Len(a) = Len(d)
        /\ a[n].ids = d[n].ids \union {e.id}
        /\ \A j \in 1 .. Len(d) : j # n => a[j] = d[j]
    <3> DEFINE x == [proxy |-> d[n].proxy, penalty |-> d[n].penalty,
                     ids |-> d[n].ids \union {e.id}]
    <3>1. x \in Delta /\ x.ids = d[n].ids \union {e.id}
      BY <1>2, <2>1 DEF Delta
    <3> HIDE DEF x
    <3>2. a = [d EXCEPT ![n] = x]
      BY <2>1 DEF x
    <3> HIDE DEF a
    <3> QED
      BY <1>1, <1>6, <3>1, <3>2
  <2> HIDE DEF a
  <2>3. \A j \in 1 .. Len(a) : a[j].ids \subseteq I \union {e.id}
    BY <2>2 DEF Sound
  <2>4. ASSUME NEW j \in 1 .. Len(a), NEW k \in 1 .. Len(a), NEW z \in a[j].ids \intersect a[k].ids
        PROVE  j = k
    <3>1. z \in d[j].ids \/ (j = n /\ z = e.id)
      BY <2>2, <2>4
    <3>2. z \in d[k].ids \/ (k = n /\ z = e.id)
      BY <2>2, <2>4
    <3>3. e.id \notin d[j].ids /\ e.id \notin d[k].ids
      BY <2>2 DEF Sound
    <3> QED
      BY <2>2, <3>1, <3>2, <3>3 DEF Sound
  <2> QED
    BY <1>6, <2>2, <2>3, <2>4 DEF Sound, a
<1>7. /\ d \in Seq(Delta) /\ e \in Event
  BY DEF Sound
<1> QED
  BY <1>5, <1>6, <1>7, MergeShape DEF new

(* Draining the queue loses nothing of what the deltas must not mix up:    *)
(* outcomes of which each is in one delta at most, and none that was not    *)
(* in the queue.                                                           *)
LEMMA CoalesceIsSound ==
    ASSUME NEW events \in Seq(Event),
           \A i, j \in 1 .. Len(events) : events[i].id = events[j].id => i = j,
           NEW g \in [0 .. Len(events) -> Seq(Delta)], g[0] = <<>>,
           \A i \in 1 .. Len(events) : g[i] = Merge(g[i - 1], events[i])
    PROVE  \A i \in 0 .. Len(events) : Sound(g[i], {events[j].id : j \in 1 .. i})
<1> DEFINE n == Len(events)
           I(i) == {events[j].id : j \in 1 .. i}
           N == {i \in 0 .. n : ~Sound(g[i], I(i))}
<1>1. n \in Nat /\ \A i \in 1 .. n : events[i] \in Event
  OBVIOUS
<1>2. SUFFICES ASSUME N # {} PROVE FALSE
  OBVIOUS
<1>3. PICK m \in N : \A k \in N : m <= k
  <2>1. N \in SUBSET Nat
    BY <1>1
  <2> HIDE DEF N
  <2> QED
    BY <1>2, <2>1, SmallestNumber
<1>4. CASE m = 0
  <2>1. Sound(<<>>, I(0))
    BY DEF Sound
  <2> QED
    BY <1>3, <1>4, <2>1
<1>5. CASE m # 0
  <2>1. m \in 1 .. n /\ m - 1 \in 0 .. n /\ ~(m <= m - 1)
    BY <1>1, <1>3, <1>5
  <2>2. Sound(g[m - 1], I(m - 1))
    BY <1>3, <2>1
  <2>3. events[m].id \notin I(m - 1) /\ I(m) = I(m - 1) \union {events[m].id}
    <3>1. 1 .. m = 1 .. (m - 1) \union {m} /\ m \notin 1 .. (m - 1) /\ 1 .. m \subseteq 1 .. n
      BY <1>1, <2>1
    <3>2. \A j \in 1 .. (m - 1) : j \in 1 .. n /\ j # m
      BY <3>1
    <3>3. events[m].id \notin I(m - 1)
      BY <2>1, <3>2
    <3>4. I(m) = I(m - 1) \union {events[m].id}
      BY <3>1
    <3> QED
      BY <3>3, <3>4
  <2>4. I(m - 1) \in SUBSET (1 .. MaxEvents)
    <3>1. \A j \in 1 .. (m - 1) : j \in 1 .. n
      BY <1>1, <2>1
    <3>2. \A j \in 1 .. n : events[j].id \in 1 .. MaxEvents
      BY <1>1 DEF Event
    <3> QED
      BY <3>1, <3>2
  <2>5. g[m] = Merge(g[m - 1], events[m]) /\ events[m] \in Event
    BY <1>1, <2>1
  <2>6. ~Sound(g[m], I(m))
    BY <1>3
  <2> HIDE DEF I
  <2>7. Sound(Merge(g[m - 1], events[m]), I(m - 1) \union {events[m].id})
    BY <2>2, <2>3, <2>4, <2>5, MergeIsSound
  <2> QED
    BY <2>3, <2>5, <2>6, <2>7
<1> QED
  BY <1>4, <1>5

LEMMA DrainedIsSound ==
    ASSUME NEW events \in Seq(Event),
           \A i, j \in 1 .. Len(events) : events[i].id = events[j].id => i = j
    PROVE  Sound(Coalesce(events), {events[i].id : i \in 1 .. Len(events)})
<1>1. PICK g \in [0 .. Len(events) -> Seq(Delta)] :
          /\ g[0] = <<>> /\ g[Len(events)] = Coalesce(events)
          /\ \A i \in 1 .. Len(events) : g[i] = Merge(g[i - 1], events[i])
  BY CoalesceInTurn
<1>2. Len(events) \in 0 .. Len(events)
  OBVIOUS
<1> QED
  BY <1>1, <1>2, CoalesceIsSound

-----------------------------------------------------------------------------
(* Outcomes on their way.  Each is in one place at most of the queue and   *)
(* of the batches of the two writers, and a statement that failed and may  *)
(* yet commit is of an attempt that is over: what makes the number of      *)
(* times an outcome counts a matter of one delta and its two attempts.     *)

Place(w) == 1 .. Len(batch[w])

Queue == {queue[i].id : i \in 1 .. Len(queue)}

(* A writer that is not writing has nothing to write, and one that has      *)
(* nothing to write has sent nothing.                                      *)
Idle ==
    /\ loop # "writing" => batch["loop"] = <<>>
    /\ closer # "writing" => batch["closer"] = <<>>
    /\ \A w \in Writer : batch[w] = <<>> => sent[w] = "no" /\ attempt[w] = 1

QueueApart ==
    /\ \A i, j \in 1 .. Len(queue) : queue[i].id = queue[j].id => i = j
    /\ \A e \in Queue : e <= reported

BatchApart ==
    \A w \in Writer : \A j \in Place(w) : \A e \in batch[w][j].ids :
        /\ e <= reported /\ e \notin Queue
        /\ \A v \in Writer : \A k \in Place(v) : e \in batch[v][k].ids => v = w /\ k = j

StrayApart ==
    \A s \in stray : \A e \in s[1].ids :
        /\ e <= reported /\ e \notin Queue
        /\ \A w \in Writer : \A j \in Place(w) : e \in batch[w][j].ids => j = 1 /\ s[2] < attempt[w]
        /\ \A t \in stray : t[2] = s[2] /\ e \in t[1].ids => t = s

Apart == QueueApart /\ BatchApart /\ StrayApart

(* The attempts at its first delta by which writer w may have counted it    *)
(* and the statement of attempt a that may yet count outcome e.            *)
Tried(w) == IF sent[w] = "committed" THEN attempt[w] ELSE attempt[w] - 1
Owed(e, a) == IF \E s \in stray : s[2] = a /\ e \in s[1].ids THEN 1 ELSE 0

(* What has not been tried has not been counted; what is being tried has    *)
(* been counted, or may yet be, by attempts that are over; and whatever     *)
(* becomes of it, there are two of them.                                   *)
Unspent == \A e \in 1 .. MaxEvents : e > reported \/ e \in Queue => hits[e] = 0

Tries ==
    \A w \in Writer : \A j \in Place(w) : \A e \in batch[w][j].ids :
        hits[e] + Owed(e, 1) <= IF j = 1 THEN Tried(w) ELSE 0

Twice == \A e \in 1 .. MaxEvents : hits[e] + Owed(e, 1) + Owed(e, 2) <= 2

HealthInv == TypeOK /\ Idle /\ Apart /\ Unspent /\ Tries /\ Twice

LEMMA OwedIs ==
    ASSUME NEW e, NEW a
    PROVE  Owed(e, a) = 0 \/ Owed(e, a) = 1
BY DEF Owed

(* Outcomes whose strays and counts are what they were owe what they did.  *)
LEMMA OwedSame ==
    ASSUME NEW e, NEW a,
           \A s \in stray : s[2] = a /\ e \in s[1].ids => s \in stray',
           \A s \in stray' : s[2] = a /\ e \in s[1].ids => s \in stray
    PROVE  Owed(e, a)' = Owed(e, a)
BY DEF Owed

(* Nothing that moves outcomes happens. *)
LEMMA NothingMoves ==
    ASSUME HealthInv, TypeOK',
           UNCHANGED <<reported, queue, batch, attempt, sent, stray, hits>>,
           loop' # "writing" => batch["loop"] = <<>>,
           closer' # "writing" => batch["closer"] = <<>>
    PROVE  HealthInv'
<1>1. Idle' /\ Apart' /\ Unspent' /\ Tries' /\ Twice'
  BY DEF HealthInv, Idle, Apart, QueueApart, BatchApart, StrayApart, Unspent, Tries, Twice,
         Place, Queue, Tried, Owed
<1> QED
  BY <1>1 DEF HealthInv

(* A request reports an outcome, which no one has heard of before. *)
LEMMA ReportStep ==
    ASSUME HealthInv, TypeOK', NEW x, reported' = reported + 1, x.id = reported + 1,
           x \in Event, queue' = Queued(x),
           UNCHANGED <<site, loop, closer, batch, attempt, sent, stray, hits>>
    PROVE  HealthInv'
<1>1. /\ queue \in Seq(Event) /\ reported \in Nat /\ site.buffer \in Nat \ {0}
      /\ site.events \in 0 .. MaxEvents /\ MaxEvents \in Nat /\ Len(queue) <= site.buffer
  BY HealthAssumption DEF HealthInv, TypeOK, Deployment
<1>2. \A i \in 1 .. Len(queue) : queue[i].id \in Nat /\ queue[i].id <= reported
  <2>1. \A i \in 1 .. Len(queue) : queue[i] \in Event /\ queue[i].id \in Queue
    BY <1>1 DEF Queue
  <2> QED
    BY <2>1 DEF HealthInv, Apart, QueueApart, Event
<1>3. \E c \in 0 .. 1 : \A i \in 1 .. Len(queue') :
          (i + c \in 1 .. Len(queue) /\ queue'[i] = queue[i + c])
          \/ (i = Len(queue') /\ queue'[i] = x)
  <2>1. CASE queue' = queue
    <3>1. \A i \in 1 .. Len(queue') : i + 0 \in 1 .. Len(queue) /\ queue'[i] = queue[i + 0]
      BY <1>1, <2>1
    <3> QED
      BY <3>1
  <2>2. CASE queue' = Append(queue, x)
    <3>1. \A i \in 1 .. Len(queue') :
              (i + 0 \in 1 .. Len(queue) /\ queue'[i] = queue[i + 0])
              \/ (i = Len(queue') /\ queue'[i] = x)
      BY <1>1, <2>2
    <3> QED
      BY <3>1
  <2>3. CASE Len(queue) = site.buffer /\ queue' = Append(Tail(queue), x)
    <3>1. /\ Tail(queue) \in Seq(Event) /\ Len(Tail(queue)) = Len(queue) - 1
          /\ \A i \in 1 .. Len(Tail(queue)) : Tail(queue)[i] = queue[i + 1]
      BY <1>1, <2>3
    <3>2. \A i \in 1 .. Len(queue') :
              (i + 1 \in 1 .. Len(queue) /\ queue'[i] = queue[i + 1])
              \/ (i = Len(queue') /\ queue'[i] = x)
      BY <1>1, <2>3, <3>1
    <3> QED
      BY <3>2
  <2> QED
    BY <2>1, <2>2, <2>3 DEF Queued
<1>4. PICK c \in 0 .. 1 : \A i \in 1 .. Len(queue') :
          (i + c \in 1 .. Len(queue) /\ queue'[i] = queue[i + c])
          \/ (i = Len(queue') /\ queue'[i] = x)
  BY <1>3
<1>5. Queue' \subseteq Queue \union {reported + 1}
  BY <1>4 DEF Queue
<1>6. QueueApart'
  <2>1. \A e \in Queue : e \in Nat /\ e <= reported
    BY <1>2 DEF Queue
  <2>2. \A e \in Queue' : e <= reported'
    BY <1>1, <1>5, <2>1
  <2>3. ASSUME NEW i \in 1 .. Len(queue'), NEW j \in 1 .. Len(queue'), queue'[i].id = queue'[j].id
        PROVE  i = j
    <3>1. CASE i + c \in 1 .. Len(queue) /\ queue'[i] = queue[i + c]
      <4>1. j + c \in 1 .. Len(queue) /\ queue'[j] = queue[j + c]
        BY <1>1, <1>2, <1>4, <2>3, <3>1
      <4>2. i + c = j + c
        BY <2>3, <3>1, <4>1 DEF HealthInv, Apart, QueueApart
      <4> QED
        BY <4>2
    <3>2. CASE i = Len(queue') /\ queue'[i] = x
      <4>1. ~(j + c \in 1 .. Len(queue) /\ queue'[j] = queue[j + c])
        BY <1>1, <1>2, <2>3, <3>2
      <4> QED
        BY <1>4, <3>2, <4>1
    <3> QED
      BY <1>4, <3>1, <3>2
  <2> QED
    BY <2>2, <2>3 DEF QueueApart
<1>7. BatchApart'
  <2>1. ASSUME NEW w \in Writer, NEW j \in Place(w), NEW e \in batch[w][j].ids
        PROVE  e \in Nat
    <3>1. batch[w] \in Seq(Delta) /\ batch[w][j] \in Delta
      BY DEF HealthInv, TypeOK, Place
    <3> QED
      BY <3>1 DEF Delta
  <2> QED
    BY <1>1, <1>5, <2>1 DEF HealthInv, Apart, BatchApart, Place
<1>8. StrayApart'
  <2>1. \A s \in stray : \A e \in s[1].ids : e \in Nat
    BY DEF HealthInv, TypeOK, Delta
  <2> QED
    BY <1>1, <1>5, <2>1 DEF HealthInv, Apart, StrayApart, Place
<1>9. Unspent'
  BY <1>1, <1>5 DEF HealthInv, Unspent
<1>10. Idle' /\ Tries' /\ Twice'
  BY DEF HealthInv, Idle, Tries, Twice, Place, Tried, Owed
<1> QED
  BY <1>6, <1>7, <1>8, <1>9, <1>10 DEF HealthInv, Apart

(* A delta in a batch is one, and its outcomes are numbers. *)
LEMMA DeltaOfBatch ==
    ASSUME TypeOK, NEW w \in Writer, NEW j \in Place(w)
    PROVE  /\ batch[w] \in Seq(Delta) /\ batch[w][j] \in Delta
           /\ batch[w][j].ids \subseteq 1 .. MaxEvents
<1>1. batch[w] \in Seq(Delta) /\ batch[w][j] \in Delta
  BY DEF TypeOK, Place
<1> QED
  BY <1>1 DEF Delta

(* A writer takes the whole queue.  It has nothing of its own, and what is  *)
(* in the queue nobody else has.                                           *)
LEMMA DrainStep ==
    ASSUME HealthInv, TypeOK', NEW w \in Writer, Drain(w), batch[w] = <<>>,
           UNCHANGED <<site, reported, stray, hits>>,
           w = "loop" => loop' = "writing" /\ closer' = closer,
           w = "closer" => closer' = "writing" /\ loop' = loop
    PROVE  HealthInv'
<1> DEFINE d == Coalesce(queue)
<1>1. /\ Len(queue) \in Nat /\ queue \in Seq(Event)
      /\ batch \in [Writer -> Seq(Delta)] /\ attempt \in [Writer -> {1, 2}]
      /\ reported \in Nat /\ hits \in [1 .. MaxEvents -> Nat] /\ stray \in SUBSET (Delta \X {1, 2})
  BY DEF HealthInv, TypeOK
<1>2. /\ \A j \in 1 .. Len(d) : d[j].ids \subseteq Queue
      /\ \A j, k \in 1 .. Len(d) : d[j].ids \intersect d[k].ids # {} => j = k
  <2>1. \A i, j \in 1 .. Len(queue) : queue[i].id = queue[j].id => i = j
    BY DEF HealthInv, Apart, QueueApart
  <2> QED
    BY <1>1, <2>1, DrainedIsSound DEF Sound, Queue
<1> HIDE DEF d
<1>3. /\ batch' = [batch EXCEPT ![w] = d] /\ queue' = <<>> /\ UNCHANGED <<attempt, sent>>
      /\ batch'[w] = d /\ \A v \in Writer : v # w => batch'[v] = batch[v]
  BY <1>1 DEF Drain, d
<1>4. Queue' = {} /\ Len(queue') = 0
  BY <1>3 DEF Queue
<1>5. /\ sent[w] = "no" /\ attempt[w] = 1
      /\ \A e \in Queue : e <= reported /\ e \in 1 .. MaxEvents /\ hits[e] = 0
  <2>1. ASSUME NEW i \in 1 .. Len(queue) PROVE queue[i].id \in 1 .. MaxEvents
    <3>1. queue[i] \in Event
      BY <1>1
    <3> QED
      BY <3>1 DEF Event
  <2> QED
    BY <2>1 DEF HealthInv, Idle, Apart, QueueApart, Unspent, Queue
<1>6. Idle'
  BY <1>3, <1>5 DEF HealthInv, Idle, Writer
<1>7. QueueApart'
  BY <1>4 DEF QueueApart
<1>8. BatchApart'
  <2>1. ASSUME NEW v \in Writer, NEW j \in 1 .. Len(batch'[v]), NEW e \in batch'[v][j].ids
        PROVE  /\ e <= reported
               /\ \A u \in Writer : \A k \in 1 .. Len(batch'[u]) :
                     e \in batch'[u][k].ids => u = v /\ k = j
    <3>1. CASE v = w
      <4>1. e \in Queue
        BY <1>2, <1>3, <2>1, <3>1
      <4>2. \A u \in Writer : \A k \in Place(u) : e \notin batch[u][k].ids
        BY <4>1 DEF HealthInv, Apart, BatchApart
      <4> QED
        BY <1>2, <1>3, <1>5, <2>1, <3>1, <4>1, <4>2 DEF Place
    <3>2. CASE v # w
      <4>1. /\ e <= reported /\ e \notin Queue
            /\ \A u \in Writer : \A k \in Place(u) : e \in batch[u][k].ids => u = v /\ k = j
        BY <1>3, <2>1, <3>2 DEF HealthInv, Apart, BatchApart, Place
      <4> QED
        BY <1>2, <1>3, <3>2, <4>1 DEF Place
    <3> QED
      BY <3>1, <3>2
  <2> QED
    BY <1>4, <2>1 DEF BatchApart, Place
<1>9. StrayApart'
  <2>1. ASSUME NEW s \in stray, NEW e \in s[1].ids, NEW v \in Writer,
               NEW j \in 1 .. Len(batch'[v]), e \in batch'[v][j].ids
        PROVE  j = 1 /\ s[2] < attempt[v]
    <3>1. e \notin Queue
      BY DEF HealthInv, Apart, StrayApart
    <3>2. v # w
      BY <1>2, <1>3, <2>1, <3>1
    <3> QED
      BY <1>3, <2>1, <3>2 DEF HealthInv, Apart, StrayApart, Place
  <2> QED
    BY <1>3, <1>4, <2>1 DEF HealthInv, Apart, StrayApart, Place
<1>10. \A e, a : Owed(e, a)' = Owed(e, a)
  BY DEF Owed
<1>11. Unspent'
  BY <1>4 DEF HealthInv, Unspent
<1>12. Tries'
  <2>1. ASSUME NEW v \in Writer, NEW j \in 1 .. Len(batch'[v]), NEW e \in batch'[v][j].ids
        PROVE  hits[e] + Owed(e, 1) <= IF j = 1 THEN Tried(v)' ELSE 0
    <3>1. CASE v = w
      <4>1. e \in Queue
        BY <1>2, <1>3, <2>1, <3>1
      <4>2. Owed(e, 1) = 0
        BY <4>1 DEF Owed, HealthInv, Apart, StrayApart
      <4>3. Tried(v)' = 0
        BY <1>3, <1>5, <3>1 DEF Tried
      <4> QED
        BY <1>5, <4>1, <4>2, <4>3
    <3>2. CASE v # w
      <4>1. Tried(v)' = Tried(v)
        BY <1>3 DEF Tried
      <4> QED
        BY <1>3, <2>1, <3>2, <4>1 DEF HealthInv, Tries, Place
    <3> QED
      BY <3>1, <3>2
  <2> QED
    BY <1>10, <2>1 DEF Tries, Place
<1>13. Twice'
  BY <1>10 DEF HealthInv, Twice
<1> QED
  BY <1>6, <1>7, <1>8, <1>9, <1>11, <1>12, <1>13 DEF HealthInv, Apart

(* A statement is sent. *)
LEMMA SendStep ==
    ASSUME HealthInv, TypeOK', NEW w \in Writer, Send(w)
    PROVE  HealthInv'
<1>1. /\ sent \in [Writer -> {"no", "sent", "committed"}]
      /\ batch[w] # <<>> /\ sent[w] = "no" /\ sent' = [sent EXCEPT ![w] = "sent"]
      /\ UNCHANGED <<reported, queue, closer, loop, batch, attempt, stray, hits>>
  BY DEF HealthInv, TypeOK, Send, Writing, gatewayVars, closeVars
<1>2. \A v \in Writer : Tried(v)' = Tried(v) /\ (batch[v] = <<>> => sent'[v] = sent[v])
  BY <1>1 DEF Tried
<1>3. Idle'
  BY <1>1, <1>2 DEF HealthInv, Idle
<1>4. Apart' /\ Unspent'
  BY <1>1 DEF HealthInv, Apart, QueueApart, BatchApart, StrayApart, Unspent, Place, Queue
<1>5. \A e, a : Owed(e, a)' = Owed(e, a)
  BY <1>1 DEF Owed
<1>6. Tries' /\ Twice'
  BY <1>1, <1>2, <1>5 DEF HealthInv, Tries, Twice, Place
<1> QED
  BY <1>3, <1>4, <1>6 DEF HealthInv

(* A statement commits: its outcomes have not been counted by more than     *)
(* the attempt before it.                                                  *)
LEMMA CommitStep ==
    ASSUME HealthInv, TypeOK', NEW w \in Writer, Commit(w)
    PROVE  HealthInv'
<1> DEFINE I == batch[w][1].ids
<1>1. /\ sent \in [Writer -> {"no", "sent", "committed"}] /\ attempt \in [Writer -> {1, 2}]
      /\ batch \in [Writer -> Seq(Delta)] /\ hits \in [1 .. MaxEvents -> Nat]
      /\ sent[w] = "sent" /\ sent' = [sent EXCEPT ![w] = "committed"]
      /\ UNCHANGED <<reported, queue, closer, loop, batch, attempt, stray>>
  BY DEF HealthInv, TypeOK, Commit, gatewayVars, closeVars
<1>2. batch[w] # <<>> /\ 1 \in Place(w) /\ Head(batch[w]) = batch[w][1]
  <2>1. batch[w] # <<>>
    BY <1>1 DEF HealthInv, Idle
  <2> QED
    BY <1>1, <2>1 DEF Place
<1>3. hits' = [e \in 1 .. MaxEvents |-> IF e \in I THEN hits[e] + 1 ELSE hits[e]]
  BY <1>2 DEF Commit, Apply
<1>4. \A e, a : Owed(e, a)' = Owed(e, a)
  BY <1>1 DEF Owed
<1>5. \A v \in Writer : Tried(v)' = IF v = w THEN Tried(v) + 1 ELSE Tried(v)
  BY <1>1 DEF Tried
<1>6. Tried(w) = attempt[w] - 1 /\ \A e : Owed(e, 1) \in {0, 1} /\ Owed(e, 2) \in {0, 1}
  BY <1>1 DEF Tried, Owed
<1>7. Idle' /\ Apart'
  BY <1>1, <1>2 DEF HealthInv, Idle, Apart, QueueApart, BatchApart, StrayApart, Place, Queue
<1>8. \A e \in I : e \in 1 .. MaxEvents /\ e <= reported /\ e \notin Queue
  BY <1>2, DeltaOfBatch DEF HealthInv, Apart, BatchApart
<1>9. Unspent'
  <2>1. reported \in Nat
    BY DEF HealthInv, TypeOK
  <2> QED
    BY <1>1, <1>3, <1>8, <2>1 DEF HealthInv, Unspent, Queue
<1>10. Tries'
  <2>1. ASSUME NEW v \in Writer, NEW j \in Place(v), NEW e \in batch[v][j].ids
        PROVE  hits'[e] + Owed(e, 1) <= IF j = 1 THEN Tried(v)' ELSE 0
    <3>1. e \in 1 .. MaxEvents /\ hits[e] \in Nat
      BY <1>1, DeltaOfBatch DEF HealthInv
    <3>2. hits[e] + Owed(e, 1) <= IF j = 1 THEN Tried(v) ELSE 0
      BY DEF HealthInv, Tries
    <3>3. CASE v = w /\ j = 1
      <4>1. e \in I /\ Tried(v)' = attempt[w] - 1 + 1 /\ attempt[w] \in {1, 2}
        BY <1>1, <1>5, <1>6, <3>3
      <4>2. hits'[e] = hits[e] + 1
        BY <1>3, <3>1, <4>1
      <4>3. hits[e] + Owed(e, 1) <= attempt[w] - 1 /\ Owed(e, 1) \in {0, 1}
        BY <1>6, <3>2, <3>3
      <4> QED
        BY <3>1, <3>3, <4>1, <4>2, <4>3
    <3>4. CASE ~(v = w /\ j = 1)
      <4>1. e \notin I
        BY <1>2, <3>4 DEF HealthInv, Apart, BatchApart
      <4>2. j = 1 => Tried(v)' = Tried(v)
        BY <1>5, <3>4
      <4> QED
        BY <1>3, <3>1, <3>2, <4>1, <4>2
    <3> QED
      BY <3>3, <3>4
  <2> QED
    BY <1>1, <1>4, <2>1 DEF Tries, Place
<1>11. Twice'
  <2>1. ASSUME NEW e \in 1 .. MaxEvents PROVE hits'[e] + Owed(e, 1) + Owed(e, 2) <= 2
    <3>1. hits[e] \in Nat /\ hits[e] + Owed(e, 1) + Owed(e, 2) <= 2
      BY <1>1 DEF HealthInv, Twice
    <3>2. CASE e \in I
      <4>1. hits[e] + Owed(e, 1) <= attempt[w] - 1
        BY <1>2, <1>6, <3>2 DEF HealthInv, Tries
      <4>2. Owed(e, 2) = 0
        <5>1. \A s \in stray : e \in s[1].ids => s[2] < attempt[w]
          BY <1>2, <3>2 DEF HealthInv, Apart, StrayApart
        <5>2. \A s \in stray : e \in s[1].ids => s[2] # 2
          <6>1. attempt[w] \in {1, 2} /\ ~(2 < attempt[w])
            BY <1>1
          <6> QED
            BY <5>1, <6>1
        <5> QED
          BY <5>2 DEF Owed
      <4> QED
        BY <1>1, <1>3, <1>6, <3>1, <3>2, <4>1, <4>2
    <3>3. CASE e \notin I
      BY <1>3, <3>1, <3>3
    <3> QED
      BY <3>2, <3>3
  <2> QED
    BY <1>4, <2>1 DEF Twice
<1> QED
  BY <1>7, <1>9, <1>10, <1>11 DEF HealthInv

(* A statement that failed commits after all. *)
LEMMA CommitStrayStep ==
    ASSUME HealthInv, TypeOK', CommitStray
    PROVE  HealthInv'
<1>1. PICK s \in stray :
          /\ hits' = [e \in 1 .. MaxEvents |-> IF e \in s[1].ids THEN hits[e] + 1 ELSE hits[e]]
          /\ stray' = stray \ {s}
          /\ UNCHANGED <<reported, queue, closer, loop, batch, attempt, sent>>
  BY DEF CommitStray, Apply, gatewayVars, closeVars, writeVars
<1>2. /\ hits \in [1 .. MaxEvents -> Nat] /\ s[2] \in {1, 2} /\ s[1].ids \subseteq 1 .. MaxEvents
      /\ reported \in Nat
  BY DEF HealthInv, TypeOK, Delta
<1>3. \A e \in s[1].ids : Owed(e, s[2]) = 1 /\ Owed(e, s[2])' = 0
  <2>1. ASSUME NEW e \in s[1].ids
        PROVE  Owed(e, s[2]) = 1 /\ ~ \E t \in stray' : t[2] = s[2] /\ e \in t[1].ids
    BY <1>1 DEF HealthInv, Apart, StrayApart, Owed
  <2> QED
    BY <2>1 DEF Owed
<1>4. \A e, a : e \notin s[1].ids \/ a # s[2] => Owed(e, a)' = Owed(e, a)
  BY <1>1 DEF Owed
<1>5. \A e : /\ Owed(e, 1) \in {0, 1} /\ Owed(e, 2) \in {0, 1}
             /\ Owed(e, 1)' \in {0, 1} /\ Owed(e, 2)' \in {0, 1}
  BY DEF Owed
<1>6. ASSUME NEW e \in 1 .. MaxEvents
      PROVE  /\ hits[e] \in Nat
             /\ hits'[e] + Owed(e, 1)' + Owed(e, 2)' = hits[e] + Owed(e, 1) + Owed(e, 2)
             /\ hits'[e] + Owed(e, 1)' <= hits[e] + Owed(e, 1) \/ (e \in s[1].ids /\ s[2] = 2)
  <2>1. hits[e] \in Nat /\ hits'[e] = IF e \in s[1].ids THEN hits[e] + 1 ELSE hits[e]
    BY <1>1, <1>2
  <2>2. CASE e \notin s[1].ids
    BY <1>4, <1>5, <2>1, <2>2
  <2>3. CASE e \in s[1].ids /\ s[2] = 1
    BY <1>3, <1>4, <1>5, <2>1, <2>3
  <2>4. CASE e \in s[1].ids /\ s[2] = 2
    BY <1>3, <1>4, <1>5, <2>1, <2>4
  <2> QED
    BY <1>2, <2>2, <2>3, <2>4
<1>7. Idle' /\ Apart'
  BY <1>1 DEF HealthInv, Idle, Apart, QueueApart, BatchApart, StrayApart, Place, Queue
<1>8. Unspent'
  <2>1. \A e \in s[1].ids : e <= reported /\ e \notin Queue
    BY DEF HealthInv, Apart, StrayApart
  <2> QED
    BY <1>1, <1>2, <2>1 DEF HealthInv, Unspent, Queue
<1>9. Tries'
  <2>1. ASSUME NEW w \in Writer, NEW j \in Place(w), NEW e \in batch[w][j].ids
        PROVE  hits'[e] + Owed(e, 1)' <= IF j = 1 THEN Tried(w) ELSE 0
    <3>1. e \in 1 .. MaxEvents
      BY DeltaOfBatch DEF HealthInv
    <3>2. ~(e \in s[1].ids /\ s[2] = 2)
      <4>1. e \in s[1].ids => s[2] < attempt[w]
        BY DEF HealthInv, Apart, StrayApart
      <4>2. attempt[w] \in {1, 2}
        BY DEF HealthInv, TypeOK
      <4> QED
        BY <4>1, <4>2
    <3>3. hits[e] + Owed(e, 1) <= IF j = 1 THEN Tried(w) ELSE 0
      BY DEF HealthInv, Tries
    <3>4. Tried(w) \in Int /\ hits'[e] \in Nat
      <4>1. attempt[w] \in {1, 2} /\ hits[e] \in Nat
        BY <3>1 DEF HealthInv, TypeOK
      <4>2. hits'[e] \in Nat
        BY <1>1, <3>1, <4>1
      <4> QED
        BY <4>1, <4>2 DEF Tried
    <3> QED
      BY <1>5, <1>6, <3>1, <3>2, <3>3, <3>4
  <2>2. \A w \in Writer : Tried(w)' = Tried(w)
    BY <1>1 DEF Tried
  <2> QED
    BY <1>1, <2>1, <2>2 DEF Tries, Place
<1>10. Twice'
  BY <1>6 DEF HealthInv, Twice
<1> QED
  BY <1>7, <1>8, <1>9, <1>10 DEF HealthInv

(* A writer gives its first delta up or is through with it.  Whatever the   *)
(* store may yet do about that delta, no writer has it any more.           *)
LEMMA AdvanceStep ==
    ASSUME HealthInv, TypeOK', NEW w \in Writer, batch[w] # <<>>, Advance(w),
           \/ stray' = stray
           \/ sent[w] = "sent" /\ stray' = stray \union {<<Head(batch[w]), attempt[w]>>},
           UNCHANGED <<reported, queue, closer, loop, hits>>
    PROVE  HealthInv'
<1> DEFINE I == batch[w][1].ids
<1>1. /\ sent \in [Writer -> {"no", "sent", "committed"}] /\ attempt \in [Writer -> {1, 2}]
      /\ batch \in [Writer -> Seq(Delta)] /\ hits \in [1 .. MaxEvents -> Nat]
      /\ stray \in SUBSET (Delta \X {1, 2})
  BY DEF HealthInv, TypeOK
<1>2. /\ 1 \in Place(w) /\ Head(batch[w]) = batch[w][1] /\ Tail(batch[w]) \in Seq(Delta)
      /\ Len(Tail(batch[w])) = Len(batch[w]) - 1
      /\ \A j \in 1 .. Len(Tail(batch[w])) :
            Tail(batch[w])[j] = batch[w][j + 1] /\ j + 1 \in Place(w) /\ j + 1 # 1
  BY <1>1 DEF Place
<1>3. /\ batch'[w] = Tail(batch[w]) /\ attempt'[w] = 1 /\ sent'[w] = "no"
      /\ \A v \in Writer : v # w => /\ batch'[v] = batch[v] /\ attempt'[v] = attempt[v]
                                    /\ sent'[v] = sent[v]
  BY <1>1 DEF Advance
<1>4. \A v \in Writer : \A j \in 1 .. Len(batch'[v]) :
          \E k \in Place(v) : /\ batch'[v][j] = batch[v][k]
                              /\ IF v = w THEN k = j + 1 ELSE k = j
  BY <1>2, <1>3 DEF Place
<1>5. ASSUME NEW v \in Writer, NEW j \in 1 .. Len(batch'[v]), NEW e \in batch'[v][j].ids
      PROVE  /\ e \notin I /\ e \in 1 .. MaxEvents
             /\ Owed(e, 1)' = Owed(e, 1)
  <2>1. PICK k \in Place(v) : batch'[v][j] = batch[v][k] /\ IF v = w THEN k = j + 1 ELSE k = j
    BY <1>4
  <2>2. ~(v = w /\ k = 1)
    BY <1>2, <1>3, <2>1
  <2>3. e \notin I /\ e \in 1 .. MaxEvents
    BY <1>2, <1>5, <2>1, <2>2, DeltaOfBatch DEF HealthInv, Apart, BatchApart
  <2>4. \A s \in stray' : e \in s[1].ids => s \in stray
    BY <1>2, <2>3
  <2>5. stray \subseteq stray'
    OBVIOUS
  <2> QED
    BY <2>3, <2>4, <2>5, OwedSame
<1>6. Idle'
  BY <1>1, <1>3 DEF HealthInv, Idle, Writer
<1>7. QueueApart' /\ Unspent'
  BY DEF HealthInv, Apart, QueueApart, Unspent, Queue
<1>8. BatchApart'
  <2>1. ASSUME NEW v \in Writer, NEW j \in 1 .. Len(batch'[v]), NEW e \in batch'[v][j].ids
        PROVE  /\ e <= reported /\ e \notin Queue
               /\ \A u \in Writer : \A k \in 1 .. Len(batch'[u]) :
                     e \in batch'[u][k].ids => u = v /\ k = j
    <3>1. PICK m \in Place(v) : batch'[v][j] = batch[v][m] /\ IF v = w THEN m = j + 1 ELSE m = j
      BY <1>4
    <3>2. e \in batch[v][m].ids
      BY <2>1, <3>1
    <3>3. /\ e <= reported /\ e \notin Queue
          /\ \A u \in Writer : \A k \in Place(u) : e \in batch[u][k].ids => u = v /\ k = m
      BY <3>2 DEF HealthInv, Apart, BatchApart
    <3>4. ASSUME NEW u \in Writer, NEW k \in 1 .. Len(batch'[u]), e \in batch'[u][k].ids
          PROVE  u = v /\ k = j
      <4>1. PICK n \in Place(u) :
                batch'[u][k] = batch[u][n] /\ IF u = w THEN n = k + 1 ELSE n = k
        BY <1>4
      <4>2. u = v /\ n = m
        BY <3>3, <3>4, <4>1
      <4>3. k \in Int /\ j \in Int
        OBVIOUS
      <4> QED
        BY <3>1, <4>1, <4>2, <4>3
    <3> QED
      BY <3>3, <3>4
  <2> QED
    BY <2>1 DEF BatchApart, Place, Queue
<1>9. StrayApart'
  <2>1. ASSUME NEW s \in stray', NEW e \in s[1].ids
        PROVE  /\ e <= reported /\ e \notin Queue
               /\ \A v \in Writer : \A j \in 1 .. Len(batch'[v]) :
                     e \in batch'[v][j].ids => j = 1 /\ s[2] < attempt'[v]
               /\ \A t \in stray' : t[2] = s[2] /\ e \in t[1].ids => t = s
    <3>1. CASE s \in stray
      <4>1. /\ e <= reported /\ e \notin Queue
            /\ \A v \in Writer : \A j \in Place(v) :
                  e \in batch[v][j].ids => j = 1 /\ s[2] < attempt[v]
            /\ \A t \in stray : t[2] = s[2] /\ e \in t[1].ids => t = s
        BY <2>1, <3>1 DEF HealthInv, Apart, StrayApart
      <4>2. \A v \in Writer : \A j \in 1 .. Len(batch'[v]) :
               e \in batch'[v][j].ids => j = 1 /\ s[2] < attempt'[v]
        <5> SUFFICES ASSUME NEW v \in Writer, NEW j \in 1 .. Len(batch'[v]),
                            e \in batch'[v][j].ids
                     PROVE  j = 1 /\ s[2] < attempt'[v]
          OBVIOUS
        <5>1. PICK k \in Place(v) : /\ batch'[v][j] = batch[v][k]
                                    /\ IF v = w THEN k = j + 1 ELSE k = j
          BY <1>4
        <5>2. k = 1 /\ s[2] < attempt[v]
          BY <4>1, <5>1
        <5>3. v # w /\ k = j
          BY <5>1, <5>2
        <5> QED
          BY <1>3, <5>2, <5>3
      <4>3. ASSUME NEW t \in stray', t[2] = s[2], e \in t[1].ids PROVE t = s
        <5>1. ASSUME t = <<Head(batch[w]), attempt[w]>> PROVE FALSE
          <6>1. e \in I /\ s[2] = attempt[w]
            BY <1>2, <4>3, <5>1
          <6>2. s[2] < attempt[w]
            BY <1>2, <4>1, <6>1
          <6> DEFINE a == attempt[w]
          <6>3. a \in {1, 2} /\ a < a
            <7> HIDE DEF I
            <7>1. attempt[w] \in {1, 2}
              BY <1>1
            <7> QED
              BY <6>1, <6>2, <7>1
          <6> HIDE DEF a
          <6> QED
            BY <6>3
        <5> QED
          BY <4>1, <4>3, <5>1
      <4> QED
        BY <4>1, <4>2, <4>3
    <3>2. CASE s = <<Head(batch[w]), attempt[w]>> /\ s \notin stray
      <4>1. e \in I
        BY <1>2, <2>1, <3>2
      <4>2. e <= reported /\ e \notin Queue
        BY <1>2, <4>1 DEF HealthInv, Apart, BatchApart
      <4>3. ASSUME NEW t \in stray', t[2] = s[2], e \in t[1].ids PROVE t = s
        <5>1. ASSUME t \in stray PROVE FALSE
          <6>1. t[2] < attempt[w]
            BY <1>2, <4>1, <4>3, <5>1 DEF HealthInv, Apart, StrayApart
          <6> QED
            BY <1>1, <3>2, <4>3, <6>1
        <5> QED
          BY <3>2, <5>1
      <4> QED
        BY <1>5, <4>1, <4>2, <4>3
    <3> QED
      BY <2>1, <3>1, <3>2
  <2> QED
    BY <2>1 DEF StrayApart, Place, Queue
<1>10. Tries'
  <2>1. ASSUME NEW v \in Writer, NEW j \in 1 .. Len(batch'[v]), NEW e \in batch'[v][j].ids
        PROVE  hits[e] + Owed(e, 1)' <= IF j = 1 THEN Tried(v)' ELSE 0
    <3>1. PICK k \in Place(v) : batch'[v][j] = batch[v][k] /\ IF v = w THEN k = j + 1 ELSE k = j
      BY <1>4
    <3>2. hits[e] + Owed(e, 1) <= IF k = 1 THEN Tried(v) ELSE 0
      BY <2>1, <3>1 DEF HealthInv, Tries
    <3>3. Owed(e, 1)' = Owed(e, 1)
      BY <1>5
    <3>4. v # w => Tried(v)' = Tried(v)
      BY <1>3 DEF Tried
    <3>5. v = w => Tried(v)' = 0
      BY <1>3 DEF Tried
    <3>6. v = w => k # 1
      BY <3>1
    <3> QED
      BY <3>1, <3>2, <3>3, <3>4, <3>5, <3>6
  <2> QED
    BY <2>1 DEF Tries, Place
<1>11. Twice'
  <2>1. ASSUME NEW e \in 1 .. MaxEvents PROVE hits[e] + Owed(e, 1)' + Owed(e, 2)' <= 2
    <3>1. /\ hits[e] \in Nat /\ hits[e] + Owed(e, 1) + Owed(e, 2) <= 2
          /\ Owed(e, 1) \in {0, 1} /\ Owed(e, 2) \in {0, 1} /\ attempt[w] \in {1, 2}
      BY <1>1 DEF HealthInv, Twice, Owed
    <3>2. CASE e \in I /\ sent[w] = "sent"
      <4>1. hits[e] + Owed(e, 1) <= attempt[w] - 1
        BY <1>2, <3>2 DEF HealthInv, Tries, Tried
      <4>2. \A s \in stray : e \in s[1].ids => s[2] < attempt[w]
        BY <1>2, <3>2 DEF HealthInv, Apart, StrayApart
      <4>3. Owed(e, 1)' \in {0, 1} /\ Owed(e, 2)' \in {0, 1}
        BY DEF Owed
      <4>4. CASE attempt[w] = 1
        <5>1. \A s \in stray' : e \in s[1].ids => s[2] = 1
          BY <1>1, <4>2, <4>4
        <5>2. Owed(e, 2)' = 0
          BY <5>1 DEF Owed
        <5> QED
          BY <3>1, <4>1, <4>3, <4>4, <5>2
      <4>5. CASE attempt[w] = 2
        <5>1. \A s \in stray' : s[2] = 1 => s \in stray
          BY <4>5
        <5>2. Owed(e, 1)' = Owed(e, 1)
          BY <5>1, OwedSame
        <5> QED
          BY <3>1, <4>1, <4>3, <4>5, <5>2
      <4> QED
        BY <3>1, <4>4, <4>5
    <3>3. CASE ~(e \in I /\ sent[w] = "sent")
      <4>1. \A s \in stray' : e \in s[1].ids => s \in stray
        BY <1>2, <3>3
      <4>2. stray \subseteq stray'
        OBVIOUS
      <4>3. Owed(e, 1)' = Owed(e, 1) /\ Owed(e, 2)' = Owed(e, 2)
        BY <4>1, <4>2, OwedSame
      <4> QED
        BY <3>1, <4>3
    <3> QED
      BY <3>2, <3>3
  <2> QED
    BY <2>1 DEF Twice
<1> QED
  BY <1>6, <1>7, <1>8, <1>9, <1>10, <1>11 DEF HealthInv, Apart

(* A writer tries its first delta again: the first attempt has counted it,  *)
(* or may yet do so.                                                       *)
LEMMA RetryStep ==
    ASSUME HealthInv, TypeOK', NEW w \in Writer, batch[w] # <<>>, Retry(w),
           \/ stray' = stray
           \/ sent[w] = "sent" /\ stray' = stray \union {<<Head(batch[w]), attempt[w]>>},
           UNCHANGED <<reported, queue, closer, loop, hits>>
    PROVE  HealthInv'
<1> DEFINE I == batch[w][1].ids
<1>1. /\ sent \in [Writer -> {"no", "sent", "committed"}] /\ attempt \in [Writer -> {1, 2}]
      /\ batch \in [Writer -> Seq(Delta)] /\ hits \in [1 .. MaxEvents -> Nat]
      /\ stray \in SUBSET (Delta \X {1, 2})
  BY DEF HealthInv, TypeOK
<1>2. 1 \in Place(w) /\ Head(batch[w]) = batch[w][1]
  BY <1>1 DEF Place
<1>3. /\ batch' = batch /\ attempt[w] = 1 /\ attempt'[w] = 2 /\ sent'[w] = "no"
      /\ \A v \in Writer : v # w => attempt'[v] = attempt[v] /\ sent'[v] = sent[v]
  BY <1>1 DEF Retry
<1>4. \A s \in stray : \A e \in I : e \notin s[1].ids
  <2>1. ASSUME NEW s \in stray, NEW e \in I, e \in s[1].ids PROVE FALSE
    <3>1. s[2] < attempt[w]
      BY <1>2, <2>1 DEF HealthInv, Apart, StrayApart
    <3>2. s[2] \in {1, 2}
      BY <1>1
    <3> QED
      BY <1>3, <3>1, <3>2
  <2> QED
    BY <2>1
<1>5. \A s \in stray' : s \in stray \/ (s[1].ids = I /\ s[2] = 1 /\ sent[w] = "sent")
  BY <1>2, <1>3
<1>6. stray \subseteq stray'
  OBVIOUS
<1>7. \A e, a : e \notin I \/ sent[w] # "sent" => Owed(e, a)' = Owed(e, a)
  BY <1>5, <1>6, OwedSame
<1>8. \A e \in I : Owed(e, 1) = 0 /\ Owed(e, 2) = 0 /\ Owed(e, 2)' = 0 /\ Owed(e, 1)' \in {0, 1}
  <2>1. ASSUME NEW e \in I PROVE \A s \in stray' : e \in s[1].ids => s[2] # 2
    BY <1>4, <1>5
  <2> QED
    BY <1>4, <2>1 DEF Owed
<1>9. Idle'
  BY <1>1, <1>3 DEF HealthInv, Idle
<1>10. QueueApart' /\ BatchApart' /\ Unspent'
  BY <1>3 DEF HealthInv, Apart, QueueApart, BatchApart, Unspent, Queue, Place
<1>11. StrayApart'
  <2>1. ASSUME NEW s \in stray', NEW e \in s[1].ids
        PROVE  /\ e <= reported /\ e \notin Queue
               /\ \A v \in Writer : \A j \in Place(v) :
                     e \in batch[v][j].ids => j = 1 /\ s[2] < attempt'[v]
               /\ \A t \in stray' : t[2] = s[2] /\ e \in t[1].ids => t = s
    <3>1. CASE s \in stray
      <4>1. /\ e <= reported /\ e \notin Queue
            /\ \A v \in Writer : \A j \in Place(v) :
                  e \in batch[v][j].ids => j = 1 /\ s[2] < attempt[v]
            /\ \A t \in stray : t[2] = s[2] /\ e \in t[1].ids => t = s
        BY <2>1, <3>1 DEF HealthInv, Apart, StrayApart
      <4>2. e \notin I
        BY <1>4, <2>1, <3>1
      <4>3. \A t \in stray' : e \in t[1].ids => t \in stray
        BY <1>5, <4>2
      <4>4. \A v \in Writer : s[2] < attempt[v] => s[2] < attempt'[v]
        <5>1. s[2] \in {1, 2}
          BY <1>1, <3>1
        <5>2. s[2] < attempt'[w] \/ ~(s[2] < attempt[w])
          BY <1>3, <5>1
        <5> QED
          BY <1>3, <5>2
      <4> QED
        BY <4>1, <4>3, <4>4
    <3>2. CASE s \notin stray
      <4>1. s = <<Head(batch[w]), attempt[w]>> /\ s[2] = 1 /\ e \in I
        BY <1>2, <1>3, <2>1, <3>2
      <4>2. /\ e <= reported /\ e \notin Queue
            /\ \A v \in Writer : \A j \in Place(v) : e \in batch[v][j].ids => v = w /\ j = 1
        BY <1>2, <4>1 DEF HealthInv, Apart, BatchApart
      <4>3. \A t \in stray' : e \in t[1].ids => t = s
        BY <1>4, <3>2, <4>1
      <4> QED
        BY <1>3, <4>1, <4>2, <4>3
    <3> QED
      BY <3>1, <3>2
  <2> QED
    BY <1>3, <2>1 DEF StrayApart, Place, Queue
<1>12. Tries'
  <2>1. ASSUME NEW v \in Writer, NEW j \in Place(v), NEW e \in batch[v][j].ids
        PROVE  hits[e] + Owed(e, 1)' <= IF j = 1 THEN Tried(v)' ELSE 0
    <3>1. hits[e] + Owed(e, 1) <= IF j = 1 THEN Tried(v) ELSE 0
      BY DEF HealthInv, Tries
    <3>2. e \in 1 .. MaxEvents /\ hits[e] \in Nat
      BY <1>1, DeltaOfBatch DEF HealthInv
    <3>3. CASE v = w /\ j = 1
      <4>1. e \in I /\ Tried(v)' = 1
        BY <1>3, <3>3 DEF Tried
      <4>2. Tried(v) \in {0, 1} /\ (sent[w] = "sent" => Tried(v) = 0)
        BY <1>1, <1>3, <3>3 DEF Tried
      <4>3. Owed(e, 1) = 0 /\ Owed(e, 1)' \in {0, 1} /\ (sent[w] # "sent" => Owed(e, 1)' = 0)
        BY <1>7, <1>8, <4>1
      <4> QED
        BY <3>1, <3>2, <3>3, <4>1, <4>2, <4>3
    <3>4. CASE ~(v = w /\ j = 1)
      <4>1. e \notin I
        BY <1>2, <3>4 DEF HealthInv, Apart, BatchApart
      <4>2. Owed(e, 1)' = Owed(e, 1)
        BY <1>7, <4>1
      <4>3. j = 1 => Tried(v)' = Tried(v)
        BY <1>3, <3>4 DEF Tried
      <4> QED
        BY <3>1, <4>2, <4>3
    <3> QED
      BY <3>3, <3>4
  <2> QED
    BY <1>3, <2>1 DEF Tries, Place
<1>13. Twice'
  <2>1. ASSUME NEW e \in 1 .. MaxEvents PROVE hits[e] + Owed(e, 1)' + Owed(e, 2)' <= 2
    <3>1. hits[e] \in Nat /\ hits[e] + Owed(e, 1) + Owed(e, 2) <= 2
      BY <1>1 DEF HealthInv, Twice
    <3>2. CASE e \in I /\ sent[w] = "sent"
      <4>1. hits[e] + Owed(e, 1) <= attempt[w] - 1
        BY <1>2, <3>2 DEF HealthInv, Tries, Tried
      <4> QED
        BY <1>3, <1>8, <3>1, <3>2, <4>1
    <3>3. CASE ~(e \in I /\ sent[w] = "sent")
      BY <1>7, <3>1, <3>3
    <3> QED
      BY <3>2, <3>3
  <2> QED
    BY <2>1 DEF Twice
<1> QED
  BY <1>9, <1>10, <1>11, <1>12, <1>13 DEF HealthInv, Apart

-----------------------------------------------------------------------------
(* Types.  Scores and cooldowns keep their bounds whatever is reported.    *)

LEMMA OutcomeType ==
    ASSUME TypeOK, NEW x \in Row, NEW n \in Nat, NEW penalty \in Penalties \union {0}
    PROVE  Outcome(x, penalty, n) \in Row
<1>1. /\ x.healthy \in BOOLEAN /\ x.score \in 0 .. Full /\ x.failures \in Nat
      /\ x.cool \in 0 .. MaxCooldown
      /\ x = [healthy |-> x.healthy, score |-> x.score, failures |-> x.failures, cool |-> x.cool]
  BY DEF Row
<1>2. /\ penalty \in Nat /\ Full \in Nat /\ MaxCooldown \in Nat /\ Threshold \in Nat
      /\ BaseCooldown \in Nat /\ Reward \in Nat
  BY HealthAssumption
<1>3. \A a, b \in Nat : a * b \in Nat
  OBVIOUS
<1>4. site.driver \in {"mysql", "sqlite", "memory"}
  BY HealthAssumption DEF TypeOK, Deployment
<1>5. Rewarded(x, n) \in Row /\ [Rewarded(x, n) EXCEPT !.healthy = TRUE] \in Row
  <2>1. AtMost(Full, x.score + n * Reward) \in 0 .. Full
    BY <1>1, <1>2, <1>3 DEF AtMost
  <2> HIDE DEF AtMost
  <2> QED
    BY <1>1, <2>1 DEF Rewarded, Row
<1>6. Punished(x, penalty) \in Row
  <2>1. AtLeast(0, x.score - penalty) \in 0 .. Full
    BY <1>1, <1>2 DEF AtLeast
  <2>2. x.failures + 1 \in Nat
    BY <1>1
  <2>3. \A m \in Nat, n1 \in 0 .. Full : [x EXCEPT !.failures = m, !.score = n1] \in Row
    BY <1>1 DEF Row
  <2> QED
    BY <2>1, <2>2, <2>3 DEF Punished
<1>7. ASSUME NEW y \in Row, NEW m \in Nat
      PROVE  Opened(y, m) \in Row /\ [Opened(y, m) EXCEPT !.healthy = FALSE] \in Row
  <2>1. AtMost(MaxCooldown, m * BaseCooldown) \in 0 .. MaxCooldown
    BY <1>2, <1>3 DEF AtMost
  <2> QED
    BY <2>1 DEF Opened, Row
<1>8. Punished(x, penalty).failures \in Nat
  BY <1>6 DEF Row
<1>9. Success(x, n) \in Row
  BY <1>5 DEF Success
<1>10. /\ MySQLFailure(x, penalty) \in Row /\ SQLiteFailure(x, penalty) \in Row
       /\ MemoryFailure(x, penalty) \in Row
  <2> DEFINE y == Punished(x, penalty)
  <2>1. y \in Row /\ y.failures \in Nat /\ y.failures + 1 \in Nat
    BY <1>6, <1>8
  <2>2. /\ MySQLFailure(x, penalty) \in {Opened(y, y.failures + 1), y}
        /\ SQLiteFailure(x, penalty) \in {[Opened(y, y.failures) EXCEPT !.healthy = FALSE], y}
        /\ MemoryFailure(x, penalty) \in {Opened(y, y.failures), y}
    BY Zenon DEF MySQLFailure, SQLiteFailure, MemoryFailure
  <2> HIDE DEF y
  <2> QED
    BY <1>7, <2>1, <2>2
<1> QED
  BY <1>4, <1>9, <1>10 DEF Outcome, Failure

LEMMA ApplyType ==
    ASSUME TypeOK, NEW d \in Delta, Apply(d)
    PROVE  row' \in [Proxy -> Row] /\ hits' \in [1 .. MaxEvents -> Nat]
<1>1. d.proxy \in Proxy /\ d.penalty \in Penalties \union {0} /\ d.ids \subseteq 1 .. MaxEvents
  BY DEF Delta
<1>2. Cardinality(d.ids) \in Nat
  <2>1. IsFiniteSet(1 .. MaxEvents)
    BY HealthAssumption, FS_Interval
  <2> QED
    BY <1>1, <2>1, FS_Subset, FS_CardinalityType
<1>3. row[d.proxy] \in Row /\ row \in [Proxy -> Row] /\ hits \in [1 .. MaxEvents -> Nat]
  BY <1>1 DEF TypeOK
<1>4. Outcome(row[d.proxy], d.penalty, Cardinality(d.ids)) \in Row
  BY <1>1, <1>2, <1>3, OutcomeType
<1> QED
  BY <1>1, <1>3, <1>4 DEF Apply

LEMMA BlankType == \A healthy \in BOOLEAN : Blank(healthy) \in Row
BY HealthAssumption DEF Blank, Row

LEMMA CoolerType ==
    ASSUME NEW x \in Row
    PROVE  Cooler(x) \in Row
<1>1. AtLeast(0, x.cool - 1) \in 0 .. MaxCooldown
  BY HealthAssumption DEF Row, AtLeast
<1> QED
  BY <1>1 DEF Cooler, Row

(* What a request reports is an outcome with the next number. *)
LEMMA EndRequestType ==
    ASSUME TypeOK, NEW p \in site.proxies, EndRequest(p)
    PROVE  /\ TypeOK'
           /\ \/ reported' = reported /\ queue' = queue
              \/ \E x \in Event : /\ reported' = reported + 1 /\ x.id = reported + 1
                                  /\ queue' = Queued(x)
<1>1. /\ site \in Deployment /\ p \in Proxy /\ site.buffer \in Nat \ {0}
      /\ site.events \in 0 .. MaxEvents /\ MaxEvents \in Nat
  BY HealthAssumption DEF TypeOK, Deployment
<1>2. flight' \in [Proxy -> 0 .. MaxFlight]
  <2>1. /\ flight \in [Proxy -> 0 .. MaxFlight] /\ flight[p] > 0
        /\ flight' = [flight EXCEPT ![p] = @ - 1]
    BY DEF TypeOK, EndRequest
  <2> QED
    BY <1>1, <2>1, HealthAssumption
<1>3. CASE UNCHANGED <<reported, queue>>
  <2>1. TypeOK'
    BY <1>2, <1>3 DEF EndRequest, TypeOK, closeVars, writeVars
  <2> QED
    BY <1>3, <2>1
<1>4. ASSUME reported < site.events, reported' = reported + 1, NEW c \in Penalties \union {0},
             queue' = Queued([proxy |-> p, penalty |-> c, id |-> reported + 1])
      PROVE  /\ TypeOK'
             /\ \E x \in Event : x.id = reported + 1 /\ queue' = Queued(x)
  <2> DEFINE x == [proxy |-> p, penalty |-> c, id |-> reported + 1]
  <2>1. reported' \in 0 .. site.events /\ reported + 1 \in 1 .. MaxEvents
    BY <1>1, <1>4 DEF TypeOK
  <2>2. x \in Event /\ x.id = reported + 1
    BY <1>1, <2>1 DEF Event
  <2> HIDE DEF x
  <2>3. queue' = Queued(x)
    BY <1>4 DEF x
  <2>4. queue \in Seq(Event) /\ Len(queue) <= site.buffer /\ Len(queue) \in Nat
    BY DEF TypeOK
  <2>5. queue' \in Seq(Event) /\ Len(queue') <= site.buffer
    <3>1. CASE queue' = queue
      BY <2>4, <3>1
    <3>2. CASE Len(queue) = site.buffer /\ queue' = Append(Tail(queue), x)
      <4>1. Tail(queue) \in Seq(Event) /\ Len(Tail(queue)) = Len(queue) - 1
        BY <1>1, <2>4, <3>2
      <4> QED
        BY <1>1, <2>2, <2>4, <3>2, <4>1
    <3>3. CASE Len(queue) # site.buffer /\ queue' = Append(queue, x)
      BY <1>1, <2>2, <2>4, <3>3
    <3> QED
      BY <2>3, <3>1, <3>2, <3>3 DEF Queued
  <2>6. TypeOK'
    BY <1>2, <2>1, <2>5 DEF EndRequest, TypeOK, closeVars, writeVars
  <2> QED
    BY <2>2, <2>3, <2>6
<1> QED
  BY <1>3, <1>4 DEF EndRequest

(* What the writers do to the types. *)
LEMMA DrainType ==
    ASSUME TypeOK, Apart, NEW w \in Writer, Drain(w)
    PROVE  /\ batch' \in [Writer -> Seq(Delta)] /\ queue' \in Seq(Event) /\ Len(queue') = 0
           /\ UNCHANGED <<attempt, sent>>
<1>1. Coalesce(queue) \in Seq(Delta)
  <2>1. queue \in Seq(Event) /\ \A i, j \in 1 .. Len(queue) : queue[i].id = queue[j].id => i = j
    BY DEF TypeOK, Apart, QueueApart
  <2> QED
    BY <2>1, DrainedIsSound DEF Sound
<1>2. batch \in [Writer -> Seq(Delta)]
  BY DEF TypeOK
<1> HIDE DEF Coalesce
<1> QED
  BY <1>1, <1>2 DEF Drain

LEMMA WriteType ==
    ASSUME TypeOK, Idle, NEW w \in Writer, Write(w)
    PROVE  TypeOK'
<1>1. /\ batch \in [Writer -> Seq(Delta)] /\ attempt \in [Writer -> {1, 2}]
      /\ sent \in [Writer -> {"no", "sent", "committed"}] /\ stray \in SUBSET (Delta \X {1, 2})
  BY DEF TypeOK
<1>2. sent[w] # "no" => batch[w] # <<>>
  BY DEF Idle
<1>3. batch[w] # <<>> => Head(batch[w]) \in Delta /\ Tail(batch[w]) \in Seq(Delta)
  BY <1>1
<1>4. CASE Send(w)
  BY <1>1, <1>4 DEF Send, TypeOK, gatewayVars, closeVars
<1>5. ASSUME Advance(w), batch[w] # <<>>
      PROVE  /\ batch' \in [Writer -> Seq(Delta)] /\ attempt' \in [Writer -> {1, 2}]
             /\ sent' \in [Writer -> {"no", "sent", "committed"}]
  BY <1>1, <1>3, <1>5 DEF Advance
<1>6. ASSUME Retry(w)
      PROVE  /\ batch' \in [Writer -> Seq(Delta)] /\ attempt' \in [Writer -> {1, 2}]
             /\ sent' \in [Writer -> {"no", "sent", "committed"}]
  BY <1>1, <1>6 DEF Retry
<1>7. CASE Refuse(w)
  BY <1>5, <1>7 DEF Refuse, Writing, TypeOK, gatewayVars, closeVars
<1>8. CASE Reply(w)
  BY <1>2, <1>5, <1>8 DEF Reply, TypeOK, gatewayVars, closeVars
<1>9. CASE Commit(w)
  <2>1. row' \in [Proxy -> Row] /\ hits' \in [1 .. MaxEvents -> Nat]
    BY <1>2, <1>3, <1>9, ApplyType DEF Commit
  <2>2. sent' \in [Writer -> {"no", "sent", "committed"}]
    BY <1>1, <1>9 DEF Commit
  <2> QED
    BY <1>9, <2>1, <2>2 DEF Commit, TypeOK, gatewayVars, closeVars
<1>10. CASE Fail(w)
  <2>1. stray' \in SUBSET (Delta \X {1, 2})
    <3>1. <<Head(batch[w]), attempt[w]>> \in Delta \X {1, 2}
      BY <1>1, <1>2, <1>3, <1>10 DEF Fail
    <3> QED
      BY <1>1, <1>10, <3>1 DEF Fail
  <2>2. /\ batch' \in [Writer -> Seq(Delta)] /\ attempt' \in [Writer -> {1, 2}]
        /\ sent' \in [Writer -> {"no", "sent", "committed"}]
    BY <1>2, <1>5, <1>6, <1>10 DEF Fail
  <2> QED
    BY <1>10, <2>1, <2>2 DEF Fail, TypeOK, gatewayVars, closeVars
<1> QED
  BY <1>4, <1>7, <1>8, <1>9, <1>10 DEF Write

LEMMA HealthTypeStep ==
    ASSUME TypeOK, Idle, Apart, [Next]_vars
    PROVE  TypeOK'
<1>1. CASE UNCHANGED vars
  BY <1>1 DEF vars, gatewayVars, closeVars, writeVars, TypeOK
<1>2. /\ site \in Deployment /\ row \in [Proxy -> Row] /\ held \in [Proxy -> Row \union {NoRow}]
      /\ flight \in [Proxy -> 0 .. MaxFlight] /\ MaxFlight \in Nat
      /\ site.proxies \subseteq Proxy /\ site.buffer \in Nat
  BY HealthAssumption DEF TypeOK, Deployment
<1>3. ASSUME NEW p \in site.proxies, BeginRequest(p) PROVE TypeOK'
  <2>1. flight' \in [Proxy -> 0 .. MaxFlight]
    BY <1>2, <1>3 DEF BeginRequest
  <2> QED
    BY <1>3, <2>1 DEF BeginRequest, TypeOK, closeVars, writeVars
<1>4. ASSUME NEW p \in site.proxies, EndRequest(p) PROVE TypeOK'
  BY <1>4, EndRequestType
<1>5. ASSUME NEW p \in site.proxies, UpdateProxy(p) PROVE TypeOK'
  <2>1. row' \in [Proxy -> Row]
    BY <1>2, <1>5, BlankType DEF UpdateProxy
  <2> QED
    BY <1>5, <2>1 DEF UpdateProxy, TypeOK, gatewayVars, closeVars, writeVars
<1>6. ASSUME NEW p \in site.proxies, ReadProxy(p) PROVE TypeOK'
  <2>1. PICK healthy \in BOOLEAN : held' = [held EXCEPT ![p] = [row[p] EXCEPT !.healthy = healthy]]
    BY <1>6 DEF ReadProxy
  <2>2. row[p] \in Row /\ [row[p] EXCEPT !.healthy = healthy] \in Row
    BY <1>2 DEF Row
  <2>3. held' \in [Proxy -> Row \union {NoRow}]
    BY <1>2, <2>1, <2>2
  <2> QED
    BY <1>6, <2>3 DEF ReadProxy, TypeOK, gatewayVars, closeVars, writeVars
<1>7. ASSUME NEW p \in site.proxies, WriteProxy(p) PROVE TypeOK'
  <2>1. held[p] \in Row
    BY <1>2, <1>7 DEF WriteProxy
  <2>2. row' \in [Proxy -> Row] /\ held' \in [Proxy -> Row \union {NoRow}]
    BY <1>2, <1>7, <2>1 DEF WriteProxy
  <2> QED
    BY <1>7, <2>2 DEF WriteProxy, TypeOK, gatewayVars, closeVars, writeVars
<1>8. CASE Loop
  <2>1. CASE LoopDrain
    BY <1>2, <2>1, DrainType DEF LoopDrain, TypeOK, gatewayVars, closeVars, Writer
  <2>2. CASE LoopTick \/ LoopDone \/ LoopStop
    BY <2>2 DEF LoopTick, LoopDone, LoopStop, TypeOK, gatewayVars, closeVars, writeVars
  <2> QED
    BY <1>8, <2>1, <2>2 DEF Loop
<1>9. CASE Close
  <2>1. CASE CloseDrain
    BY <1>2, <2>1, DrainType DEF CloseDrain, TypeOK, gatewayVars, Writer
  <2>2. CASE CloseBegin \/ CloseExpire \/ CloseDone
    BY <2>2 DEF CloseBegin, CloseExpire, CloseDone, TypeOK, gatewayVars, writeVars
  <2> QED
    BY <1>9, <2>1, <2>2 DEF Close
<1>10. ASSUME NEW w \in Writer, Write(w) PROVE TypeOK'
  BY <1>10, WriteType
<1>11. CASE CommitStray
  <2>1. PICK s \in stray : Apply(s[1]) /\ stray' = stray \ {s}
    BY <1>11 DEF CommitStray
  <2>2. s[1] \in Delta /\ stray' \in SUBSET (Delta \X {1, 2})
    BY <2>1 DEF TypeOK
  <2>3. row' \in [Proxy -> Row] /\ hits' \in [1 .. MaxEvents -> Nat]
    BY <2>1, <2>2, ApplyType
  <2> QED
    BY <1>11, <2>2, <2>3 DEF CommitStray, TypeOK, gatewayVars, closeVars, writeVars
<1>12. CASE Tick
  <2>1. row' \in [Proxy -> Row] /\ held' \in [Proxy -> Row \union {NoRow}]
    BY <1>2, <1>12, CoolerType DEF Tick
  <2> QED
    BY <1>12, <2>1 DEF Tick, TypeOK, gatewayVars, closeVars, writeVars
<1> QED
  BY <1>1, <1>3, <1>4, <1>5, <1>6, <1>7, <1>8, <1>9, <1>10, <1>11, <1>12 DEF Next

-----------------------------------------------------------------------------
LEMMA HealthInvInit == Init => HealthInv
<1> SUFFICES ASSUME Init PROVE HealthInv
  OBVIOUS
<1>1. site \in Deployment /\ site.events \in Nat /\ site.buffer \in Nat
  BY HealthAssumption DEF Init, Deployment
<1>2. TypeOK
  <2>1. row \in [Proxy -> Row]
    BY BlankType DEF Init, Blank
  <2>2. flight \in [Proxy -> 0 .. MaxFlight] /\ hits \in [1 .. MaxEvents -> Nat]
    BY HealthAssumption DEF Init
  <2>3. /\ batch \in [Writer -> Seq(Delta)] /\ queue \in Seq(Event) /\ Len(queue) <= site.buffer
        /\ attempt \in [Writer -> {1, 2}] /\ sent \in [Writer -> {"no", "sent", "committed"}]
    BY <1>1 DEF Init
  <2>4. reported \in 0 .. site.events
    BY <1>1 DEF Init
  <2> QED
    BY <2>1, <2>2, <2>3, <2>4 DEF Init, TypeOK
<1>3. /\ \A w \in Writer : batch[w] = <<>> /\ sent[w] = "no" /\ attempt[w] = 1
      /\ stray = {} /\ queue = <<>> /\ \A e \in 1 .. MaxEvents : hits[e] = 0
  BY DEF Init
<1>4. Queue = {} /\ \A w \in Writer : Place(w) = {}
  BY <1>3 DEF Queue, Place
<1>5. \A e, a : Owed(e, a) = 0
  BY <1>3 DEF Owed
<1> QED
  BY <1>2, <1>3, <1>4, <1>5
  DEF HealthInv, Idle, Apart, QueueApart, BatchApart, StrayApart, Unspent, Tries, Twice, Writer

LEMMA HealthInvStep == HealthInv /\ [Next]_vars => HealthInv'
<1> SUFFICES ASSUME HealthInv, [Next]_vars PROVE HealthInv'
  OBVIOUS
<1>1. TypeOK'
  BY HealthTypeStep DEF HealthInv
<1>2. /\ loop # "writing" => batch["loop"] = <<>>
      /\ closer # "writing" => batch["closer"] = <<>>
      /\ \A w \in Writer : sent[w] # "no" => batch[w] # <<>>
  BY DEF HealthInv, Idle
<1>3. CASE UNCHANGED vars
  BY <1>1, <1>2, <1>3, NothingMoves DEF vars, gatewayVars, closeVars, writeVars
<1>4. ASSUME NEW p \in site.proxies,
             BeginRequest(p) \/ UpdateProxy(p) \/ ReadProxy(p) \/ WriteProxy(p)
      PROVE  HealthInv'
  BY <1>1, <1>2, <1>4, NothingMoves
  DEF BeginRequest, UpdateProxy, ReadProxy, WriteProxy, gatewayVars, closeVars, writeVars
<1>5. ASSUME NEW p \in site.proxies, EndRequest(p) PROVE HealthInv'
  <2>1. UNCHANGED <<site, loop, closer, batch, attempt, sent, stray, hits>>
    BY <1>5 DEF EndRequest, closeVars, writeVars
  <2>2. CASE reported' = reported /\ queue' = queue
    BY <1>1, <1>2, <2>1, <2>2, NothingMoves
  <2>3. ASSUME NEW x \in Event, reported' = reported + 1, x.id = reported + 1, queue' = Queued(x)
        PROVE  HealthInv'
    BY <1>1, <2>1, <2>3, ReportStep
  <2> QED
    BY <1>5, <2>2, <2>3, EndRequestType DEF HealthInv
<1>6. CASE Loop
  <2>1. CASE LoopDrain
    BY <1>1, <1>2, <2>1, DrainStep DEF LoopDrain, gatewayVars, closeVars, Writer
  <2>2. CASE LoopTick \/ LoopDone \/ LoopStop
    BY <1>1, <1>2, <2>2, NothingMoves
    DEF LoopTick, LoopDone, LoopStop, gatewayVars, closeVars, writeVars
  <2> QED
    BY <1>6, <2>1, <2>2 DEF Loop
<1>7. CASE Close
  <2>1. CASE CloseDrain
    BY <1>1, <1>2, <2>1, DrainStep DEF CloseDrain, gatewayVars, Writer
  <2>2. CASE CloseBegin \/ CloseExpire \/ CloseDone
    BY <1>1, <1>2, <2>2, NothingMoves
    DEF CloseBegin, CloseExpire, CloseDone, gatewayVars, writeVars
  <2> QED
    BY <1>7, <2>1, <2>2 DEF Close
<1>8. ASSUME NEW w \in Writer, Write(w) PROVE HealthInv'
  <2>1. CASE Send(w)
    BY <1>1, <2>1, SendStep
  <2>2. CASE Refuse(w) \/ Reply(w)
    <3>1. /\ batch[w] # <<>> /\ Advance(w) /\ stray' = stray
          /\ UNCHANGED <<reported, queue, closer, loop, hits>>
      BY <1>2, <2>2 DEF Refuse, Reply, Writing, gatewayVars, closeVars
    <3> QED
      BY <1>1, <3>1, AdvanceStep
  <2>3. CASE Commit(w)
    BY <1>1, <2>3, CommitStep
  <2>4. CASE Fail(w)
    <3>1. /\ batch[w] # <<>> /\ (Advance(w) \/ Retry(w))
          /\ \/ stray' = stray
             \/ sent[w] = "sent" /\ stray' = stray \union {<<Head(batch[w]), attempt[w]>>}
          /\ UNCHANGED <<reported, queue, closer, loop, hits>>
      BY <1>2, <2>4 DEF Fail, gatewayVars, closeVars
    <3> QED
      BY <1>1, <3>1, AdvanceStep, RetryStep
  <2> QED
    BY <1>8, <2>1, <2>2, <2>3, <2>4 DEF Write
<1>9. CASE CommitStray
  BY <1>1, <1>9, CommitStrayStep
<1>10. CASE Tick
  BY <1>1, <1>2, <1>10, NothingMoves DEF Tick, gatewayVars, closeVars, writeVars
<1> QED
  BY <1>3, <1>4, <1>5, <1>6, <1>7, <1>8, <1>9, <1>10 DEF Next

(* The queue keeps its capacity, a batch holds deltas, and the score and    *)
(* the cooldown of a row keep their bounds, whichever store counts what.   *)
THEOREM HealthTypeCorrect == Spec => []TypeOK
<1>1. HealthInv => TypeOK
  BY DEF HealthInv
<1> QED
  BY <1>1, HealthInvInit, HealthInvStep, PTL DEF Spec

(* An outcome is counted twice at the worst, whatever fails, is tried       *)
(* again, is canceled or commits when its writer has given it up, and      *)
(* although two goroutines drain the one queue.                            *)
THEOREM CountedTwiceAtMost == Spec => []AtMostTwice
<1>1. HealthInv => AtMostTwice
  <2> SUFFICES ASSUME HealthInv, NEW e \in 1 .. MaxEvents PROVE hits[e] <= 2
    BY DEF AtMostTwice
  <2>1. hits[e] \in Nat /\ hits[e] + Owed(e, 1) + Owed(e, 2) <= 2
    BY DEF HealthInv, TypeOK, Twice
  <2>2. Owed(e, 1) \in {0, 1} /\ Owed(e, 2) \in {0, 1}
    BY DEF Owed
  <2> QED
    BY <2>1, <2>2
<1> QED
  BY <1>1, HealthInvInit, HealthInvStep, PTL DEF Spec

-----------------------------------------------------------------------------
(* What is written.  Writing deltas is a loop as draining is, and the two   *)
(* are compared turn by turn.                                              *)

LEMMA SmallBatch ==
    ASSUME NEW ids \in SUBSET (1 .. MaxEvents)
    PROVE  IsFiniteSet(ids) /\ Cardinality(ids) \in Nat
<1>1. IsFiniteSet(1 .. MaxEvents)
  BY HealthAssumption, FS_Interval
<1>2. IsFiniteSet(ids)
  BY <1>1, FS_Subset
<1> QED
  BY <1>2, FS_CardinalityType

LEMMA AfterType ==
    ASSUME TypeOK, NEW x \in Row, NEW p, NEW d \in Delta
    PROVE  After(x, p, d) \in Row
<1>1. d.penalty \in Penalties \union {0} /\ d.ids \in SUBSET (1 .. MaxEvents)
  BY DEF Delta
<1>2. Cardinality(d.ids) \in Nat
  BY <1>1, SmallBatch
<1> QED
  BY <1>1, <1>2, OutcomeType DEF After

(* Writing, turn by turn. *)
Rows(g, x, p, d) ==
    /\ g \in [0 .. Len(d) -> Row]
    /\ g[0] = x /\ g[Len(d)] = Written(x, p, d)
    /\ \A i \in 1 .. Len(d) : g[i] = After(g[i - 1], p, d[i])

LEMMA WrittenInTurn ==
    ASSUME TypeOK, NEW x \in Row, NEW p, NEW d \in Seq(Delta)
    PROVE  \E g : Rows(g, x, p, d)
<1> DEFINE n == Len(d)
           turn == [xv \in (1 .. n) \X Row |-> After(xv[2], p, d[xv[1]])]
           Run(h) == h = [s \in SUBSET (1 .. n) |->
                            IF s = {} THEN x
                            ELSE After(h[s \ {Max(s)}], p, d[Max(s)])]
           of == CHOOSE h : Run(h)
<1>1. n \in Nat /\ DOMAIN d = 1 .. n /\ \A i \in 1 .. n : d[i] \in Delta
  OBVIOUS
<1>2. Written(x, p, d) = of[1 .. n]
  BY <1>1 DEF Written, FoldLeft, MapThenFoldSet
<1>3. \A i \in 1 .. n, v \in Row :
          turn[<<i, v>>] = After(v, p, d[i]) /\ turn[<<i, v>>] \in Row
  <2>1. ASSUME NEW i \in 1 .. n, NEW v \in Row PROVE After(v, p, d[i]) \in Row
    BY <1>1, AfterType
  <2> QED
    BY <2>1
<1>4. turn \in [(1 .. n) \X Row -> Row]
  <2>1. ASSUME NEW xv \in (1 .. n) \X Row PROVE After(xv[2], p, d[xv[1]]) \in Row
    BY <1>1, AfterType
  <2> QED
    BY <2>1
<1>5. \A s \in SUBSET (1 .. n) : s # {} => Max(s) \in 1 .. n
  <2>1. ASSUME NEW s \in SUBSET (1 .. n), s # {} PROVE Max(s) \in 1 .. n
    <3>1. IsFiniteSet(1 .. n) /\ 1 .. n \in SUBSET Int
      BY <1>1, FS_Interval
    <3>2. IsFiniteSet(s) /\ s \in SUBSET Int
      BY <3>1, FS_Subset
    <3> QED
      BY <2>1, <3>2, MaxIsMember
  <2> QED
    BY <2>1
<1> HIDE DEF n, turn
<1>6. \E h : Run(h)
  <2>1. PICK h \in [SUBSET (1 .. n) -> Row] : IsRun(h, n, x, turn)
    BY <1>1, <1>4, RunExists
  <2>2. ASSUME NEW s \in SUBSET (1 .. n), s # {}
        PROVE  turn[<<Max(s), h[s \ {Max(s)}]>>] = After(h[s \ {Max(s)}], p, d[Max(s)])
    <3>1. h[s \ {Max(s)}] \in Row
      BY <2>2
    <3> QED
      BY <1>3, <1>5, <2>2, <3>1
  <2>3. Run(h)
    BY <2>1, <2>2 DEF IsRun
  <2> QED
    BY <2>3
<1>7. Run(of)
  <2> HIDE DEF Run
  <2> QED
    BY <1>6, Zenon
<1> HIDE DEF of
<1>8. FoldsTo(of, n, Row, x, turn)
  <2>1. of[{}] = x
    BY <1>7
  <2>2. ASSUME NEW s \in SUBSET (1 .. n), s # {}, of[s \ {Max(s)}] \in Row
        PROVE  of[s] = turn[<<Max(s), of[s \ {Max(s)}]>>]
    <3>1. of[s] = After(of[s \ {Max(s)}], p, d[Max(s)])
      BY <1>7, <2>2
    <3> QED
      BY <1>3, <1>5, <2>2, <3>1
  <2> HIDE DEF Run
  <2> QED
    BY <2>1, <2>2 DEF FoldsTo
<1> HIDE DEF Run
<1>9. PICK g \in [0 .. n -> Row] : g[n] = of[1 .. n] /\ InTurn(g, n, x, turn)
  BY <1>1, <1>4, <1>8, TurnByTurn
<1>10. ASSUME NEW i \in 1 .. n PROVE g[i] = After(g[i - 1], p, d[i])
  <2>1. i - 1 \in 0 .. n
    BY <1>1
  <2> QED
    BY <1>3, <1>9, <2>1 DEF InTurn
<1> QED
  BY <1>2, <1>9, <1>10 DEF n, InTurn, Rows

(* Two loops that begin alike and take like turns end alike. *)
Alike(g, h, n) ==
    /\ g[0] = h[0]
    /\ \A i \in 1 .. n : g[i - 1] = h[i - 1] => g[i] = h[i]

LEMMA TurnsAgree ==
    ASSUME NEW n \in Nat, NEW g, NEW h, Alike(g, h, n)
    PROVE  \A i \in 0 .. n : g[i] = h[i]
<1> DEFINE N == {i \in 0 .. n : g[i] # h[i]}
<1>1. SUFFICES ASSUME N # {} PROVE FALSE
  OBVIOUS
<1>2. PICK m \in N : \A k \in N : m <= k
  <2>1. N \in SUBSET Nat
    OBVIOUS
  <2> HIDE DEF N
  <2> QED
    BY <1>1, <2>1, SmallestNumber
<1>3. m \in 1 .. n /\ m - 1 \in 0 .. n /\ ~(m <= m - 1)
  BY <1>2 DEF Alike
<1>4. g[m - 1] = h[m - 1]
  BY <1>2, <1>3
<1> QED
  BY <1>2, <1>3, <1>4 DEF Alike

LEMMA NothingWritten ==
    ASSUME TypeOK, NEW x \in Row, NEW p
    PROVE  Written(x, p, <<>>) = x
<1> DEFINE d == <<>>
<1>1. d \in Seq(Delta) /\ Len(d) = 0
  OBVIOUS
<1> HIDE DEF d
<1>2. PICK g : Rows(g, x, p, d)
  BY <1>1, WrittenInTurn
<1> QED
  BY <1>1, <1>2 DEF d, Rows

LEMMA WrittenType ==
    ASSUME TypeOK, NEW x \in Row, NEW p, NEW d \in Seq(Delta)
    PROVE  Written(x, p, d) \in Row
<1>1. PICK g : Rows(g, x, p, d)
  BY WrittenInTurn
<1>2. Len(d) \in 0 .. Len(d)
  OBVIOUS
<1> QED
  BY <1>1, <1>2 DEF Rows

(* A delta more. *)
LEMMA WrittenMore ==
    ASSUME TypeOK, NEW x \in Row, NEW p, NEW d \in Seq(Delta), NEW a \in Delta
    PROVE  Written(x, p, Append(d, a)) = After(Written(x, p, d), p, a)
<1> DEFINE b == Append(d, a)
           n == Len(d)
<1>1. /\ n \in Nat /\ b \in Seq(Delta) /\ Len(b) = n + 1 /\ b[n + 1] = a
      /\ \A i \in 1 .. n : b[i] = d[i]
  OBVIOUS
<1> HIDE DEF b
<1>2. PICK g : Rows(g, x, p, d)
  BY WrittenInTurn
<1>3. PICK h : Rows(h, x, p, b)
  BY <1>1, WrittenInTurn
<1>4. \A i \in 0 .. n : g[i] = h[i]
  <2>1. Alike(g, h, n)
    BY <1>1, <1>2, <1>3 DEF Alike, Rows
  <2> HIDE DEF n
  <2> QED
    BY <1>1, <2>1, TurnsAgree
<1>5. h[n + 1] = After(h[n], p, a)
  <2>1. n + 1 \in 1 .. Len(b) /\ (n + 1) - 1 = n
    BY <1>1
  <2> QED
    BY <1>1, <1>3, <2>1 DEF Rows
<1>6. n \in 0 .. n
  BY <1>1
<1> QED
  BY <1>1, <1>2, <1>3, <1>4, <1>5, <1>6 DEF b, Rows

(* A success more is a success, and the cap on the score does not mind. *)
LEMMA SuccessTwice ==
    ASSUME TypeOK, NEW x \in Row, NEW n \in Nat
    PROVE  Success(Success(x, n), 1) = Success(x, n + 1)
<1>1. /\ x.healthy \in BOOLEAN /\ x.score \in 0 .. Full /\ x.failures \in Nat
      /\ x.cool \in 0 .. MaxCooldown
      /\ x = [healthy |-> x.healthy, score |-> x.score, failures |-> x.failures, cool |-> x.cool]
  BY DEF Row
<1>2. Full \in Nat /\ Reward \in Nat
  BY HealthAssumption
<1>3. n * Reward \in Nat /\ (n + 1) * Reward = n * Reward + Reward /\ 1 * Reward = Reward
  BY <1>2
<1>4. AtMost(Full, AtMost(Full, x.score + n * Reward) + 1 * Reward)
          = AtMost(Full, x.score + (n + 1) * Reward)
  <2> DEFINE k == n * Reward
  <2>1. k \in Nat /\ (n + 1) * Reward = k + Reward
    BY <1>3
  <2> HIDE DEF k
  <2>2. AtMost(Full, AtMost(Full, x.score + k) + Reward) = AtMost(Full, x.score + (k + Reward))
    BY <1>1, <1>2, <2>1 DEF AtMost
  <2> QED
    BY <1>3, <2>1, <2>2 DEF k
<1> HIDE DEF AtMost
<1>5. Rewarded(Rewarded(x, n), 1) = Rewarded(x, n + 1)
  BY <1>1, <1>4 DEF Rewarded
<1>6. Rewarded([Rewarded(x, n) EXCEPT !.healthy = TRUE], 1)
          = [Rewarded(Rewarded(x, n), 1) EXCEPT !.healthy = TRUE]
  BY <1>1 DEF Rewarded
<1>7. [[Rewarded(x, n + 1) EXCEPT !.healthy = TRUE] EXCEPT !.healthy = TRUE]
          = [Rewarded(x, n + 1) EXCEPT !.healthy = TRUE]
  BY <1>1 DEF Rewarded
<1> QED
  BY <1>5, <1>6, <1>7 DEF Success

(* An outcome that joins a success of its proxy counts as if it came last. *)
Joins(d, e, n) ==
    /\ d[n].proxy = e.proxy /\ d[n].penalty = 0 /\ e.penalty = 0
    /\ \A j \in 1 .. Len(d) : d[j].proxy = e.proxy => j <= n

Joined(d, e, n) == [d EXCEPT ![n].ids = @ \union {e.id}]

LEMMA WrittenJoined ==
    ASSUME TypeOK, NEW x \in Row, NEW p, NEW d \in Seq(Delta), NEW e \in Event,
           NEW n \in 1 .. Len(d), e.id \notin d[n].ids, Joins(d, e, n)
    PROVE  Written(x, p, Joined(d, e, n)) = After(Written(x, p, d), p, Alone(e))
<1> DEFINE a == Alone(e)
           y == [d[n] EXCEPT !.ids = @ \union {e.id}]
           b == Joined(d, e, n)
           m == Len(d)
<1>1. /\ a \in Delta /\ a.ids = {e.id} /\ a.proxy = e.proxy /\ a.penalty = 0
      /\ e.id \in 1 .. MaxEvents
  BY AloneType DEF Event, Joins
<1>2. /\ d[n] \in Delta /\ d[n].ids \in SUBSET (1 .. MaxEvents)
      /\ m \in Nat /\ n \in 1 .. m /\ \A i \in 1 .. m : d[i] \in Delta
  <2>1. d[n] \in Delta /\ m \in Nat /\ \A i \in 1 .. m : d[i] \in Delta
    OBVIOUS
  <2>2. d[n].ids \in SUBSET (1 .. MaxEvents)
    BY <2>1 DEF Delta
  <2> QED
    BY <2>1, <2>2
<1>3. /\ y \in Delta /\ y.ids = d[n].ids \union {e.id}
      /\ y.proxy = e.proxy /\ y.penalty = 0
  BY <1>1, <1>2 DEF Delta, Joins
<1>4. b \in Seq(Delta) /\ Len(b) = m /\ b[n] = y /\ \A i \in 1 .. m : i # n => b[i] = d[i]
  <2>1. b = [d EXCEPT ![n] = y]
    BY DEF Joined
  <2> HIDE DEF y, b
  <2> QED
    BY <1>3, <2>1
<1> HIDE DEF a, y, b
<1>5. \A v \in Row : After(v, p, y) = After(After(v, p, d[n]), p, a)
  <2>1. IsFiniteSet(d[n].ids) /\ Cardinality(d[n].ids) \in Nat
    BY <1>2, SmallBatch
  <2>2. Cardinality(y.ids) = Cardinality(d[n].ids) + 1
    BY <1>3, <2>1, FS_AddElement
  <2>3. Cardinality(a.ids) = 1
    BY <1>1, FS_Singleton
  <2> QED
    BY <1>1, <1>3, <2>1, <2>2, <2>3, SuccessTwice DEF After, Outcome, Joins
<1>6. \A i \in n + 1 .. m : \A v : After(After(v, p, d[i]), p, a) = After(After(v, p, a), p, d[i])
  <2>1. \A i \in n + 1 .. m : d[i].proxy # a.proxy
    BY <1>1, <1>2 DEF Joins
  <2> QED
    BY <2>1 DEF After
<1>7. PICK g \in [0 .. m -> Row] :
          /\ g[0] = x /\ g[m] = Written(x, p, d)
          /\ \A i \in 1 .. m : g[i] = After(g[i - 1], p, d[i])
  <2>1. PICK g : Rows(g, x, p, d)
    BY WrittenInTurn
  <2> QED
    BY <2>1 DEF Rows
<1>8. PICK h \in [0 .. m -> Row] :
          /\ h[0] = x /\ h[m] = Written(x, p, b)
          /\ \A i \in 1 .. m : h[i] = After(h[i - 1], p, b[i])
  <2>1. PICK h : Rows(h, x, p, b)
    BY <1>4, WrittenInTurn
  <2> QED
    BY <1>4, <2>1 DEF Rows
<1> HIDE DEF m
<1> DEFINE k == [i \in 0 .. m |-> IF i < n THEN g[i] ELSE After(g[i], p, a)]
<1>9. k[0] = h[0] /\ k[m] = After(g[m], p, a)
  BY <1>2, <1>7, <1>8
<1>10. ASSUME NEW i \in 1 .. m, k[i - 1] = h[i - 1] PROVE k[i] = h[i]
  <2>1. i \in 0 .. m /\ i - 1 \in 0 .. m /\ g[i - 1] \in Row
    BY <1>2, <1>7
  <2>2. CASE i < n
    <3>1. k[i] = g[i] /\ k[i - 1] = g[i - 1] /\ b[i] = d[i]
      BY <1>2, <1>4, <2>1, <2>2
    <3> QED
      BY <1>7, <1>8, <1>10, <3>1
  <2>3. CASE i = n
    <3>1. k[i] = After(g[i], p, a) /\ k[i - 1] = g[i - 1] /\ b[i] = y
      BY <1>2, <1>4, <2>1, <2>3
    <3>2. g[i] = After(g[i - 1], p, d[n]) /\ h[i] = After(h[i - 1], p, y)
      BY <1>7, <1>8, <2>3, <3>1
    <3> QED
      BY <1>5, <1>10, <2>1, <3>1, <3>2
  <2>4. CASE n < i
    <3>1. k[i] = After(g[i], p, a) /\ k[i - 1] = After(g[i - 1], p, a) /\ b[i] = d[i]
      BY <1>2, <1>4, <2>1, <2>4
    <3>2. g[i] = After(g[i - 1], p, d[i]) /\ h[i] = After(h[i - 1], p, d[i])
      BY <1>7, <1>8, <3>1
    <3>3. i \in n + 1 .. m
      BY <1>2, <2>4
    <3> HIDE DEF k
    <3> QED
      BY <1>6, <1>10, <3>1, <3>2, <3>3
  <2> QED
    BY <1>2, <2>2, <2>3, <2>4
<1>11. m \in 0 .. m
  BY <1>2
<1> HIDE DEF k
<1>12. \A i \in 0 .. m : k[i] = h[i]
  <2>1. Alike(k, h, m)
    BY <1>9, <1>10 DEF Alike
  <2> QED
    BY <1>2, <2>1, TurnsAgree
<1> QED
  BY <1>7, <1>8, <1>9, <1>11, <1>12 DEF a, b

(* One outcome more, drained or by itself. *)
LEMMA MergeIsFaithful ==
    ASSUME TypeOK, NEW x \in Row, NEW p, NEW d \in Seq(Delta), NEW e \in Event,
           \A j \in 1 .. Len(d) : e.id \notin d[j].ids
    PROVE  Written(x, p, Merge(d, e)) = After(Written(x, p, d), p, Alone(e))
<1>1. CASE Merge(d, e) = Append(d, Alone(e))
  BY <1>1, AloneType, WrittenMore
<1>2. ASSUME NEW n \in 1 .. Len(d),
             Merge(d, e) = [d EXCEPT ![n].ids = @ \union {e.id}], Joins(d, e, n)
      PROVE  Written(x, p, Merge(d, e)) = After(Written(x, p, d), p, Alone(e))
  <2>1. e.id \notin d[n].ids
    OBVIOUS
  <2>2. Written(x, p, Joined(d, e, n)) = After(Written(x, p, d), p, Alone(e))
    BY <1>2, <2>1, WrittenJoined
  <2>3. Merge(d, e) = Joined(d, e, n)
    BY <1>2 DEF Joined
  <2> QED
    BY <2>2, <2>3
<1> QED
  BY <1>1, <1>2, MergeShape DEF Joins

(* The queue, drained or outcome by outcome. *)
LEMMA DrainedIsFaithful ==
    ASSUME TypeOK, NEW x \in Row, NEW p, NEW events \in Seq(Event),
           \A i, j \in 1 .. Len(events) : events[i].id = events[j].id => i = j
    PROVE  Written(x, p, Coalesce(events))
               = Written(x, p, [i \in DOMAIN events |-> Alone(events[i])])
<1> DEFINE n == Len(events)
           alone == [i \in DOMAIN events |-> Alone(events[i])]
<1>1. n \in Nat /\ n \in 0 .. n /\ \A i \in 1 .. n : events[i] \in Event
  OBVIOUS
<1>2. /\ alone \in Seq(Delta) /\ Len(alone) = n
      /\ \A i \in 1 .. n : alone[i] = Alone(events[i])
  <2>1. DOMAIN events = 1 .. n
    OBVIOUS
  <2>2. \A i \in 1 .. n : Alone(events[i]) \in Delta
    BY <1>1, AloneType
  <2>3. alone \in [1 .. n -> Delta]
    BY <2>1, <2>2
  <2>4. \A i \in 1 .. n : alone[i] = Alone(events[i])
    BY <2>1
  <2> HIDE DEF alone, n
  <2> QED
    BY <1>1, <2>3, <2>4
<1>3. PICK g \in [0 .. n -> Seq(Delta)] :
          /\ g[0] = <<>> /\ g[n] = Coalesce(events)
          /\ \A i \in 1 .. n : g[i] = Merge(g[i - 1], events[i])
  BY CoalesceInTurn
<1>4. \A i \in 0 .. n : Sound(g[i], {events[j].id : j \in 1 .. i})
  BY <1>3, CoalesceIsSound
<1> HIDE DEF alone
<1>5. PICK h \in [0 .. n -> Row] :
          /\ h[0] = x /\ h[n] = Written(x, p, alone)
          /\ \A i \in 1 .. n : h[i] = After(h[i - 1], p, alone[i])
  <2>1. PICK h : Rows(h, x, p, alone)
    BY <1>2, WrittenInTurn
  <2> QED
    BY <1>2, <2>1 DEF Rows
<1> HIDE DEF n
<1> DEFINE k == [i \in 0 .. n |-> Written(x, p, g[i])]
<1>6. k[0] = h[0] /\ k[n] = Written(x, p, Coalesce(events))
  BY <1>1, <1>3, <1>5, NothingWritten
<1>7. ASSUME NEW i \in 1 .. n, k[i - 1] = h[i - 1] PROVE k[i] = h[i]
  <2>1. i \in 0 .. n /\ i - 1 \in 0 .. n /\ g[i - 1] \in Seq(Delta) /\ events[i] \in Event
    BY <1>1, <1>3
  <2>2. \A j \in 1 .. Len(g[i - 1]) : events[i].id \notin g[i - 1][j].ids
    <3>1. \A j \in 1 .. (i - 1) : j \in 1 .. n /\ j # i
      BY <1>1
    <3>2. events[i].id \notin {events[j].id : j \in 1 .. (i - 1)}
      BY <3>1 DEF n
    <3> QED
      BY <1>4, <2>1, <3>2 DEF Sound
  <2>3. Written(x, p, Merge(g[i - 1], events[i]))
            = After(Written(x, p, g[i - 1]), p, Alone(events[i]))
    BY <2>1, <2>2, MergeIsFaithful
  <2>4. k[i] = Written(x, p, g[i]) /\ k[i - 1] = Written(x, p, g[i - 1])
    BY <2>1
  <2> HIDE DEF k
  <2> QED
    BY <1>2, <1>3, <1>5, <1>7, <2>3, <2>4
<1> HIDE DEF k
<1>8. \A i \in 0 .. n : k[i] = h[i]
  <2>1. Alike(k, h, n)
    BY <1>6, <1>7 DEF Alike
  <2> QED
    BY <1>1, <2>1, TurnsAgree
<1> QED
  BY <1>1, <1>5, <1>6, <1>8 DEF alone

(* Draining the queue changes nothing about what its outcomes do to the    *)
(* rows: for every store, queue, penalty and reward, a success may be       *)
(* counted with the last one of its proxy, and a failure with none.        *)
THEOREM CoalesceIsFaithfulHolds == Spec => []CoalesceIsFaithful
<1>1. HealthInv => CoalesceIsFaithful
  <2> SUFFICES ASSUME HealthInv, NEW p \in Proxy
               PROVE  Written(row[p], p, Coalesce(queue))
                          = Written(row[p], p, [i \in DOMAIN queue |-> Alone(queue[i])])
    BY DEF CoalesceIsFaithful
  <2>1. TypeOK /\ row[p] \in Row /\ queue \in Seq(Event)
    BY DEF HealthInv, TypeOK
  <2>2. \A i, j \in 1 .. Len(queue) : queue[i].id = queue[j].id => i = j
    BY DEF HealthInv, Apart, QueueApart
  <2> QED
    BY <2>1, <2>2, DrainedIsFaithful
<1> QED
  BY <1>1, HealthInvInit, HealthInvStep, PTL DEF Spec

-----------------------------------------------------------------------------
(* Closing *)

(* Close closes before it drains, and nothing is queued after that.  The   *)
(* flag is what the queue is protected by: it never opens again.           *)
Drained ==
    /\ closer # "idle" => closed
    /\ closer \in {"writing", "done"} => queue = <<>>

(* Nothing enters the queue of a recorder that is closed. *)
LEMMA ClosedQueueIsShut ==
    ASSUME closed, NEW e
    PROVE  Queued(e) = queue
BY DEF Queued

LEMMA DrainedStep == Drained /\ [Next]_vars => Drained'
<1> SUFFICES ASSUME Drained, [Next]_vars PROVE Drained'
  OBVIOUS
<1>1. CASE UNCHANGED vars
  BY <1>1 DEF Drained, vars, closeVars
<1>2. CASE Next
  <2>1. ASSUME NEW p \in site.proxies, BeginRequest(p) PROVE Drained'
    BY <2>1 DEF Drained, BeginRequest, closeVars
  <2>2. ASSUME NEW p \in site.proxies, EndRequest(p) PROVE Drained'
    <3>1. UNCHANGED <<closed, closer>>
      BY <2>2 DEF EndRequest, closeVars
    <3>2. closed => queue' = queue
      BY <2>2, ClosedQueueIsShut DEF EndRequest
    <3> QED
      BY <3>1, <3>2 DEF Drained
  <2>3. ASSUME NEW p \in site.proxies, UpdateProxy(p) \/ ReadProxy(p) \/ WriteProxy(p)
        PROVE  Drained'
    BY <2>3 DEF Drained, UpdateProxy, ReadProxy, WriteProxy, closeVars
  <2>4. CASE Loop
    BY <2>4 DEF Drained, Loop, LoopTick, LoopDrain, LoopDone, LoopStop, Drain, closeVars
  <2>5. CASE CloseBegin
    BY <2>5 DEF Drained, CloseBegin
  <2>6. CASE CloseExpire
    BY <2>6 DEF Drained, CloseExpire
  <2>7. CASE CloseDrain
    BY <2>7 DEF Drained, CloseDrain, Drain
  <2>8. CASE CloseDone
    BY <2>8 DEF Drained, CloseDone
  <2>9. ASSUME NEW w \in Writer, Write(w) PROVE Drained'
    BY <2>9 DEF Drained, Write, Send, Refuse, Commit, Reply, Fail, closeVars
  <2>10. CASE CommitStray
    BY <2>10 DEF Drained, CommitStray, closeVars
  <2>11. CASE Tick
    BY <2>11 DEF Drained, Tick, closeVars
  <2> QED
    BY <1>2, <2>1, <2>2, <2>3, <2>4, <2>5, <2>6, <2>7, <2>8, <2>9, <2>10, <2>11
    DEF Next, Close
<1> QED
  BY <1>1, <1>2

(* When Close has returned nothing is left in the queue, whatever the      *)
(* flush loop, the requests and the store have been doing meanwhile.       *)
THEOREM NothingLeftBehindHolds == Spec => []NothingLeftBehind
<1>1. Init => Drained
  BY DEF Init, Drained
<1>2. Drained => NothingLeftBehind
  BY DEF Drained, NothingLeftBehind
<1> QED
  BY <1>1, <1>2, DrainedStep, PTL DEF Spec
=============================================================================
