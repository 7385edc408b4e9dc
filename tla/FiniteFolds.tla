------------------------------ MODULE FiniteFolds ------------------------------
(***************************************************************************)
(* Sums and other folds over finite sets: what the loops of the code       *)
(* compute.  The library states induction for operators; here a family of  *)
(* subsets has a smallest member, and a fold is a function of subsets, so  *)
(* that all of it is about values.                                         *)
(***************************************************************************)
EXTENDS Integers, FiniteSets, FiniteSetTheorems, TLAPS

(* A family of subsets of a finite set has a smallest one: whatever the    *)
(* loops of the code run over, a shortest run that goes wrong exists.      *)
LEMMA SmallestSubset ==
    ASSUME NEW S, IsFiniteSet(S), NEW F \in SUBSET (SUBSET S), F # {}
    PROVE  \E T \in F : \A U \in F : U \subseteq T => U = T
<1>1. IsWellFoundedOn(StrictSubsetOrdering(S), SUBSET S)
  BY FS_StrictSubsetOrderingWellFounded, FS_FiniteSubsetsOfFinite, Zenon
<1>2. PICK T \in F : \A U \in F : <<U, T>> \notin StrictSubsetOrdering(S)
  BY <1>1, WFMin, Zenon
<1>3. ASSUME NEW U \in F, U \subseteq T PROVE U = T
  BY <1>2, <1>3 DEF StrictSubsetOrdering
<1> QED
  BY <1>3

(* The numbers up to one of them: the loops of the code count. *)
LEMMA SmallestNumber ==
    ASSUME NEW N \in SUBSET Nat, N # {}
    PROVE  \E m \in N : \A k \in N : m <= k
<1> DEFINE R == {ss \in Nat \X Nat : ss[1] < ss[2]}
<1>1. IsWellFoundedOn(R, Nat)
  <2>1. R = OpToRel(<, Nat)
    BY Zenon DEF OpToRel
  <2> QED
    BY <2>1, NatLessThanWellFounded, Zenon
<1>2. PICK m \in N : \A k \in N : <<k, m>> \notin R
  <2> HIDE DEF R
  <2> QED
    BY <1>1, WFMin, Zenon
<1>3. ASSUME NEW k \in N PROVE m <= k
  <2>1. k \in Nat /\ m \in Nat
    OBVIOUS
  <2>2. <<k, m>> \in R <=> k < m
    BY <2>1
  <2> QED
    BY <1>2, <2>1, <2>2
<1> QED
  BY <1>3

(* Among finitely many numbers there is a greatest: the proxy with the     *)
(* most credit, the last delta of a proxy.                                 *)
LEMMA GreatestValue ==
    ASSUME NEW S, IsFiniteSet(S), S # {}, NEW f \in [S -> Int]
    PROVE  \E p \in S : \A q \in S : f[q] <= f[p]
<1> DEFINE F == {T \in SUBSET S : \E p \in T : \A q \in S \ T : f[q] <= f[p]}
<1>1. S \in F
  OBVIOUS
<1>2. PICK T \in F : \A U \in F : U \subseteq T => U = T
  <2> HIDE DEF F
  <2>1. F \in SUBSET (SUBSET S)
    BY DEF F
  <2> QED
    BY <1>1, <2>1, SmallestSubset
<1>3. PICK p \in T : \A q \in S \ T : f[q] <= f[p]
  BY <1>2
<1>4. ASSUME NEW q \in T PROVE f[q] <= f[p]
  <2>1. SUFFICES ASSUME f[p] < f[q] PROVE FALSE
    BY <1>2, <1>3
  <2>2. T \ {p} \in F
    <3>1. \A r \in S \ (T \ {p}) : f[r] <= f[q]
      BY <2>1, <1>2, <1>3
    <3> QED
      BY <3>1, <2>1, <1>2
  <2>3. T \ {p} = T
    BY <2>2, <1>2
  <2> QED
    BY <2>3, <1>3
<1> QED
  BY <1>2, <1>3, <1>4

(* g is the fold over every subset of S: base for none, and step of the     *)
(* element that is picked and of the fold of the others.                   *)
IsFold(g, S, base, pick, step) ==
    g = [s \in SUBSET S |->
            IF s = {} THEN base ELSE step[<<pick[s], g[s \ {pick[s]}]>>]]

(* There is at most one, wherever two of them are defined. *)
LEMMA FoldsAgree ==
    ASSUME NEW S, IsFiniteSet(S), NEW base, NEW pick, NEW step,
           \A s \in SUBSET S : s # {} => pick[s] \in s,
           NEW T \in SUBSET S, NEW U \in SUBSET T, NEW g, NEW h,
           IsFold(g, T, base, pick, step), IsFold(h, U, base, pick, step)
    PROVE  \A s \in SUBSET U : g[s] = h[s]
<1> DEFINE F == {s \in SUBSET U : g[s] # h[s]}
<1>1. SUFFICES ASSUME F # {} PROVE FALSE
  OBVIOUS
<1>2. PICK s \in F : \A r \in F : r \subseteq s => r = s
  <2>1. F \in SUBSET (SUBSET S)
    OBVIOUS
  <2> HIDE DEF F
  <2> QED
    BY <1>1, <2>1, SmallestSubset
<1>3. s # {}
  BY <1>2 DEF IsFold
<1>4. pick[s] \in s
  BY <1>2, <1>3
<1>5. g[s \ {pick[s]}] = h[s \ {pick[s]}]
  BY <1>2, <1>4
<1>6. g[s] = step[<<pick[s], g[s \ {pick[s]}]>>]
  BY <1>2, <1>3 DEF IsFold
<1>7. h[s] = step[<<pick[s], h[s \ {pick[s]}]>>]
  BY <1>2, <1>3 DEF IsFold
<1> QED
  BY <1>2, <1>5, <1>6, <1>7

(* A loop over finitely many things has a result. *)
LEMMA FoldExists ==
    ASSUME NEW S, IsFiniteSet(S), NEW base, NEW pick, NEW step,
           \A s \in SUBSET S : s # {} => pick[s] \in s
    PROVE  \E g : IsFold(g, S, base, pick, step)
<1> DEFINE F == {T \in SUBSET S : ~ \E g : IsFold(g, T, base, pick, step)}
<1>1. SUFFICES ASSUME F # {} PROVE FALSE
  OBVIOUS
<1>2. PICK T \in F : \A U \in F : U \subseteq T => U = T
  <2>1. F \in SUBSET (SUBSET S)
    OBVIOUS
  <2> HIDE DEF F
  <2> QED
    BY <1>1, <2>1, SmallestSubset
<1> DEFINE of(U) == CHOOSE g : IsFold(g, U, base, pick, step)
           low(s) == of(s)[s]
           g == [s \in SUBSET T |->
                    IF s = {} THEN base
                    ELSE step[<<pick[s], low(s \ {pick[s]})>>]]
<1>3. ASSUME NEW U \in SUBSET T, U # T PROVE IsFold(of(U), U, base, pick, step)
  <2>1. U \notin F /\ U \in SUBSET S
    BY <1>2, <1>3
  <2> QED
    BY <2>1
<1>4. ASSUME NEW s \in SUBSET T, s # T PROVE g[s] = low(s)
  <2>1. CASE s = {}
    BY <1>3, <1>4, <2>1 DEF IsFold
  <2>2. CASE s # {}
    <3> DEFINE r == s \ {pick[s]}
    <3>1. pick[s] \in s /\ r \in SUBSET s /\ r # T
      BY <2>2, <1>2, <1>4
    <3>2. of(s)[s] = step[<<pick[s], of(s)[s \ {pick[s]}]>>]
      <4>1. IsFold(of(s), s, base, pick, step)
        BY <1>3, <1>4
      <4> HIDE DEF of
      <4> QED
        BY <4>1, <2>2 DEF IsFold
    <3>3. of(s)[r] = of(r)[r]
      <4>1. IsFold(of(s), s, base, pick, step) /\ IsFold(of(r), r, base, pick, step)
        BY <1>3, <1>4, <3>1
      <4>2. s \in SUBSET S
        BY <1>2
      <4> HIDE DEF of, r
      <4> QED
        BY <4>1, <4>2, <3>1, FoldsAgree
    <3> QED
      BY <2>2, <3>2, <3>3
  <2> QED
    BY <2>1, <2>2
<1>5. ASSUME NEW s \in SUBSET T, s # {} PROVE g[s] = step[<<pick[s], g[s \ {pick[s]}]>>]
  <2>1. pick[s] \in s
    BY <1>2, <1>5
  <2>2. g[s \ {pick[s]}] = low(s \ {pick[s]})
    BY <2>1, <1>4, <1>5
  <2> QED
    BY <2>2, <1>5
<1>6. IsFold(g, T, base, pick, step)
  <2> HIDE DEF low
  <2>1. g[{}] = base
    OBVIOUS
  <2>2. g = [s \in SUBSET T |->
               IF s = {} THEN base ELSE step[<<pick[s], g[s \ {pick[s]}]>>]]
    <3>1. g = [s \in SUBSET T |-> g[s]]
      OBVIOUS
    <3> HIDE DEF g
    <3> QED
      BY <1>5, <2>1, <3>1
  <2> QED
    BY <2>2 DEF IsFold
<1> QED
  BY <1>2, <1>6

(* A loop keeps its result where every turn of it does. *)
LEMMA FoldStaysIn ==
    ASSUME NEW S, IsFiniteSet(S), NEW V, NEW base \in V, NEW pick, NEW step,
           \A s \in SUBSET S : s # {} => pick[s] \in s,
           \A x \in S, v \in V : step[<<x, v>>] \in V,
           NEW g, IsFold(g, S, base, pick, step)
    PROVE  \A s \in SUBSET S : g[s] \in V
<1> DEFINE F == {s \in SUBSET S : g[s] \notin V}
<1>1. SUFFICES ASSUME F # {} PROVE FALSE
  OBVIOUS
<1>2. PICK s \in F : \A r \in F : r \subseteq s => r = s
  <2>1. F \in SUBSET (SUBSET S)
    OBVIOUS
  <2> HIDE DEF F
  <2> QED
    BY <1>1, <2>1, SmallestSubset
<1>3. s # {} /\ g[s] \notin V
  BY <1>2 DEF IsFold
<1>4. pick[s] \in s /\ pick[s] \in S
  BY <1>2, <1>3
<1>5. g[s \ {pick[s]}] \in V
  BY <1>2, <1>4
<1>6. g[s] = step[<<pick[s], g[s \ {pick[s]}]>>]
  BY <1>2, <1>3 DEF IsFold
<1> QED
  BY <1>3, <1>4, <1>5, <1>6

-----------------------------------------------------------------------------
(* Sums                                                                    *)

(* h is the sum of f over every subset of S. *)
IsSum(h, f, S) ==
    h = [s \in SUBSET S |->
            IF s = {} THEN 0
            ELSE f[CHOOSE x \in s : TRUE] + h[s \ {CHOOSE x \in s : TRUE}]]

SumOf(f, S) == (CHOOSE h : IsSum(h, f, S))[S]

(* A sum, step by step. *)
LEMMA SumTurn ==
    ASSUME NEW h, NEW f, NEW S, IsSum(h, f, S)
    PROVE  /\ h[{}] = 0
           /\ \A s \in SUBSET S : s # {} => \E x \in s :
                 x = (CHOOSE y \in s : TRUE) /\ h[s] = f[x] + h[s \ {x}]
<1>1. h = [s \in SUBSET S |->
            IF s = {} THEN 0
            ELSE f[CHOOSE x \in s : TRUE] + h[s \ {CHOOSE x \in s : TRUE}]]
  BY DEF IsSum
<1>2. h[{}] = 0
  BY <1>1
<1>3. ASSUME NEW s \in SUBSET S, s # {}
      PROVE  \E x \in s : x = (CHOOSE y \in s : TRUE) /\ h[s] = f[x] + h[s \ {x}]
  <2> DEFINE x == CHOOSE y \in s : TRUE
  <2>1. x \in s
    BY <1>3
  <2>2. h[s] = f[x] + h[s \ {x}]
    BY <1>1, <1>3
  <2> QED
    BY <2>1, <2>2
<1> QED
  BY <1>2, <1>3

LEMMA SumExists ==
    ASSUME NEW S, IsFiniteSet(S), NEW f, \A x \in S : f[x] \in Int
    PROVE  \E h : IsSum(h, f, S)
<1> DEFINE pick == [s \in SUBSET S |-> CHOOSE x \in s : TRUE]
           turn == [xv \in S \X Int |-> f[xv[1]] + xv[2]]
<1>1. \A s \in SUBSET S : s # {} => pick[s] \in s /\ pick[s] = CHOOSE x \in s : TRUE
  OBVIOUS
<1>2. \A x \in S, v \in Int : turn[<<x, v>>] = f[x] + v /\ turn[<<x, v>>] \in Int
  OBVIOUS
<1> HIDE DEF pick, turn
<1>3. PICK g : IsFold(g, S, 0, pick, turn)
  BY <1>1, FoldExists
<1>4. \A s \in SUBSET S : g[s] \in Int
  <2>1. \A x \in S, v \in Int : turn[<<x, v>>] \in Int
    BY <1>2
  <2>2. \A s \in SUBSET S : s # {} => pick[s] \in s
    BY <1>1
  <2>3. 0 \in Int
    OBVIOUS
  <2> QED
    BY <1>3, <2>1, <2>2, <2>3, FoldStaysIn
<1>5. ASSUME NEW s \in SUBSET S, s # {}
      PROVE  turn[<<pick[s], g[s \ {pick[s]}]>>] = f[pick[s]] + g[s \ {pick[s]}]
  BY <1>1, <1>2, <1>4, <1>5
<1>6. IsSum(g, f, S)
  BY <1>3, <1>5, <1>1 DEF IsFold, IsSum
<1> QED
  BY <1>6

(* Whichever element is taken out first, the sum is the same. *)
LEMMA SumAnyOrder ==
    ASSUME NEW S, IsFiniteSet(S), NEW f, \A x \in S : f[x] \in Int,
           NEW h, IsSum(h, f, S)
    PROVE  /\ \A s \in SUBSET S : h[s] \in Int
           /\ \A s \in SUBSET S : \A x \in s : h[s] = f[x] + h[s \ {x}]
<1>1. \A s \in SUBSET S : h[s] \in Int
  <2> DEFINE F == {s \in SUBSET S : h[s] \notin Int}
  <2>1. SUFFICES ASSUME F # {} PROVE FALSE
    OBVIOUS
  <2>2. PICK s \in F : \A r \in F : r \subseteq s => r = s
    <3>1. F \in SUBSET (SUBSET S)
      OBVIOUS
    <3> HIDE DEF F
    <3> QED
      BY <2>1, <3>1, SmallestSubset
  <2>3. s # {} /\ h[s] \notin Int /\ s \in SUBSET S
    <3>1. h[{}] \in Int
      BY SumTurn
    <3> QED
      BY <2>2, <3>1
  <2>4. PICK x \in s : h[s] = f[x] + h[s \ {x}]
    BY <2>3, SumTurn
  <2>5. h[s \ {x}] \in Int
    BY <2>2
  <2> QED
    BY <2>3, <2>4, <2>5
<1>2. \A s \in SUBSET S : \A x \in s : h[s] = f[x] + h[s \ {x}]
  <2> DEFINE F == {s \in SUBSET S : \E x \in s : h[s] # f[x] + h[s \ {x}]}
  <2>1. SUFFICES ASSUME F # {} PROVE FALSE
    OBVIOUS
  <2>2. PICK s \in F : \A r \in F : r \subseteq s => r = s
    <3>1. F \in SUBSET (SUBSET S)
      OBVIOUS
    <3> HIDE DEF F
    <3> QED
      BY <2>1, <3>1, SmallestSubset
  <2>3. PICK x \in s : h[s] # f[x] + h[s \ {x}]
    BY <2>2
  <2>4. PICK y \in s : h[s] = f[y] + h[s \ {y}]
    BY <2>2, <2>3, SumTurn
  <2>5. x # y
    BY <2>3, <2>4
  <2>6. /\ s \ {x} \in SUBSET S /\ s \ {y} \in SUBSET S /\ s \ {x} # s /\ s \ {y} # s
        /\ x \in s \ {y} /\ y \in s \ {x}
        /\ (s \ {x}) \ {y} = (s \ {y}) \ {x} /\ (s \ {x}) \ {y} \in SUBSET S
    BY <2>2, <2>5
  <2>7. h[s \ {y}] = f[x] + h[(s \ {y}) \ {x}]
    BY <2>2, <2>6
  <2>8. h[s \ {x}] = f[y] + h[(s \ {x}) \ {y}]
    BY <2>2, <2>6
  <2>9. f[x] \in Int /\ f[y] \in Int /\ h[(s \ {x}) \ {y}] \in Int
    BY <1>1, <2>2, <2>6
  <2>10. h[(s \ {x}) \ {y}] = h[(s \ {y}) \ {x}]
    BY <2>6
  <2>11. h[s] = f[x] + h[s \ {x}]
    <3> HIDE DEF F
    <3> QED
      BY <2>4, <2>7, <2>8, <2>9, <2>10
  <2> QED
    BY <2>3, <2>11
<1> QED
  BY <1>1, <1>2

LEMMA SumsAgree ==
    ASSUME NEW S, IsFiniteSet(S), NEW T \in SUBSET S, NEW f, NEW g, NEW h,
           IsSum(g, f, S), IsSum(h, f, T)
    PROVE  \A s \in SUBSET T : g[s] = h[s]
<1> DEFINE F == {s \in SUBSET T : g[s] # h[s]}
<1>1. SUFFICES ASSUME F # {} PROVE FALSE
  OBVIOUS
<1>2. PICK s \in F : \A r \in F : r \subseteq s => r = s
  <2>1. F \in SUBSET (SUBSET S)
    OBVIOUS
  <2> HIDE DEF F
  <2> QED
    BY <1>1, <2>1, SmallestSubset
<1>3. s # {} /\ s \in SUBSET T /\ s \in SUBSET S /\ g[s] # h[s]
  BY <1>2, SumTurn
<1>4. \E x \in s : x = (CHOOSE y \in s : TRUE) /\ g[s] = f[x] + g[s \ {x}]
  BY <1>3, SumTurn
<1>5. \E x \in s : x = (CHOOSE y \in s : TRUE) /\ h[s] = f[x] + h[s \ {x}]
  BY <1>3, SumTurn
<1>6. PICK x \in s : g[s] = f[x] + g[s \ {x}] /\ h[s] = f[x] + h[s \ {x}]
  BY <1>4, <1>5
<1>7. g[s \ {x}] = h[s \ {x}]
  BY <1>2, <1>3
<1> QED
  BY <1>3, <1>6, <1>7

(* The sum of nothing, of anything, and with one more. *)
LEMMA SumRules ==
    ASSUME NEW S, IsFiniteSet(S), NEW f, \A x \in S : f[x] \in Int
    PROVE  /\ SumOf(f, {}) = 0
           /\ \A T \in SUBSET S : SumOf(f, T) \in Int
           /\ \A T \in SUBSET S : \A x \in T : SumOf(f, T) = f[x] + SumOf(f, T \ {x})
<1>1. PICK h : IsSum(h, f, S)
  BY SumExists
<1>2. ASSUME NEW T \in SUBSET S PROVE SumOf(f, T) = h[T]
  <2>1. IsFiniteSet(T)
    BY FS_Subset
  <2>2. IsSum(CHOOSE g : IsSum(g, f, T), f, T)
    BY <2>1, SumExists
  <2>3. (CHOOSE g : IsSum(g, f, T))[T] = h[T]
    BY <1>1, <2>2, SumsAgree
  <2> QED
    BY <2>3 DEF SumOf
<1>3. h[{}] = 0
  BY <1>1, SumTurn
<1>4. /\ \A s \in SUBSET S : h[s] \in Int
      /\ \A s \in SUBSET S : \A x \in s : h[s] = f[x] + h[s \ {x}]
  BY <1>1, SumAnyOrder
<1> QED
  BY <1>2, <1>3, <1>4

LEMMA SumOfSums ==
    ASSUME NEW S, IsFiniteSet(S), NEW f, NEW g, NEW h,
           \A x \in S : f[x] \in Int /\ g[x] \in Int /\ h[x] = f[x] + g[x]
    PROVE  \A T \in SUBSET S : SumOf(h, T) = SumOf(f, T) + SumOf(g, T)
<1> DEFINE F == {T \in SUBSET S : SumOf(h, T) # SumOf(f, T) + SumOf(g, T)}
<1>1. SUFFICES ASSUME F # {} PROVE FALSE
  OBVIOUS
<1>2. PICK T \in F : \A r \in F : r \subseteq T => r = T
  <2>1. F \in SUBSET (SUBSET S)
    OBVIOUS
  <2> HIDE DEF F
  <2> QED
    BY <1>1, <2>1, SmallestSubset
<1>3. \A x \in S : f[x] \in Int /\ g[x] \in Int /\ h[x] \in Int
  OBVIOUS
<1>4. T # {} /\ T \in SUBSET S
  <2>1. SumOf(h, {}) = SumOf(f, {}) + SumOf(g, {})
    <3>1. SumOf(h, {}) = 0 /\ SumOf(f, {}) = 0 /\ SumOf(g, {}) = 0
      BY <1>3, SumRules
    <3> QED
      BY <3>1
  <2> QED
    BY <1>2, <2>1
<1>5. PICK x \in T : TRUE
  BY <1>4
<1> DEFINE U == T \ {x}
<1>6. SumOf(h, U) = SumOf(f, U) + SumOf(g, U)
  BY <1>2, <1>5
<1>7. /\ SumOf(h, T) = h[x] + SumOf(h, U) /\ SumOf(f, T) = f[x] + SumOf(f, U)
      /\ SumOf(g, T) = g[x] + SumOf(g, U) /\ SumOf(f, U) \in Int /\ SumOf(g, U) \in Int
  <2>1. U \in SUBSET S
    BY <1>4
  <2> QED
    BY <1>3, <1>4, <1>5, <2>1, SumRules
<1>8. f[x] \in Int /\ g[x] \in Int /\ h[x] = f[x] + g[x]
  BY <1>4, <1>5
<1> HIDE DEF U
<1> QED
  BY <1>2, <1>6, <1>7, <1>8

LEMMA SumApart ==
    ASSUME NEW S, IsFiniteSet(S), NEW f, \A x \in S : f[x] \in Int, NEW U \in SUBSET S
    PROVE  \A T \in SUBSET (S \ U) : SumOf(f, T \union U) = SumOf(f, T) + SumOf(f, U)
<1> DEFINE F == {T \in SUBSET (S \ U) : SumOf(f, T \union U) # SumOf(f, T) + SumOf(f, U)}
<1>1. SUFFICES ASSUME F # {} PROVE FALSE
  OBVIOUS
<1>2. PICK T \in F : \A r \in F : r \subseteq T => r = T
  <2>1. F \in SUBSET (SUBSET S)
    OBVIOUS
  <2> HIDE DEF F
  <2> QED
    BY <1>1, <2>1, SmallestSubset
<1>3. SumOf(f, {}) = 0 /\ SumOf(f, U) \in Int
  BY SumRules
<1>4. T # {} /\ T \in SUBSET S
  <2>1. SumOf(f, {} \union U) = SumOf(f, {}) + SumOf(f, U)
    <3>1. {} \union U = U
      OBVIOUS
    <3> QED
      BY <1>3, <3>1
  <2> QED
    BY <1>2, <2>1
<1>5. PICK x \in T : x \notin U /\ x \in S
  BY <1>2, <1>4
<1> DEFINE R == T \ {x}
<1>6. SumOf(f, R \union U) = SumOf(f, R) + SumOf(f, U)
  BY <1>2, <1>5
<1>7. (T \union U) \ {x} = R \union U /\ x \in T \union U /\ T \union U \in SUBSET S
  BY <1>4, <1>5
<1>8. /\ SumOf(f, T) = f[x] + SumOf(f, R)
      /\ SumOf(f, T \union U) = f[x] + SumOf(f, (T \union U) \ {x})
      /\ SumOf(f, R) \in Int
  <2>1. R \in SUBSET S
    BY <1>4
  <2> QED
    BY <1>4, <1>5, <1>7, <2>1, SumRules
<1>9. SumOf(f, T \union U) = f[x] + SumOf(f, R \union U)
  BY <1>7, <1>8
<1> HIDE DEF R
<1> QED
  BY <1>2, <1>3, <1>5, <1>6, <1>8, <1>9

LEMMA SumAtMost ==
    ASSUME NEW S, IsFiniteSet(S), NEW f, NEW c \in Int,
           \A x \in S : f[x] \in Int /\ f[x] <= c
    PROVE  \A T \in SUBSET S : SumOf(f, T) <= c * Cardinality(T)
<1> DEFINE F == {T \in SUBSET S : ~(SumOf(f, T) <= c * Cardinality(T))}
<1>1. SUFFICES ASSUME F # {} PROVE FALSE
  OBVIOUS
<1>2. PICK T \in F : \A r \in F : r \subseteq T => r = T
  <2>1. F \in SUBSET (SUBSET S)
    OBVIOUS
  <2> HIDE DEF F
  <2> QED
    BY <1>1, <2>1, SmallestSubset
<1>3. \A x \in S : f[x] \in Int
  OBVIOUS
<1>4. T # {} /\ T \in SUBSET S
  <2>1. SumOf(f, {}) <= c * Cardinality({})
    <3>1. SumOf(f, {}) = 0 /\ Cardinality({}) = 0 /\ c * 0 = 0
      BY <1>3, SumRules, FS_EmptySet
    <3> QED
      BY <3>1
  <2> QED
    BY <1>2, <2>1
<1>5. PICK x \in T : TRUE
  BY <1>4
<1> DEFINE U == T \ {x}
           n == Cardinality(U)
<1>6. SumOf(f, U) <= c * n
  BY <1>2, <1>5
<1>7. SumOf(f, T) = f[x] + SumOf(f, U) /\ SumOf(f, U) \in Int
  <2>1. U \in SUBSET S
    BY <1>4
  <2> QED
    BY <1>3, <1>4, <1>5, <2>1, SumRules
<1>8. n \in Nat /\ Cardinality(T) = n + 1
  <2>1. IsFiniteSet(T) /\ IsFiniteSet(U) /\ U \union {x} = T /\ x \notin U
    BY <1>4, <1>5, FS_Subset
  <2> HIDE DEF U
  <2>2. Cardinality(U) \in Nat /\ Cardinality(U \union {x}) = Cardinality(U) + 1
    BY <2>1, FS_AddElement, FS_CardinalityType
  <2> QED
    BY <2>1, <2>2
<1>9. f[x] \in Int /\ f[x] <= c
  BY <1>4, <1>5
<1> HIDE DEF n, U
<1>10. c * (n + 1) = c * n + c /\ c * n \in Int
  BY <1>8
<1> QED
  BY <1>2, <1>6, <1>7, <1>8, <1>9, <1>10

(* What is nowhere below zero has no sum below zero, nor does a part of it *)
(* have a greater sum.                                                     *)
LEMMA SumOfNats ==
    ASSUME NEW S, IsFiniteSet(S), NEW f, \A x \in S : f[x] \in Nat
    PROVE  /\ \A T \in SUBSET S : SumOf(f, T) \in Nat
           /\ \A T \in SUBSET S, U \in SUBSET S :
                 U \subseteq T => SumOf(f, U) <= SumOf(f, T)
<1>0. \A x \in S : f[x] \in Int
  OBVIOUS
<1>1. \A T \in SUBSET S : SumOf(f, T) \in Nat
  <2> DEFINE F == {T \in SUBSET S : SumOf(f, T) \notin Nat}
  <2>1. SUFFICES ASSUME F # {} PROVE FALSE
    OBVIOUS
  <2>2. PICK T \in F : \A r \in F : r \subseteq T => r = T
    <3>1. F \in SUBSET (SUBSET S)
      OBVIOUS
    <3> HIDE DEF F
    <3> QED
      BY <2>1, <3>1, SmallestSubset
  <2>3. T # {} /\ T \in SUBSET S
    <3>1. SumOf(f, {}) \in Nat
      BY <1>0, SumRules
    <3> QED
      BY <2>2, <3>1
  <2>4. PICK x \in T : TRUE
    BY <2>3
  <2>5. SumOf(f, T) = f[x] + SumOf(f, T \ {x})
    BY <1>0, <2>3, <2>4, SumRules
  <2>6. SumOf(f, T \ {x}) \in Nat /\ f[x] \in Nat
    BY <2>2, <2>4
  <2> QED
    BY <2>2, <2>5, <2>6
<1>2. ASSUME NEW T \in SUBSET S, NEW U \in SUBSET S, U \subseteq T
      PROVE  SumOf(f, U) <= SumOf(f, T)
  <2> DEFINE V == T \ U
  <2>1. SumOf(f, V \union U) = SumOf(f, V) + SumOf(f, U)
    BY <1>0, SumApart
  <2>2. V \union U = T
    BY <1>2
  <2>3. SumOf(f, V) \in Nat /\ SumOf(f, U) \in Nat
    BY <1>1
  <2>4. SumOf(f, T) = SumOf(f, V) + SumOf(f, U)
    BY <2>1, <2>2
  <2> HIDE DEF V
  <2> QED
    BY <2>3, <2>4
<1> QED
  BY <1>1, <1>2

(* What is nothing elsewhere is what it is on the part S. *)
LEMMA SumOfPart ==
    ASSUME NEW T, IsFiniteSet(T), NEW f, \A x \in T : f[x] \in Int,
           NEW S, \A x \in T \ S : f[x] = 0
    PROVE  SumOf(f, T) = SumOf(f, T \intersect S)
<1> DEFINE R == T \ S
           U == T \intersect S
<1>1. IsFiniteSet(R)
  BY FS_Subset
<1>2. SumOf(f, R \union U) = SumOf(f, R) + SumOf(f, U)
  BY SumApart
<1>3. R \union U = T
  OBVIOUS
<1>4. SumOf(f, R) <= 0
  <2>1. \A x \in R : f[x] \in Int /\ f[x] <= 0
    OBVIOUS
  <2> HIDE DEF R
  <2>2. SumOf(f, R) <= 0 * Cardinality(R)
    BY <1>1, <2>1, SumAtMost
  <2> QED
    BY <1>1, <2>2, FS_CardinalityType
<1>5. SumOf(f, R) \in Nat
  <2>1. \A x \in R : f[x] \in Nat
    OBVIOUS
  <2> HIDE DEF R
  <2> QED
    BY <1>1, <2>1, SumOfNats
<1>6. SumOf(f, U) \in Int
  BY SumRules
<1>7. SumOf(f, T) = SumOf(f, R) + SumOf(f, U)
  BY <1>2, <1>3
<1> HIDE DEF R, U
<1>8. SumOf(f, T) = SumOf(f, U)
  BY <1>4, <1>5, <1>6, <1>7
<1> QED
  BY <1>8 DEF U
=============================================================================
