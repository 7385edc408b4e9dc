--------------------------- MODULE LeaseStoreProofs ---------------------------
(***************************************************************************)
(* Proofs about LeaseStore and LeaseDrivers, for any number of leases,     *)
(* requests and ticks, in each of the three stores.                        *)
(*                                                                         *)
(* TypeCorrect and DeadStaysDeadHolds need no assumption.  The others hold *)
(* when no caller reuses an idempotency key whose row has been deleted     *)
(* (~KeyReuse); the run lease_store_key_reuse shows RowKeepsItsPassword    *)
(* failing without it.                                                     *)
(***************************************************************************)
EXTENDS LeaseDrivers, TLAPS

-----------------------------------------------------------------------------
(* Type correctness                                                        *)

(* A request that is about to write holds the row it will write. *)
Carries ==
    \A r \in Request : pc[r] \in {"creating", "renewing"} => seen[r] # NoRow

TypeInv == TypeOK /\ Carries

(* A fresh lease is a row. *)
LEMMA FreshIsRow ==
    ASSUME TypeOK, NEW r \in Request, NEW ttl \in TTL
    PROVE  Fresh(r, ttl) \in Row
BY StoreAssumption DEF TypeOK, Fresh, Row, Time

(* A refusal is one of the answers a caller may get, and never "ok". *)
LEMMA RefusalIsNotOk ==
    ASSUME NEW x
    PROVE  Refusal(x) \in {"notFound", "revoked", "expired", "stale"}
BY DEF Refusal

(* An UPDATE by a renewal leaves a row behind. *)
LEMMA OverwriteIsRow ==
    ASSUME NEW cur \in Row, NEW new \in Row
    PROVE  Overwrite(cur, new) \in Row
BY DEF Overwrite, Row

(* So do the lease a renewal draws up and the UPDATE by a revoke. *)
LEMMA RenewalIsRow ==
    ASSUME NEW cur \in Row, NEW ttl \in Nat, now \in Nat
    PROVE  Renewal(cur, ttl) \in Row
<1> DEFINE next == [cur EXCEPT !.generation = cur.generation + 1]
<1>1. next \in Row
  BY DEF Row
<1>2. \A x \in Row, t \in Nat : [x EXCEPT !.expires = t] \in Row
  BY DEF Row
<1>3. now + ttl \in Nat
  OBVIOUS
<1> HIDE DEF next
<1>4. [next EXCEPT !.expires = now + ttl] \in Row
  BY <1>1, <1>2, <1>3
<1>5. Renewal(cur, ttl) = [next EXCEPT !.expires = now + ttl]
  BY DEF next, Renewal
<1> QED BY <1>4, <1>5

(* A renewal keeps the identity of the row it has read. *)
LEMMA RenewalFields ==
    ASSUME NEW cur \in Row, NEW ttl
    PROVE  /\ Renewal(cur, ttl).hash = cur.hash
           /\ Renewal(cur, ttl).creator = cur.creator
           /\ Renewal(cur, ttl).generation = cur.generation + 1
BY DEF Renewal, Row

(* An UPDATE by a renewal writes all columns but one. *)
LEMMA OverwriteFields ==
    ASSUME NEW cur \in Row, NEW new \in Row
    PROVE  /\ Overwrite(cur, new).hash = new.hash
           /\ Overwrite(cur, new).creator = cur.creator
           /\ Overwrite(cur, new).generation = new.generation
BY DEF Overwrite, Row

(* A revoke changes one column. *)
LEMMA DeadFields ==
    ASSUME NEW cur \in Row
    PROVE  /\ Dead(cur).hash = cur.hash
           /\ Dead(cur).creator = cur.creator
           /\ Dead(cur).generation = cur.generation
           /\ Dead(cur).revoked = TRUE
BY DEF Dead, Row

LEMMA DeadIsRow ==
    ASSUME NEW cur \in Row
    PROVE  Dead(cur) \in Row
BY DEF Dead, Row

LEMMA TypeInit == Init => TypeInv
BY StoreAssumption DEF Init, TypeInv, TypeOK, Carries, Time

LEMMA TypeStep == TypeInv /\ [Next]_storeVars => TypeInv'
<1> SUFFICES ASSUME TypeInv, [Next]_storeVars PROVE TypeInv'
    OBVIOUS
<1> USE StoreAssumption DEF TypeInv
<1>1. ASSUME NEW r \in Request, CreateBegin(r) PROVE TypeInv'
  BY <1>1, FreshIsRow DEF CreateBegin, Start, Goto, TypeOK, Carries
<1>2. ASSUME NEW r \in Request, CreateInsert(r) PROVE TypeInv'
  BY <1>2 DEF CreateInsert, AnswerWrite, Answer, TypeOK, Carries
<1>3. ASSUME NEW r \in Request, CreateDuplicate(r) PROVE TypeInv'
  BY <1>3 DEF CreateDuplicate, Goto, TypeOK, Carries
<1>4. ASSUME NEW r \in Request, CreateReplay(r) PROVE TypeInv'
  BY <1>4 DEF CreateReplay, Answer, TypeOK, Carries
<1>5. ASSUME NEW r \in Request, RenewRead(r) PROVE TypeInv'
  <2>1. row[target[r]] \in Row
    BY <1>5 DEF RenewRead, Live, TypeOK
  <2>2. PICK ttl \in TTL : seen' = [seen EXCEPT ![r] = Renewal(row[target[r]], ttl)]
    BY <1>5 DEF RenewRead
  <2>3. Renewal(row[target[r]], ttl) \in Row
    BY <2>1, RenewalIsRow DEF TypeOK, Time
  <2> QED BY <1>5, <2>2, <2>3 DEF RenewRead, Start, Goto, TypeOK, Carries
<1>6. ASSUME NEW r \in Request, RenewRefused(r) \/ RenewClassify(r) PROVE TypeInv'
  BY <1>6, RefusalIsNotOk
     DEF RenewRefused, RenewClassify, Answer, TypeOK, Carries
<1>7. ASSUME NEW r \in Request, RenewNoPolicy(r) PROVE TypeInv'
  BY <1>7 DEF RenewNoPolicy, Answer, TypeOK, Carries
<1>8. ASSUME NEW r \in Request, RenewWrite(r) PROVE TypeInv'
  <2>1. row[target[r]] \in Row /\ seen[r] \in Row
    BY <1>8 DEF RenewWrite, Matches, Live, TypeOK, Carries
  <2>2. Overwrite(row[target[r]], seen[r]) \in Row
    BY <2>1, OverwriteIsRow
  <2> QED BY <1>8, <2>2 DEF RenewWrite, AnswerWrite, Answer, TypeOK, Carries
<1>9. ASSUME NEW r \in Request, RenewConflict(r) PROVE TypeInv'
  BY <1>9 DEF RenewConflict, Goto, TypeOK, Carries
<1>10. ASSUME NEW r \in Request, RevokeUpdate(r) PROVE TypeInv'
  <2>1. Dead(row[target[r]]) \in Row
    BY <1>10, DeadIsRow DEF RevokeUpdate, Exists, TypeOK
  <2> QED BY <1>10, <2>1 DEF RevokeUpdate, AnswerWrite, Answer, TypeOK, Carries
<1>11. ASSUME NEW r \in Request, RevokeMiss(r) PROVE TypeInv'
  BY <1>11 DEF RevokeMiss, Goto, TypeOK, Carries
<1>12. ASSUME NEW r \in Request, RevokeConfirm(r) PROVE TypeInv'
  BY <1>12 DEF RevokeConfirm, Answer, TypeOK, Carries
<1>13. ASSUME NEW r \in Request, Abandon(r) PROVE TypeInv'
  BY <1>13 DEF Abandon, Answer, TypeOK, Carries
<1>14. CASE DeleteExpiredLeasesBatch
  BY <1>14 DEF DeleteExpiredLeasesBatch, Deletable, TypeOK, Carries
<1>15. CASE Tick
  BY <1>15 DEF Tick, TypeOK, Carries, Time
<1>16. CASE UNCHANGED storeVars
  BY <1>16 DEF storeVars, TypeOK, Carries
<1> QED
  BY <1>1, <1>2, <1>3, <1>4, <1>5, <1>6, <1>7, <1>8, <1>9, <1>10, <1>11,
     <1>12, <1>13, <1>14, <1>15, <1>16
     DEF Next, Create, Renew, Revoke

(* Every variable keeps its type in every behaviour of the store. *)
THEOREM TypeCorrect == Spec => []TypeOK
<1>1. Spec => []TypeInv
  BY TypeInit, TypeStep, PTL DEF Spec
<1>2. TypeInv => TypeOK
  BY DEF TypeInv
<1> QED BY <1>1, <1>2, PTL
-----------------------------------------------------------------------------
(* Dead rows                                                               *)

(* A revoked or expired row is only ever deleted or marked revoked: the    *)
(* WHERE clause of UpdateLease keeps a late renewal away from it.          *)
THEOREM DeadStaysDeadHolds == Spec => DeadStaysDead
<1> DEFINE Stays == \A l \in Lease :
             Exists(l) /\ ~Live(row[l]) => row'[l] \in {NoRow, row[l], Dead(row[l])}
<1>1. TypeInv /\ [Next]_storeVars => Stays
  <2> SUFFICES ASSUME TypeInv, [Next]_storeVars,
                      NEW l \in Lease, Exists(l), ~Live(row[l])
               PROVE  row'[l] \in {NoRow, row[l], Dead(row[l])}
    OBVIOUS
  <2>1. CASE UNCHANGED row
    BY <2>1
  <2>2. ASSUME NEW r \in Request, CreateInsert(r)
        PROVE  row'[l] \in {NoRow, row[l], Dead(row[l])}
    BY <2>2 DEF CreateInsert, TypeInv, TypeOK
  <2>3. ASSUME NEW r \in Request, RenewWrite(r)
        PROVE  row'[l] \in {NoRow, row[l], Dead(row[l])}
    BY <2>3 DEF RenewWrite, Matches, TypeInv, TypeOK
  <2>4. ASSUME NEW r \in Request, RevokeUpdate(r)
        PROVE  row'[l] \in {NoRow, row[l], Dead(row[l])}
    BY <2>4 DEF RevokeUpdate, TypeInv, TypeOK
  <2>5. CASE DeleteExpiredLeasesBatch
    BY <2>5 DEF DeleteExpiredLeasesBatch
  <2> QED
    BY <2>1, <2>2, <2>3, <2>4, <2>5
       DEF Next, Create, Renew, Revoke, CreateBegin, CreateDuplicate,
           CreateReplay, RenewRead, RenewRefused, RenewNoPolicy, RenewConflict,
           RenewClassify, RevokeMiss, RevokeConfirm, Abandon, Tick, storeVars
<1>2. Spec => []TypeInv
  BY TypeInit, TypeStep, PTL DEF Spec
<1> QED BY <1>1, <1>2, PTL DEF Spec, DeadStaysDead

-----------------------------------------------------------------------------
(* The identity of a row.                                                  *)
(*                                                                         *)
(* None of the three invariants below is inductive as it stands: a row is  *)
(* written from an image that was read, or a password that was drawn, long *)
(* before.  IInv says what such a late writer knows.  Its heart is that a  *)
(* lease whose row is deleted never gets another one, so an image that is  *)
(* still about belongs to the row that is there, or to no row.             *)

(* Where a request may be, by the operation it performs. *)
Roles ==
    \A r \in Request :
        /\ pc[r] \in {"creating", "replaying"} => Kind[r] = "create"
        /\ pc[r] \in {"renewing", "classifying"} => Kind[r] = "renew"
        /\ pc[r] = "confirming" => Kind[r] = "revoke"
        /\ result[r] # "none" => pc[r] = "done"

(* The lease has, or has had, its row. *)
Known(l) == Exists(l) \/ l \in retired

(* A deleted lease stays deleted. *)
RetiredIsGone == \A l \in retired : ~Exists(l)

(* A row holds the password of the request that inserted it, which is done. *)
Provenance ==
    /\ RowKeepsItsPassword
    /\ \A l \in Lease : Exists(l) => pc[row[l].creator] = "done"
    /\ \A r \in Request :
          pc[r] = "creating" => seen[r].hash = r /\ seen[r].creator = r

(* A renewal in flight read the row that is there, if one is. *)
RenewsThisRow ==
    \A r \in Request : pc[r] = "renewing" =>
        /\ Known(target[r])
        /\ seen[r].hash = seen[r].creator
        /\ Exists(target[r]) => row[target[r]].creator = seen[r].creator

(* Whoever was handed a password or renewed a lease left a row behind. *)
OwnersAreKnown ==
    \A r \in Request : GivenPassword(r) \/ Renewed(r) =>
        Known(target[r]) /\ seen[r] # NoRow

(* A revoke that changed nothing met a revoked row or a deleted one. *)
ConfirmsRevoked ==
    \A r \in Request : pc[r] = "confirming" =>
        \/ target[r] \in retired
        \/ Exists(target[r]) /\ row[target[r]].revoked

IInv ==
    /\ TypeInv /\ Roles /\ RetiredIsGone /\ Provenance /\ RenewsThisRow
    /\ OwnersAreKnown /\ ConfirmsRevoked /\ OnePassword /\ NoSilentOverwrite

LEMMA IInvInit == Init => IInv
BY TypeInit, StoreAssumption
   DEF Init, IInv, Roles, RetiredIsGone, Provenance, RowKeepsItsPassword,
       RenewsThisRow, OwnersAreKnown, ConfirmsRevoked, OnePassword,
       NoSilentOverwrite, GivenPassword, Renewed, Exists

(* The steps that leave every row alone and answer nobody with ok. *)
Idle(r) ==
    \/ CreateBegin(r) \/ CreateDuplicate(r) \/ RenewRead(r) \/ RenewRefused(r)
    \/ RenewNoPolicy(r) \/ RenewConflict(r) \/ RenewClassify(r)
    \/ RevokeMiss(r) \/ Abandon(r)

(* What all of them have in common. *)
LEMMA IdleStep ==
    ASSUME IInv, NEW r \in Request, Idle(r)
    PROVE  /\ UNCHANGED <<now, row, retired, target>>
           /\ \A q \in Request : q # r =>
                 pc'[q] = pc[q] /\ seen'[q] = seen[q] /\ result'[q] = result[q]
           /\ result[r] = "none" /\ pc[r] # "done"
           /\ result'[r] # "ok"
           /\ pc'[r] \in {"creating", "replaying", "renewing", "classifying",
                          "confirming", "done"}
           /\ result'[r] # "none" => pc'[r] = "done"
<1>1. result[r] = "none"
  BY DEF Idle, CreateBegin, CreateDuplicate, RenewRead, RenewRefused,
     RenewNoPolicy, RenewConflict, RenewClassify, RevokeMiss, Abandon, Start,
     IInv, Roles
<1>2. Refusal(row[target[r]]) \in {"notFound", "revoked", "expired", "stale"}
  BY RefusalIsNotOk
<1> QED
  BY <1>1, <1>2
     DEF Idle, CreateBegin, CreateDuplicate, RenewRead, RenewRefused,
         RenewNoPolicy, RenewConflict, RenewClassify, RevokeMiss, Abandon,
         Start, Goto, Answer, IInv, TypeInv, TypeOK

LEMMA IdlePreserves ==
    ASSUME IInv, NEW r \in Request, Idle(r), TypeInv'
    PROVE  IInv'
<1> USE DEF IInv, TypeInv
<1>1. Roles'
  BY IdleStep
     DEF Roles, Idle, CreateBegin, CreateDuplicate, RenewRead, RenewRefused,
         RenewNoPolicy, RenewConflict, RenewClassify, RevokeMiss, Abandon,
         Start, Goto, Answer, TypeOK
<1>2. RetiredIsGone'
  BY IdleStep DEF RetiredIsGone, Exists
<1>3. Provenance'
  BY IdleStep
     DEF Provenance, RowKeepsItsPassword, Exists, Idle, CreateBegin, Fresh,
         CreateDuplicate, RenewRead, RenewRefused, RenewNoPolicy, RenewConflict,
         RenewClassify, RevokeMiss, Abandon, Start, Goto, Answer, TypeOK, Row
<1>4. RenewsThisRow'
  <2>1. CASE RenewRead(r)
    <3>1. /\ row[target[r]] \in Row
          /\ Exists(target[r])
      BY <2>1 DEF RenewRead, Live, Exists, TypeOK
    <3>2. /\ seen'[r].hash = row[target[r]].hash
          /\ seen'[r].creator = row[target[r]].creator
      <4>1. PICK ttl \in TTL : seen' = [seen EXCEPT ![r] = Renewal(row[target[r]], ttl)]
        BY <2>1 DEF RenewRead
      <4> QED BY <4>1, <3>1, RenewalFields DEF TypeOK
    <3>3. row[target[r]].hash = row[target[r]].creator
      BY <3>1 DEF Provenance, RowKeepsItsPassword, TypeOK
    <3> QED
      BY IdleStep, <3>1, <3>2, <3>3 DEF RenewsThisRow, Known, Exists, TypeOK
  <2>2. CASE ~RenewRead(r)
    <3>1. pc'[r] # "renewing"
      BY <2>2 DEF Idle, CreateBegin, CreateDuplicate, RenewRefused,
         RenewNoPolicy, RenewConflict, RenewClassify, RevokeMiss, Abandon,
         Goto, Answer, TypeOK
    <3> QED BY IdleStep, <3>1 DEF RenewsThisRow, Known, Exists
  <2> QED BY <2>1, <2>2
<1>5. OwnersAreKnown'
  BY IdleStep DEF OwnersAreKnown, GivenPassword, Renewed, Known, Exists
<1>6. ConfirmsRevoked'
  BY IdleStep
     DEF ConfirmsRevoked, Exists, Idle, CreateBegin, CreateDuplicate, RenewRead,
         RenewRefused, RenewNoPolicy, RenewConflict, RenewClassify, RevokeMiss,
         Abandon, Start, Goto, Answer, TypeOK
<1>7. OnePassword'
  BY IdleStep DEF OnePassword, GivenPassword
<1>8. NoSilentOverwrite'
  BY IdleStep DEF NoSilentOverwrite, Renewed, Exists
<1> QED BY <1>1, <1>2, <1>3, <1>4, <1>5, <1>6, <1>7, <1>8

(* The INSERT gives the lease its first row: it had none, and nobody holds  *)
(* an image of it.                                                         *)
LEMMA InsertPreserves ==
    ASSUME ~KeyReuse, IInv, NEW r \in Request, CreateInsert(r), TypeInv'
    PROVE  IInv'
<1> DEFINE l == target[r]
<1> USE DEF IInv, TypeInv
<1>1. /\ pc[r] = "creating" /\ l \in Lease /\ seen[r] \in Row
      /\ ~Known(l)
      /\ row' = [row EXCEPT ![l] = seen[r]]
      /\ pc' = [pc EXCEPT ![r] = "done"]
      /\ result' = [result EXCEPT ![r] = result'[r]] /\ result'[r] \in {"ok", "none"}
      /\ UNCHANGED <<now, retired, target, seen>>
  BY DEF CreateInsert, AnswerWrite, Answer, Known, TypeOK, Carries
<1>2. seen[r].hash = r /\ seen[r].creator = r /\ Kind[r] = "create"
  BY <1>1 DEF Provenance, Roles
<1>3. row'[l] = seen[r] /\ \A k \in Lease : k # l => row'[k] = row[k]
  BY <1>1 DEF TypeOK
<1>4. Exists(l)' /\ \A k \in Lease : k # l => (Exists(k)' <=> Exists(k))
  BY <1>1, <1>3, StoreAssumption DEF Exists
<1>5. \A q \in Request : q # r => pc'[q] = pc[q] /\ result'[q] = result[q]
  BY <1>1 DEF TypeOK
<1>6. \A q \in Request : target[q] = l => ~GivenPassword(q) /\ ~Renewed(q) /\ pc[q] # "renewing"
  BY <1>1 DEF OwnersAreKnown, RenewsThisRow
<1> HIDE DEF l
<1>7. Roles'
  BY <1>1, <1>5 DEF Roles, TypeOK
<1>8. RetiredIsGone'
  BY <1>1, <1>4 DEF RetiredIsGone, Known, TypeOK
<1>9. Provenance'
  BY <1>1, <1>2, <1>3, <1>4, <1>5
     DEF Provenance, RowKeepsItsPassword, TypeOK, Row, Exists
<1>10. RenewsThisRow'
  BY <1>1, <1>3, <1>4, <1>5, <1>6 DEF RenewsThisRow, Known, TypeOK
<1>11. OwnersAreKnown'
  BY <1>1, <1>2, <1>4, <1>5, StoreAssumption
     DEF OwnersAreKnown, GivenPassword, Renewed, Known, TypeOK, l
<1>12. ConfirmsRevoked'
  BY <1>1, <1>3, <1>4, <1>5 DEF ConfirmsRevoked, Known, TypeOK
<1>13. OnePassword'
  BY <1>1, <1>5, <1>6 DEF OnePassword, GivenPassword, l
<1>14. NoSilentOverwrite'
  BY <1>1, <1>2, <1>3, <1>4, <1>5, <1>6
     DEF NoSilentOverwrite, Renewed, TypeOK, l
<1> QED BY <1>7, <1>8, <1>9, <1>10, <1>11, <1>12, <1>13, <1>14

(* A replay answers with a row some other request inserted. *)
LEMMA ReplayPreserves ==
    ASSUME IInv, NEW r \in Request, CreateReplay(r), TypeInv'
    PROVE  IInv'
<1> USE DEF IInv, TypeInv
<1>1. /\ pc[r] = "replaying" /\ Kind[r] = "create" /\ target[r] \in Lease
      /\ pc' = [pc EXCEPT ![r] = "done"]
      /\ seen' = [seen EXCEPT ![r] = row[target[r]]]
      /\ UNCHANGED <<now, row, retired, target>>
  BY DEF CreateReplay, Answer, Roles, TypeOK
<1>2. \A q \in Request : q # r =>
         pc'[q] = pc[q] /\ seen'[q] = seen[q] /\ result'[q] = result[q]
  BY <1>1 DEF CreateReplay, Answer, TypeOK
<1>3. result'[r] = "ok" => Exists(target[r]) /\ seen'[r] = row[target[r]]
  BY <1>1 DEF CreateReplay, Answer, TypeOK
<1>4. ~GivenPassword(r)'
  <2>1. Exists(target[r]) => row[target[r]].hash # r
    BY <1>1 DEF Provenance, RowKeepsItsPassword
  <2> QED BY <1>3, <2>1 DEF GivenPassword
<1>5. ~Renewed(r)'
  BY <1>1 DEF Renewed
<1>6. Roles'
  BY <1>1, <1>2 DEF Roles, TypeOK
<1>7. RetiredIsGone'
  BY <1>1 DEF RetiredIsGone, Exists
<1>8. Provenance'
  BY <1>1, <1>2 DEF Provenance, RowKeepsItsPassword, Exists, TypeOK, Row
<1>9. RenewsThisRow'
  BY <1>1, <1>2 DEF RenewsThisRow, Known, Exists, TypeOK
<1>10. OwnersAreKnown'
  BY <1>1, <1>2, <1>4, <1>5
     DEF OwnersAreKnown, GivenPassword, Renewed, Known, Exists
<1>11. ConfirmsRevoked'
  BY <1>1, <1>2 DEF ConfirmsRevoked, Exists, TypeOK
<1>12. OnePassword'
  BY <1>1, <1>2, <1>4 DEF OnePassword, GivenPassword
<1>13. NoSilentOverwrite'
  BY <1>1, <1>2, <1>5 DEF NoSilentOverwrite, Renewed, Exists
<1> QED BY <1>6, <1>7, <1>8, <1>9, <1>10, <1>11, <1>12, <1>13

(* The UPDATE of a renewal lands on the row the renewal has read, and its   *)
(* generation is above that of every renewal that was answered before.     *)
LEMMA RenewWritePreserves ==
    ASSUME IInv, NEW r \in Request, RenewWrite(r), TypeInv'
    PROVE  IInv'
<1> DEFINE l == target[r]
           new == Overwrite(row[l], seen[r])
<1> USE DEF IInv, TypeInv
<1>1. /\ pc[r] = "renewing" /\ l \in Lease
      /\ seen[r] \in Row /\ row[l] \in Row /\ Exists(l)
      /\ row[l].generation = seen[r].generation - 1
      /\ row' = [row EXCEPT ![l] = new]
      /\ pc' = [pc EXCEPT ![r] = "done"]
      /\ result' = [result EXCEPT ![r] = result'[r]] /\ result'[r] \in {"ok", "none"}
      /\ UNCHANGED <<now, retired, target, seen>>
  BY DEF RenewWrite, Matches, Live, AnswerWrite, Answer, Exists, TypeOK, Carries
<1>2. /\ new \in Row
      /\ new.hash = seen[r].hash
      /\ new.creator = row[l].creator
      /\ new.generation = seen[r].generation
  BY <1>1, OverwriteIsRow, OverwriteFields
<1>3. Kind[r] = "renew" /\ seen[r].hash = row[l].creator
  BY <1>1 DEF Roles, RenewsThisRow
<1>4. row'[l] = new /\ \A k \in Lease : k # l => row'[k] = row[k]
  BY <1>1 DEF TypeOK
<1>5. \A k \in Lease : Exists(k)' <=> Exists(k)
  BY <1>1, <1>2, <1>4, StoreAssumption DEF Exists
<1>6. \A q \in Request : q # r => pc'[q] = pc[q] /\ result'[q] = result[q]
  BY <1>1 DEF TypeOK
<1> HIDE DEF l, new
<1>7. Roles'
  BY <1>1, <1>6 DEF Roles, TypeOK
<1>8. RetiredIsGone'
  BY <1>1, <1>5 DEF RetiredIsGone, TypeOK
<1>9. Provenance'
  <2>1. \A k \in Lease : Exists(k)' =>
           row'[k].hash = row'[k].creator /\ row'[k].creator = row[k].creator
    BY <1>1, <1>2, <1>3, <1>4, <1>5 DEF Provenance, RowKeepsItsPassword
  <2>2. \A k \in Lease : Exists(k)' => pc'[row'[k].creator] = "done"
    <3> SUFFICES ASSUME NEW k \in Lease, Exists(k)' PROVE pc'[row[k].creator] = "done"
      BY <2>1
    <3>1. row[k].creator \in Request
      BY <1>5 DEF Exists, TypeOK, Row
    <3> QED BY <1>1, <1>5, <1>6, <3>1 DEF Provenance, TypeOK
  <2> QED BY <1>1, <1>6, <2>1, <2>2 DEF Provenance, RowKeepsItsPassword, TypeOK
<1>10. RenewsThisRow'
  BY <1>1, <1>2, <1>4, <1>5, <1>6 DEF RenewsThisRow, Known, TypeOK
<1>11. OwnersAreKnown'
  BY <1>1, <1>3, <1>5, <1>6, StoreAssumption
     DEF OwnersAreKnown, GivenPassword, Renewed, Known, TypeOK, l
<1>12. ConfirmsRevoked'
  <2>1. ~row[l].revoked
    BY DEF RenewWrite, Matches, Live, l
  <2>2. \A q \in Request : pc[q] = "confirming" /\ target[q] = l => l \in retired
    BY <2>1 DEF ConfirmsRevoked
  <2> QED BY <1>1, <1>4, <1>5, <1>6, <2>2 DEF ConfirmsRevoked, TypeOK
<1>13. OnePassword'
  BY <1>1, <1>3, <1>6 DEF OnePassword, GivenPassword
<1>14. NoSilentOverwrite'
  <2>1. \A q \in Request : q # r => (Renewed(q)' <=> Renewed(q))
    BY <1>6 DEF Renewed
  <2>2. \A q \in Request : q # r /\ Renewed(q) /\ target[q] = l =>
           seen[q].generation < seen[r].generation
    <3> SUFFICES ASSUME NEW q \in Request, q # r, Renewed(q), target[q] = l
                 PROVE  seen[q].generation < seen[r].generation
      OBVIOUS
    <3>1. seen[q] \in Row
      BY DEF OwnersAreKnown, TypeOK
    <3>2. seen[q].generation <= row[l].generation
      BY <1>1 DEF NoSilentOverwrite
    <3> QED BY <1>1, <3>1, <3>2 DEF Row
  <2>3. seen[r].generation \in Nat
    BY <1>1 DEF Row
  <2>4. \A r1, r2 \in Request :
           /\ Renewed(r1)' /\ Renewed(r2)' /\ target[r1] = target[r2]
           /\ seen[r1].generation = seen[r2].generation
           => r1 = r2
    <3> SUFFICES ASSUME NEW r1 \in Request, NEW r2 \in Request,
                        Renewed(r1)', Renewed(r2)', target[r1] = target[r2],
                        seen[r1].generation = seen[r2].generation, r1 # r2
                 PROVE  FALSE
      OBVIOUS
    <3>1. CASE r1 = r
      BY <2>1, <2>2, <2>3, <3>1 DEF l
    <3>2. CASE r2 = r
      BY <2>1, <2>2, <2>3, <3>2 DEF l
    <3>3. CASE r1 # r /\ r2 # r
      BY <2>1, <3>3 DEF NoSilentOverwrite
    <3> QED BY <3>1, <3>2, <3>3
  <2>5. \A q \in Request : Renewed(q)' /\ Exists(target[q])' =>
           seen[q].generation <= row'[target[q]].generation
    <3> SUFFICES ASSUME NEW q \in Request, Renewed(q)', Exists(target[q])'
                 PROVE  seen[q].generation <= row'[target[q]].generation
      OBVIOUS
    <3>1. CASE q = r
      BY <1>2, <1>4, <2>3, <3>1 DEF l
    <3>2. CASE q # r /\ target[q] = l
      <4>1. seen[q].generation < seen[r].generation
        BY <2>1, <2>2, <3>2
      <4>2. seen[q] \in Row
        BY <2>1, <3>2 DEF OwnersAreKnown, TypeOK
      <4> QED BY <1>2, <1>4, <2>3, <3>2, <4>1, <4>2 DEF Row
    <3>3. CASE q # r /\ target[q] # l
      <4>1. target[q] \in Lease
        BY DEF TypeOK
      <4> QED BY <1>1, <1>4, <1>5, <2>1, <3>3, <4>1 DEF NoSilentOverwrite
    <3> QED BY <3>1, <3>2, <3>3
  <2> QED BY <1>1, <2>4, <2>5 DEF NoSilentOverwrite
<1> QED BY <1>7, <1>8, <1>9, <1>10, <1>11, <1>12, <1>13, <1>14

(* A revoke changes one column, which no other part of IInv but            *)
(* ConfirmsRevoked looks at, and changes it the right way.                 *)
LEMMA RevokeUpdatePreserves ==
    ASSUME IInv, NEW r \in Request, RevokeUpdate(r), TypeInv'
    PROVE  IInv'
<1> DEFINE l == target[r]
<1> USE DEF IInv, TypeInv
<1>1. /\ pc[r] = "ready" /\ Kind[r] = "revoke" /\ l \in Lease
      /\ row[l] \in Row /\ Exists(l)
      /\ row' = [row EXCEPT ![l] = Dead(row[l])]
      /\ pc' = [pc EXCEPT ![r] = "done"]
      /\ result' = [result EXCEPT ![r] = result'[r]] /\ result'[r] \in {"ok", "none"}
      /\ UNCHANGED <<now, retired, target, seen>>
  BY DEF RevokeUpdate, Start, AnswerWrite, Answer, Exists, TypeOK
<1>2. /\ Dead(row[l]) \in Row
      /\ Dead(row[l]).hash = row[l].hash
      /\ Dead(row[l]).creator = row[l].creator
      /\ Dead(row[l]).generation = row[l].generation
      /\ Dead(row[l]).revoked = TRUE
  BY <1>1, DeadIsRow, DeadFields
<1>3. row'[l] = Dead(row[l]) /\ \A k \in Lease : k # l => row'[k] = row[k]
  BY <1>1 DEF TypeOK
<1>4. \A k \in Lease : /\ Exists(k)' <=> Exists(k)
                       /\ row'[k].hash = row[k].hash
                       /\ row'[k].creator = row[k].creator
                       /\ row'[k].generation = row[k].generation
  BY <1>1, <1>2, <1>3, StoreAssumption DEF Exists
<1>5. \A q \in Request : q # r => pc'[q] = pc[q] /\ result'[q] = result[q]
  BY <1>1 DEF TypeOK
<1>6. \A q \in Request : /\ GivenPassword(q)' <=> GivenPassword(q)
                         /\ Renewed(q)' <=> Renewed(q)
  BY <1>1, <1>5 DEF GivenPassword, Renewed, Roles
<1> HIDE DEF l
<1>7. Roles'
  BY <1>1, <1>5 DEF Roles, TypeOK
<1>8. RetiredIsGone'
  BY <1>1, <1>4 DEF RetiredIsGone, TypeOK
<1>9. Provenance'
  <2>1. \A k \in Lease : Exists(k) => row[k].creator \in Request
    BY DEF Exists, TypeOK, Row
  <2> QED BY <1>1, <1>4, <1>5, <2>1 DEF Provenance, RowKeepsItsPassword, TypeOK
<1>10. RenewsThisRow'
  BY <1>1, <1>4, <1>5 DEF RenewsThisRow, Known, TypeOK
<1>11. OwnersAreKnown'
  BY <1>1, <1>4, <1>6 DEF OwnersAreKnown, Known, TypeOK
<1>12. ConfirmsRevoked'
  BY <1>1, <1>2, <1>3, <1>4, <1>5 DEF ConfirmsRevoked, TypeOK
<1>13. OnePassword'
  BY <1>1, <1>6 DEF OnePassword
<1>14. NoSilentOverwrite'
  BY <1>1, <1>4, <1>6 DEF NoSilentOverwrite, TypeOK
<1> QED BY <1>7, <1>8, <1>9, <1>10, <1>11, <1>12, <1>13, <1>14

(* The second SELECT of a revoke changes nothing but the request. *)
LEMMA RevokeConfirmPreserves ==
    ASSUME IInv, NEW r \in Request, RevokeConfirm(r), TypeInv'
    PROVE  IInv'
<1> USE DEF IInv, TypeInv
<1>1. /\ pc[r] = "confirming" /\ Kind[r] = "revoke"
      /\ pc' = [pc EXCEPT ![r] = "done"]
      /\ UNCHANGED <<now, row, retired, target, seen>>
      /\ \A q \in Request : q # r => pc'[q] = pc[q] /\ result'[q] = result[q]
  BY DEF RevokeConfirm, Answer, Roles, TypeOK
<1>2. \A q \in Request : /\ GivenPassword(q)' => GivenPassword(q)
                         /\ Renewed(q)' => Renewed(q)
  BY <1>1 DEF GivenPassword, Renewed
<1>3. \A l \in Lease : Exists(l)' <=> Exists(l)
  BY <1>1 DEF Exists
<1>4. Roles'
  BY <1>1 DEF Roles, TypeOK
<1>5. RetiredIsGone' /\ Provenance' /\ RenewsThisRow'
  BY <1>1, <1>3
     DEF RetiredIsGone, Provenance, RowKeepsItsPassword, RenewsThisRow, Known,
         Exists, TypeOK, Row
<1>6. OwnersAreKnown' /\ ConfirmsRevoked'
  BY <1>1, <1>2, <1>3 DEF OwnersAreKnown, ConfirmsRevoked, Known, Exists, TypeOK
<1>7. OnePassword' /\ NoSilentOverwrite'
  BY <1>1, <1>2, <1>3 DEF OnePassword, NoSilentOverwrite, Exists, TypeOK
<1> QED BY <1>4, <1>5, <1>6, <1>7

(* The maintenance job turns rows into retired leases. *)
LEMMA DeletePreserves ==
    ASSUME IInv, DeleteExpiredLeasesBatch, TypeInv'
    PROVE  IInv'
<1> USE DEF IInv, TypeInv
<1>1. PICK batch \in SUBSET Deletable :
         /\ row' = [l \in Lease |-> IF l \in batch THEN NoRow ELSE row[l]]
         /\ retired' = retired \union batch
         /\ UNCHANGED <<now, pc, target, seen, result>>
  BY DEF DeleteExpiredLeasesBatch
<1>2. \A l \in Lease : /\ Exists(l)' => Exists(l) /\ row'[l] = row[l]
                       /\ Exists(l) /\ l \notin retired' => Exists(l)'
                       /\ Known(l) => Known(l)'
                       /\ l \in retired => l \in retired'
                       /\ l \in retired' => ~Exists(l)'
  BY <1>1 DEF RetiredIsGone, Known, Exists, Deletable, TypeOK
<1>3. \A q \in Request : /\ GivenPassword(q)' <=> GivenPassword(q)
                         /\ Renewed(q)' <=> Renewed(q)
  BY <1>1 DEF GivenPassword, Renewed
<1>4. Roles' /\ RetiredIsGone'
  BY <1>1, <1>2 DEF Roles, RetiredIsGone, TypeOK
<1>5. Provenance' /\ RenewsThisRow'
  BY <1>1, <1>2
     DEF Provenance, RowKeepsItsPassword, RenewsThisRow, TypeOK
<1>6. OwnersAreKnown'
  BY <1>1, <1>2, <1>3 DEF OwnersAreKnown, TypeOK
<1>7. ConfirmsRevoked'
  BY <1>1, <1>2 DEF ConfirmsRevoked, TypeOK
<1>8. OnePassword' /\ NoSilentOverwrite'
  BY <1>1, <1>2, <1>3 DEF OnePassword, NoSilentOverwrite, TypeOK
<1> QED BY <1>4, <1>5, <1>6, <1>7, <1>8

LEMMA IInvStep == ASSUME ~KeyReuse PROVE IInv /\ [Next]_storeVars => IInv'
<1> SUFFICES ASSUME ~KeyReuse, IInv, [Next]_storeVars PROVE IInv'
    OBVIOUS
<1>1. TypeInv'
  BY TypeStep DEF IInv
<1>2. ASSUME NEW r \in Request, Idle(r) PROVE IInv'
  BY <1>1, <1>2, IdlePreserves
<1>3. ASSUME NEW r \in Request, CreateInsert(r) PROVE IInv'
  BY <1>1, <1>3, InsertPreserves
<1>4. ASSUME NEW r \in Request, CreateReplay(r) PROVE IInv'
  BY <1>1, <1>4, ReplayPreserves
<1>5. ASSUME NEW r \in Request, RenewWrite(r) PROVE IInv'
  BY <1>1, <1>5, RenewWritePreserves
<1>6. ASSUME NEW r \in Request, RevokeUpdate(r) PROVE IInv'
  BY <1>1, <1>6, RevokeUpdatePreserves
<1>7. ASSUME NEW r \in Request, RevokeConfirm(r) PROVE IInv'
  BY <1>1, <1>7, RevokeConfirmPreserves
<1>8. CASE DeleteExpiredLeasesBatch
  BY <1>1, <1>8, DeletePreserves
<1>9. CASE Tick \/ UNCHANGED storeVars
  <2>1. UNCHANGED <<row, retired, pc, target, seen, result>>
    BY <1>9 DEF Tick, storeVars
  <2> QED
    BY <1>1, <2>1
       DEF IInv, Roles, RetiredIsGone, Provenance, RowKeepsItsPassword,
           RenewsThisRow, OwnersAreKnown, ConfirmsRevoked, OnePassword,
           NoSilentOverwrite, GivenPassword, Renewed, Known, Exists
<1> QED
  BY <1>2, <1>3, <1>4, <1>5, <1>6, <1>7, <1>8, <1>9
     DEF Next, Create, Renew, Revoke, Idle

LEMMA Inductive == ASSUME ~KeyReuse PROVE Spec => []IInv
BY IInvInit, IInvStep, PTL DEF Spec

(* A lease key is handed to one caller at most, for any number of racing    *)
(* creates, replays, renewals and deletions.                               *)
THEOREM OnePasswordHolds == ASSUME ~KeyReuse PROVE Spec => []OnePassword
<1>1. IInv => OnePassword
  BY DEF IInv
<1> QED BY <1>1, Inductive, PTL

(* No renewal replaces the identity of the row it lands on. *)
THEOREM RowKeepsItsPasswordHolds ==
    ASSUME ~KeyReuse PROVE Spec => []RowKeepsItsPassword
<1>1. IInv => RowKeepsItsPassword
  BY DEF IInv, Provenance
<1> QED BY <1>1, Inductive, PTL

(* The generation is an optimistic lock: no renewal that was answered ok is *)
(* overwritten by one that had not read it.                                *)
THEOREM NoSilentOverwriteHolds ==
    ASSUME ~KeyReuse PROVE Spec => []NoSilentOverwrite
<1>1. IInv => NoSilentOverwrite
  BY DEF IInv
<1> QED BY <1>1, Inductive, PTL

(* A revoke that answers ok leaves a revoked row, although the two          *)
(* statements of the repeated revoke are not one transaction.              *)
THEOREM RevokeAnswerCorrect ==
    ASSUME ~KeyReuse PROVE Spec => RevokeAnswerHolds
<1> DEFINE Ok == \A r \in Request :
             Kind[r] = "revoke" /\ result[r] = "none" /\ result'[r] = "ok"
                 => row'[target[r]] # NoRow /\ row'[target[r]].revoked
<1>1. IInv /\ [Next]_storeVars => Ok
  <2> SUFFICES ASSUME IInv, [Next]_storeVars, NEW r \in Request,
                      Kind[r] = "revoke", result[r] = "none", result'[r] = "ok"
               PROVE  row'[target[r]] # NoRow /\ row'[target[r]].revoked
    OBVIOUS
  <2> USE DEF IInv, TypeInv
  <2>1. ASSUME NEW q \in Request, Idle(q) PROVE FALSE
    BY <2>1, IdleStep
  <2>2. ASSUME NEW q \in Request, CreateInsert(q) \/ CreateReplay(q) \/ RenewWrite(q)
        PROVE  FALSE
    BY <2>2 DEF CreateInsert, CreateReplay, RenewWrite, AnswerWrite, Answer,
                Roles, TypeOK
  <2>3. ASSUME NEW q \in Request, RevokeUpdate(q)
        PROVE  row'[target[r]] # NoRow /\ row'[target[r]].revoked
    <3>1. q = r
      BY <2>3 DEF RevokeUpdate, AnswerWrite, Answer, TypeOK
    <3>2. row[target[r]] \in Row
      BY <2>3, <3>1 DEF RevokeUpdate, Exists, TypeOK
    <3>3. row'[target[r]] = Dead(row[target[r]])
      BY <2>3, <3>1 DEF RevokeUpdate, TypeOK
    <3> QED BY <3>2, <3>3, DeadIsRow, DeadFields, StoreAssumption
  <2>4. ASSUME NEW q \in Request, RevokeConfirm(q)
        PROVE  row'[target[r]] # NoRow /\ row'[target[r]].revoked
    <3>1. q = r
      BY <2>4 DEF RevokeConfirm, Answer, TypeOK
    <3>2. Exists(target[r]) /\ pc[r] = "confirming" /\ row' = row
      BY <2>4, <3>1 DEF RevokeConfirm, Answer, TypeOK
    <3> QED BY <3>2 DEF ConfirmsRevoked, RetiredIsGone, Exists
  <2>5. CASE DeleteExpiredLeasesBatch \/ Tick \/ UNCHANGED storeVars
    BY <2>5 DEF DeleteExpiredLeasesBatch, Tick, storeVars
  <2> QED
    BY <2>1, <2>2, <2>3, <2>4, <2>5 DEF Next, Create, Renew, Revoke, Idle
<1> QED BY <1>1, Inductive, PTL DEF Spec, RevokeAnswerHolds

-----------------------------------------------------------------------------
(***************************************************************************)
(* Every store implements the atomic lease register, for any number of     *)
(* leases, requests and ticks, as long as no caller reuses an idempotency  *)
(* key whose row has been deleted.                                         *)
(*                                                                         *)
(* The argument needs little of what a row looks like: nobody is about to  *)
(* write an image that outlives the longest lifetime, and a renewal that   *)
(* has read a row never meets another row of the same lease.               *)
(***************************************************************************)

(* What is about to be written is alive and keeps to the lifetimes of the  *)
(* policies; a create writes a first generation.                           *)
DrawnUp ==
    \A r \in Request : pc[r] \in {"creating", "renewing"} =>
        /\ seen[r].expires \in 1 .. now + Longest
        /\ ~seen[r].revoked
        /\ pc[r] = "creating" => seen[r].generation = 1 /\ seen[r].hash = r

(* A renewal holds the password of the row that is there, if one is. *)
SameHolder ==
    \A r \in Request : pc[r] = "renewing" =>
        /\ Known(target[r])
        /\ Exists(target[r]) => row[target[r]].hash = seen[r].hash

(* The key table knows every row, and nothing is deleted. *)
KeysAreKept ==
    driver # "mysql" => retired = {} /\ \A l \in Lease : Exists(l) => l \in known

RInv ==
    /\ DriverTypeOK /\ Carries
    /\ DrawnUp /\ SameHolder /\ RetiredIsGone /\ KeysAreKept

-----------------------------------------------------------------------------
(* What a step may do                                                       *)

(* It draws up no new image. *)
NoNewImage ==
    \A r \in Request : pc'[r] \in {"creating", "renewing"} =>
        pc'[r] = pc[r] /\ seen'[r] = seen[r]

(* It draws up one, for a new lease or of a live row, and changes no row. *)
Draws(r) ==
    /\ \A q \in Request : q # r => pc'[q] = pc[q] /\ seen'[q] = seen[q]
    /\ \E ttl \in TTL :
          \/ pc'[r] = "creating" /\ seen'[r] = Fresh(r, ttl)
          \/ /\ pc'[r] = "renewing" /\ Live(row[target[r]])
             /\ seen'[r] = Renewal(row[target[r]], ttl)
    /\ UNCHANGED <<now, row, retired, known>>

(* It gives a lease its first row. *)
Inserts(r) ==
    /\ pc[r] = "creating" /\ ~Exists(target[r]) /\ target[r] \notin retired
    /\ row' = [row EXCEPT ![target[r]] = seen[r]]
    /\ driver # "mysql" => known' = known \union {target[r]}
    /\ UNCHANGED <<now, retired>>

(* It prolongs a row; all columns but two are as they were. *)
Prolongs(r) ==
    /\ pc[r] = "renewing" /\ Matches(row[target[r]], seen[r])
    /\ row' = [row EXCEPT ![target[r]] = Overwrite(row[target[r]], seen[r])] \/
       row' = [row EXCEPT ![target[r]] = seen[r]]
    /\ UNCHANGED <<now, retired, known>>

(* It revokes a row. *)
Kills(r) ==
    /\ Exists(target[r]) /\ ~row[target[r]].revoked
    /\ row' = [row EXCEPT ![target[r]] = Dead(row[target[r]])]
    /\ UNCHANGED <<now, retired, known>>

(* It deletes expired rows. *)
Deletes ==
    /\ driver = "mysql"
    /\ \E batch \in SUBSET Deletable :
          /\ row' = [l \in Lease |-> IF l \in batch THEN NoRow ELSE row[l]]
          /\ retired' = retired \union batch
    /\ UNCHANGED <<now, known>>

(* Time passes. *)
Passes == now' = now + 1 /\ UNCHANGED <<row, retired, known>>

Rests == UNCHANGED <<now, row, retired, known>>

Effect ==
    /\ UNCHANGED <<target, driver>>
    /\ \/ \E r \in Request : Draws(r)
       \/ /\ NoNewImage
          /\ \/ \E r \in Request : Inserts(r) \/ Prolongs(r) \/ Kills(r)
             \/ Deletes \/ Passes \/ Rests

-----------------------------------------------------------------------------
(* The steps of the memory store leave well-typed states. *)
LEMMA MemoryTypes ==
    ASSUME RInv, NEW r \in Request, MemoryCreate(r) \/ MemoryUpdate(r) \/ MemoryRevoke(r),
           known' \in SUBSET Lease
    PROVE  TypeOK'
<1> USE DEF RInv, DriverTypeOK
<1>1. CASE MemoryCreate(r)
  BY <1>1 DEF MemoryCreate, AnswerWrite, Answer, TypeOK, Carries
<1>2. CASE MemoryUpdate(r)
  <2>1. MemoryRefusal(row[target[r]], seen[r]) \in {"notFound", "stale", "revoked", "expired"}
    BY DEF MemoryRefusal
  <2>2. row' \in [Lease -> Row \union {NoRow}]
    BY <1>2 DEF MemoryUpdate, TypeOK, Carries
  <2>3. \E a \in {"ok", "none", "notFound", "stale", "revoked", "expired"} : Answer(r, a)
    BY <1>2, <2>1 DEF MemoryUpdate, AnswerWrite
  <2> QED
    BY <1>2, <2>2, <2>3 DEF MemoryUpdate, MemoryStep, Answer, TypeOK
<1>3. CASE MemoryRevoke(r)
  <2>1. Dead(row[target[r]]) \in Row
    BY <1>3, DeadIsRow DEF MemoryRevoke, Exists, TypeOK
  <2>2. row' \in [Lease -> Row \union {NoRow}]
    BY <1>3, <2>1 DEF MemoryRevoke, TypeOK
  <2>3. Answer(r, "ok") \/ Answer(r, "none")
    BY <1>3 DEF MemoryRevoke, AnswerWrite
  <2> QED BY <1>3, <2>2, <2>3 DEF MemoryRevoke, Answer, TypeOK
<1> QED BY <1>1, <1>2, <1>3

(* With the keys in step with the rows, the transaction of SQLite is the   *)
(* INSERT of MySQL.                                                        *)
LEMMA SQLiteInsertIsInsert ==
    ASSUME RInv, driver = "sqlite", NEW r \in Request
    PROVE  /\ SQLiteInsert(r) => CreateInsert(r)
           /\ SQLiteKnown(r) => Goto(r, "replaying") /\ UNCHANGED <<now, row, retired, target, seen>>
BY DEF RInv, KeysAreKept, SQLiteInsert, SQLiteKnown, CreateInsert, DriverTypeOK, TypeOK

LEMMA DriverTypes ==
    ASSUME RInv, [DriverNext]_driverVars
    PROVE  DriverTypeOK'
<1> USE DEF RInv, DriverTypeOK
<1>1. ASSUME Next, known' = known, driver' = driver PROVE DriverTypeOK'
  BY <1>1, TypeStep DEF TypeInv
<1>2. ASSUME driver = "sqlite", driver' = driver, NEW r \in Request, SQLiteStep(r)
      PROVE  DriverTypeOK'
  <2>1. CASE SQLiteInsert(r)
    <3>1. Next
      BY <1>2, <2>1, SQLiteInsertIsInsert DEF Next, Create
    <3> QED BY <1>2, <2>1, <3>1, TypeStep DEF TypeInv, SQLiteInsert, TypeOK
  <2>2. CASE SQLiteKnown(r)
    BY <1>2, <2>2 DEF SQLiteKnown, Goto, TypeOK
  <2>3. CASE (CreateBegin(r) \/ CreateReplay(r) \/ Renew(r) \/ Revoke(r) \/ Abandon(r))
             /\ known' = known
    <3>1. Next
      BY <2>3 DEF Next, Create
    <3> QED BY <1>1, <1>2, <2>3, <3>1
  <2> QED BY <1>2, <2>1, <2>2, <2>3 DEF SQLiteStep, SQLiteCreate
<1>3. ASSUME driver = "memory", driver' = driver, NEW r \in Request, MemoryStep(r)
      PROVE  DriverTypeOK'
  <2>1. CASE MemoryCreate(r) \/ MemoryUpdate(r) \/ MemoryRevoke(r)
    <3>1. known' \in SUBSET Lease
      BY <1>3, <2>1 DEF MemoryStep, MemoryCreate, CreateBegin, RenewRead, RenewRefused,
         RenewNoPolicy, Start, MemoryUpdate, MemoryRevoke, TypeOK
    <3> QED BY <1>3, <2>1, <3>1, MemoryTypes
  <2>2. CASE (CreateBegin(r) \/ RenewRead(r) \/ RenewRefused(r) \/ RenewNoPolicy(r))
             /\ known' = known
    <3>1. Next
      BY <2>2 DEF Next, Create, Renew
    <3> QED BY <1>1, <1>3, <2>2, <3>1
  <2> QED BY <1>3, <2>1, <2>2 DEF MemoryStep
<1>4. CASE UNCHANGED driverVars
  BY <1>4 DEF driverVars, storeVars, TypeOK
<1>5. CASE Tick /\ known' = known /\ driver' = driver
  BY <1>1, <1>5 DEF Next
<1> QED BY <1>1, <1>2, <1>3, <1>4, <1>5 DEF DriverNext

-----------------------------------------------------------------------------
(* Every step has one of the effects                                       *)

LEMMA StoreEffect ==
    ASSUME RInv, ~KeyReuse, Next, driver = "mysql", UNCHANGED <<driver, known>>
    PROVE  Effect
<1> USE DEF RInv, DriverTypeOK
<1>1. ASSUME NEW r \in Request, CreateBegin(r) \/ RenewRead(r) PROVE Effect
  <2>1. Draws(r)
    BY <1>1 DEF Draws, CreateBegin, RenewRead, Start, Goto, TypeOK
  <2> QED BY <1>1, <2>1 DEF Effect, CreateBegin, RenewRead
<1>2. ASSUME NEW r \in Request, CreateInsert(r) PROVE Effect
  <2>1. Inserts(r)
    BY <1>2 DEF Inserts, CreateInsert
  <2>2. NoNewImage /\ target' = target
    BY <1>2 DEF NoNewImage, CreateInsert, AnswerWrite, Answer, TypeOK
  <2> QED BY <2>1, <2>2 DEF Effect
<1>3. ASSUME NEW r \in Request, RenewWrite(r) PROVE Effect
  <2>1. Prolongs(r)
    BY <1>3 DEF Prolongs, RenewWrite
  <2>2. NoNewImage /\ target' = target
    BY <1>3 DEF NoNewImage, RenewWrite, AnswerWrite, Answer, TypeOK
  <2> QED BY <2>1, <2>2 DEF Effect
<1>4. ASSUME NEW r \in Request, RevokeUpdate(r) PROVE Effect
  <2>1. Kills(r)
    BY <1>4 DEF Kills, RevokeUpdate
  <2>2. NoNewImage /\ target' = target
    BY <1>4 DEF NoNewImage, RevokeUpdate, AnswerWrite, Answer, TypeOK
  <2> QED BY <2>1, <2>2 DEF Effect
<1>5. ASSUME NEW r \in Request,
             \/ CreateDuplicate(r) \/ CreateReplay(r) \/ RenewRefused(r) \/ RenewNoPolicy(r)
             \/ RenewConflict(r) \/ RenewClassify(r) \/ RevokeMiss(r) \/ RevokeConfirm(r)
             \/ Abandon(r)
      PROVE  Effect
  <2>1. Rests
    BY <1>5 DEF Rests, CreateDuplicate, CreateReplay, RenewRefused, RenewNoPolicy,
       RenewConflict, RenewClassify, RevokeMiss, RevokeConfirm, Abandon
  <2>2. NoNewImage /\ target' = target
    BY <1>5 DEF NoNewImage, CreateDuplicate, CreateReplay, RenewRefused, RenewNoPolicy,
       RenewConflict, RenewClassify, RevokeMiss, RevokeConfirm, Abandon, Goto, Answer, TypeOK
  <2> QED BY <2>1, <2>2 DEF Effect
<1>6. CASE DeleteExpiredLeasesBatch
  BY <1>6 DEF DeleteExpiredLeasesBatch, Effect, Deletes, NoNewImage
<1>7. CASE Tick
  BY <1>7 DEF Tick, Effect, Passes, NoNewImage
<1> QED
  BY <1>1, <1>2, <1>3, <1>4, <1>5, <1>6, <1>7 DEF Next, Create, Renew, Revoke

LEMMA SQLiteEffect ==
    ASSUME RInv, driver = "sqlite", driver' = driver, NEW r \in Request, SQLiteStep(r)
    PROVE  Effect
<1> USE DEF RInv, DriverTypeOK
<1>1. CASE SQLiteInsert(r)
  <2>1. CreateInsert(r)
    BY <1>1, SQLiteInsertIsInsert
  <2>2. Inserts(r)
    BY <1>1, <2>1 DEF Inserts, SQLiteInsert, CreateInsert, KeysAreKept
  <2>3. NoNewImage /\ target' = target
    BY <2>1 DEF NoNewImage, CreateInsert, AnswerWrite, Answer, TypeOK
  <2> QED BY <2>2, <2>3 DEF Effect
<1>2. CASE SQLiteKnown(r)
  BY <1>2 DEF SQLiteKnown, Effect, Rests, NoNewImage, Goto, TypeOK
<1>3. CASE known' = known /\ (CreateBegin(r) \/ RenewRead(r))
  <2>1. Draws(r)
    BY <1>3 DEF Draws, CreateBegin, RenewRead, Start, Goto, TypeOK
  <2> QED BY <1>3, <2>1 DEF Effect, CreateBegin, RenewRead
<1>4. CASE known' = known /\ RenewWrite(r)
  <2>1. Prolongs(r)
    BY <1>4 DEF Prolongs, RenewWrite
  <2>2. NoNewImage /\ target' = target
    BY <1>4 DEF NoNewImage, RenewWrite, AnswerWrite, Answer, TypeOK
  <2> QED BY <2>1, <2>2 DEF Effect
<1>5. CASE known' = known /\ RevokeUpdate(r)
  <2>1. Kills(r)
    BY <1>5 DEF Kills, RevokeUpdate
  <2>2. NoNewImage /\ target' = target
    BY <1>5 DEF NoNewImage, RevokeUpdate, AnswerWrite, Answer, TypeOK
  <2> QED BY <2>1, <2>2 DEF Effect
<1>6. CASE known' = known /\ (\/ CreateReplay(r) \/ RenewRefused(r) \/ RenewNoPolicy(r)
                              \/ RenewConflict(r) \/ RenewClassify(r) \/ RevokeMiss(r)
                              \/ RevokeConfirm(r) \/ Abandon(r))
  <2>1. Rests
    BY <1>6 DEF Rests, CreateReplay, RenewRefused, RenewNoPolicy,
       RenewConflict, RenewClassify, RevokeMiss, RevokeConfirm, Abandon
  <2>2. NoNewImage /\ target' = target
    BY <1>6 DEF NoNewImage, CreateReplay, RenewRefused, RenewNoPolicy,
       RenewConflict, RenewClassify, RevokeMiss, RevokeConfirm, Abandon, Goto, Answer, TypeOK
  <2> QED BY <2>1, <2>2 DEF Effect
<1> QED
  BY <1>1, <1>2, <1>3, <1>4, <1>5, <1>6 DEF SQLiteStep, SQLiteCreate, Renew, Revoke

LEMMA MemoryEffect ==
    ASSUME RInv, driver = "memory", driver' = driver, NEW r \in Request, MemoryStep(r)
    PROVE  Effect
<1> USE DEF RInv, DriverTypeOK
<1>1. CASE MemoryCreate(r)
  <2>1. NoNewImage /\ target' = target
    BY <1>1 DEF NoNewImage, MemoryCreate, AnswerWrite, Answer, TypeOK
  <2>2. CASE target[r] \in known
    BY <1>1, <2>1, <2>2 DEF MemoryCreate, Effect, Rests
  <2>3. CASE target[r] \notin known
    <3>1. Inserts(r)
      BY <1>1, <2>3 DEF MemoryCreate, Inserts, KeysAreKept, TypeOK
    <3> QED BY <2>1, <3>1 DEF Effect
  <2> QED BY <2>2, <2>3
<1>2. CASE known' = known /\ (CreateBegin(r) \/ RenewRead(r))
  <2>1. Draws(r)
    BY <1>2 DEF Draws, CreateBegin, RenewRead, Start, Goto, TypeOK
  <2> QED BY <1>2, <2>1 DEF Effect, CreateBegin, RenewRead
<1>3. CASE known' = known /\ MemoryUpdate(r)
  <2>1. NoNewImage /\ target' = target
    BY <1>3 DEF NoNewImage, MemoryUpdate, AnswerWrite, Answer, TypeOK
  <2>2. CASE Matches(row[target[r]], seen[r])
    <3>1. Prolongs(r)
      BY <1>3, <2>2 DEF MemoryUpdate, Prolongs
    <3> QED BY <2>1, <3>1 DEF Effect
  <2>3. CASE ~Matches(row[target[r]], seen[r])
    BY <1>3, <2>1, <2>3 DEF MemoryUpdate, Effect, Rests
  <2> QED BY <2>2, <2>3
<1>4. CASE known' = known /\ MemoryRevoke(r)
  <2>1. NoNewImage /\ target' = target
    BY <1>4 DEF NoNewImage, MemoryRevoke, AnswerWrite, Answer, TypeOK
  <2>2. Rests \/ Kills(r)
    BY <1>4 DEF MemoryRevoke, Rests, Kills
  <2> QED BY <2>1, <2>2 DEF Effect
<1>5. CASE known' = known /\ (RenewRefused(r) \/ RenewNoPolicy(r))
  BY <1>5 DEF RenewRefused, RenewNoPolicy, Effect, Rests, NoNewImage, Answer, TypeOK
<1> QED
  BY <1>1, <1>2, <1>3, <1>4, <1>5 DEF MemoryStep

LEMMA EveryEffect ==
    ASSUME RInv, ~KeyReuse, [DriverNext]_driverVars
    PROVE  Effect
<1>1. CASE Tick /\ UNCHANGED <<known, driver>>
  BY <1>1 DEF Tick, Effect, Passes, NoNewImage
<1>2. CASE UNCHANGED driverVars
  BY <1>2 DEF driverVars, storeVars, Effect, Rests, NoNewImage
<1> QED
  BY <1>1, <1>2, StoreEffect, SQLiteEffect, MemoryEffect DEF DriverNext

-----------------------------------------------------------------------------
(* The invariant                                                           *)

LEMMA RInvInit == DriverInit => RInv
BY StoreAssumption
   DEF DriverInit, Init, RInv, DriverTypeOK, TypeOK, Time, Carries, DrawnUp, SameHolder,
       RetiredIsGone, KeysAreKept, Exists

(* A new image is a row that keeps to the lifetimes. *)
LEMMA DrawsPreserves ==
    ASSUME RInv, DriverTypeOK', UNCHANGED <<target, driver>>, NEW r \in Request, Draws(r)
    PROVE  RInv'
<1> USE DEF RInv, DriverTypeOK
<1>1. PICK ttl \in TTL :
          \/ pc'[r] = "creating" /\ seen'[r] = Fresh(r, ttl)
          \/ /\ pc'[r] = "renewing" /\ Live(row[target[r]])
             /\ seen'[r] = Renewal(row[target[r]], ttl)
  BY DEF Draws
<1>2. ttl \in Nat \ {0} /\ ttl <= Longest /\ now \in Nat /\ Longest \in Nat
  BY StoreAssumption, DriverAssumption DEF TypeOK, Time
<1>3. CASE pc'[r] = "creating" /\ seen'[r] = Fresh(r, ttl)
  <2>1. Fresh(r, ttl) \in Row
    BY FreshIsRow
  <2>2. Carries'
    BY <1>3, <2>1, StoreAssumption DEF Carries, Draws
  <2>3. DrawnUp'
    BY <1>2, <1>3 DEF DrawnUp, Draws, Fresh
  <2>4. SameHolder' /\ RetiredIsGone' /\ KeysAreKept'
    BY <1>3 DEF SameHolder, RetiredIsGone, KeysAreKept, Known, Exists, Draws
  <2> QED BY <2>2, <2>3, <2>4
<1>4. CASE pc'[r] = "renewing" /\ Live(row[target[r]]) /\ seen'[r] = Renewal(row[target[r]], ttl)
  <2> DEFINE cur == row[target[r]]
  <2>1. cur \in Row /\ ~cur.revoked /\ Exists(target[r])
    BY <1>4 DEF Live, Exists, TypeOK
  <2>2. Renewal(cur, ttl) \in Row
    BY <1>2, <2>1, RenewalIsRow
  <2>3. /\ Renewal(cur, ttl).hash = cur.hash
        /\ ~Renewal(cur, ttl).revoked
        /\ Renewal(cur, ttl).expires = now + ttl
    BY <2>1 DEF Renewal, Row
  <2>4. Carries'
    BY <1>4, <2>2, StoreAssumption DEF Carries, Draws
  <2>5. DrawnUp'
    BY <1>2, <1>4, <2>3 DEF DrawnUp, Draws
  <2>6. SameHolder'
    BY <1>4, <2>1, <2>3 DEF SameHolder, Known, Exists, Draws
  <2>7. RetiredIsGone' /\ KeysAreKept'
    BY DEF RetiredIsGone, KeysAreKept, Exists, Draws
  <2> QED BY <2>4, <2>5, <2>6, <2>7
<1> QED BY <1>1, <1>3, <1>4

(* The images that are about to be written are what they were. *)
LEMMA ImagesStay ==
    ASSUME RInv, NoNewImage, now' \in Nat, now <= now'
    PROVE  Carries' /\ DrawnUp'
<1>1. now \in Nat /\ Longest \in Nat
  BY DriverAssumption DEF RInv, DriverTypeOK, TypeOK, Time
<1> QED BY <1>1 DEF RInv, NoNewImage, Carries, DrawnUp

LEMMA RInvStep ==
    ASSUME RInv, ~KeyReuse, [DriverNext]_driverVars
    PROVE  RInv'
<1> USE DEF RInv, DriverTypeOK
<1>1. DriverTypeOK'
  BY DriverTypes
<1>2. Effect
  BY EveryEffect
<1>3. now \in Nat
  BY DEF TypeOK, Time
<1>4. CASE \E r \in Request : Draws(r)
  BY <1>1, <1>2, <1>4, DrawsPreserves DEF Effect
<1>5. ASSUME NoNewImage, NEW r \in Request, Inserts(r) PROVE RInv'
  <2>1. Carries' /\ DrawnUp'
    BY <1>3, <1>5, ImagesStay DEF Inserts
  <2>2. target[r] \in Lease /\ seen[r] \in Row
    BY <1>5 DEF Inserts, Carries, TypeOK
  <2>3. \A l \in Lease : l # target[r] => row'[l] = row[l]
    BY <1>5 DEF Inserts, TypeOK
  <2>4. RetiredIsGone'
    BY <1>5, <2>3 DEF Inserts, RetiredIsGone, Exists, TypeOK
  <2>5. SameHolder'
    BY <1>2, <1>5, <2>3 DEF Inserts, SameHolder, Known, Exists, NoNewImage, Effect, TypeOK
  <2>6. KeysAreKept'
    BY <1>2, <1>5, <2>3 DEF Inserts, KeysAreKept, Exists, Effect
  <2> QED BY <1>1, <2>1, <2>4, <2>5, <2>6
<1>6. ASSUME NoNewImage, NEW r \in Request, Prolongs(r) \/ Kills(r) PROVE RInv'
  <2>1. Carries' /\ DrawnUp'
    BY <1>3, <1>6, ImagesStay DEF Prolongs, Kills
  <2> DEFINE l == target[r]
  <2>2. l \in Lease /\ row[l] \in Row /\ Exists(l)
    BY <1>6 DEF Prolongs, Kills, Matches, Live, Exists, TypeOK
  <2>3. PICK x \in Row : row' = [row EXCEPT ![l] = x] /\ x.hash = row[l].hash
    <3>1. CASE Kills(r)
      BY <2>2, <3>1, DeadIsRow, DeadFields DEF Kills
    <3>2. CASE Prolongs(r)
      <4>1. seen[r] \in Row /\ seen[r].hash = row[l].hash
        BY <2>2, <3>2 DEF Prolongs, Carries, SameHolder, TypeOK
      <4>2. Overwrite(row[l], seen[r]) \in Row /\ Overwrite(row[l], seen[r]).hash = row[l].hash
        BY <2>2, <4>1, OverwriteIsRow, OverwriteFields
      <4>3. CASE row' = [row EXCEPT ![l] = Overwrite(row[l], seen[r])]
        BY <4>2, <4>3
      <4>4. CASE row' = [row EXCEPT ![l] = seen[r]]
        BY <4>1, <4>4
      <4> QED BY <3>2, <4>3, <4>4 DEF Prolongs
    <3> QED BY <1>6, <3>1, <3>2
  <2>4. \A k \in Lease : Exists(k)' <=> Exists(k)
    BY <2>2, <2>3, StoreAssumption DEF Exists, TypeOK
  <2>5. \A k \in Lease : Exists(k) => row'[k].hash = row[k].hash
    BY <2>3 DEF TypeOK
  <2>6. UNCHANGED <<retired, known, target, driver>>
    BY <1>2, <1>6 DEF Prolongs, Kills, Effect
  <2> HIDE DEF l
  <2>7. SameHolder'
    <3> SUFFICES ASSUME NEW q \in Request, pc'[q] = "renewing"
                 PROVE  Known(target[q])' /\ (Exists(target[q])' => row'[target[q]].hash = seen'[q].hash)
      BY <2>6 DEF SameHolder
    <3>1. pc[q] = "renewing" /\ seen'[q] = seen[q] /\ target[q] \in Lease
      BY <1>6 DEF NoNewImage, TypeOK
    <3> QED BY <2>4, <2>5, <2>6, <3>1 DEF SameHolder, Known
  <2>8. RetiredIsGone'
    BY <2>4, <2>6 DEF RetiredIsGone, TypeOK
  <2>9. KeysAreKept'
    BY <2>4, <2>6 DEF KeysAreKept
  <2> QED BY <1>1, <2>1, <2>7, <2>8, <2>9
<1>7. ASSUME NoNewImage, Deletes PROVE RInv'
  <2>1. Carries' /\ DrawnUp'
    BY <1>3, <1>7, ImagesStay DEF Deletes
  <2>2. PICK batch \in SUBSET Deletable :
            /\ row' = [l \in Lease |-> IF l \in batch THEN NoRow ELSE row[l]]
            /\ retired' = retired \union batch
    BY <1>7 DEF Deletes
  <2>3. SameHolder'
    BY <1>2, <1>7, <2>2 DEF SameHolder, Known, Exists, NoNewImage, Effect, TypeOK
  <2>4. RetiredIsGone'
    BY <2>2 DEF RetiredIsGone, Exists, TypeOK, Deletable
  <2>5. KeysAreKept'
    BY <1>2, <1>7 DEF KeysAreKept, Deletes, Effect
  <2> QED BY <1>1, <2>1, <2>3, <2>4, <2>5
<1>8. ASSUME NoNewImage, Passes \/ Rests PROVE RInv'
  <2>1. Carries' /\ DrawnUp'
    BY <1>3, <1>8, ImagesStay DEF Passes, Rests
  <2>2. SameHolder' /\ RetiredIsGone' /\ KeysAreKept'
    BY <1>2, <1>8
       DEF Passes, Rests, SameHolder, RetiredIsGone, KeysAreKept, Known, Exists, NoNewImage, Effect
  <2> QED BY <1>1, <2>1, <2>2
<1> QED BY <1>2, <1>4, <1>5, <1>6, <1>7, <1>8 DEF Effect

-----------------------------------------------------------------------------
(* The register takes the same step, or none                               *)

Shown == [l \in Lease |-> IF Exists(l) THEN Grantable(row[l]) ELSE NoRow]

LEMMA InitSimulates == DriverInit => Register!RegisterInit
BY DEF DriverInit, Init, Register!RegisterInit, Exists

LEMMA GrantableIsLease ==
    ASSUME NEW x \in Row
    PROVE  Grantable(x) # NoRow
<1>1. Grantable(x) \in [generation : Nat \ {0}, expires : Nat, revoked : BOOLEAN, holder : Request]
  BY DEF Grantable, Row
<1> QED BY <1>1, DriverAssumption

(* What becomes of the register when one row changes. *)
LEMMA OneRowShown ==
    ASSUME TypeOK, NEW l \in Lease, NEW x \in Row, row' = [row EXCEPT ![l] = x]
    PROVE  Shown' = [Shown EXCEPT ![l] = Grantable(x)]
<1>1. x # NoRow
  BY StoreAssumption
<1>2. row'[l] = x /\ \A k \in Lease : k # l => row'[k] = row[k]
  BY DEF TypeOK
<1>3. Shown' = [k \in Lease |-> IF row'[k] # NoRow THEN Grantable(row'[k]) ELSE NoRow]
  BY DEF Shown, Exists, Grantable
<1>4. Shown = [k \in Lease |-> IF row[k] # NoRow THEN Grantable(row[k]) ELSE NoRow]
  BY DEF Shown, Exists
<1> QED BY <1>1, <1>2, <1>3, <1>4

(* A first row of a lease grants it. *)
LEMMA InsertGrants ==
    ASSUME RInv, NEW r \in Request, Inserts(r)
    PROVE  Register!RegisterNext
<1> DEFINE l == target[r]
           until == seen[r].expires
<1> USE DEF RInv, DriverTypeOK
<1>1. l \in Lease /\ seen[r] \in Row /\ until \in 1 .. now + Longest
  BY DEF Inserts, Carries, DrawnUp, TypeOK
<1>2. Grantable(seen[r]) = [generation |-> 1, expires |-> until, revoked |-> FALSE, holder |-> r]
  BY <1>1 DEF Inserts, DrawnUp, Grantable, Row
<1>3. Shown' = [Shown EXCEPT ![l] = Grantable(seen[r])]
  BY <1>1, OneRowShown DEF Inserts
<1>4. Shown[l] = NoRow /\ l \notin retired /\ UNCHANGED <<now, retired>>
  BY <1>1 DEF Shown, Inserts
<1> HIDE DEF l, until
<1>5. Register!Grant(l, r, until)
  BY <1>1, <1>2, <1>3, <1>4 DEF Register!Grant, Shown
<1> QED BY <1>1, <1>5 DEF Register!RegisterNext

(* Both stores keep every column but two: the lease is prolonged. *)
LEMMA ProlongProlongs ==
    ASSUME RInv, NEW r \in Request, Prolongs(r)
    PROVE  Register!RegisterNext
<1> DEFINE l == target[r]
           until == seen[r].expires
<1> USE DEF RInv, DriverTypeOK
<1>1. /\ l \in Lease /\ seen[r] \in Row /\ row[l] \in Row /\ Exists(l)
      /\ until \in 1 .. now + Longest
  BY DEF Prolongs, Matches, Live, Exists, Carries, DrawnUp, TypeOK
<1>2. /\ ~row[l].revoked /\ now < row[l].expires
      /\ seen[r].generation = row[l].generation + 1
      /\ ~seen[r].revoked /\ seen[r].hash = row[l].hash
  <2>1. seen[r].generation \in Nat /\ row[l].generation \in Nat /\ row[l].expires \in Nat
    BY <1>1 DEF Row
  <2> QED
    BY <1>1, <2>1 DEF Prolongs, Matches, Live, Expired, DrawnUp, SameHolder, TypeOK, Time
<1>3. PICK x \in Row : row' = [row EXCEPT ![l] = x] /\ Grantable(x) = Grantable(seen[r])
  <2>1. Overwrite(row[l], seen[r]) \in Row
        /\ Grantable(Overwrite(row[l], seen[r])) = Grantable(seen[r])
    BY <1>1 DEF Overwrite, Grantable, Row
  <2> QED BY <1>1, <2>1 DEF Prolongs
<1>4. Shown' = [Shown EXCEPT ![l] = Grantable(seen[r])]
  BY <1>1, <1>3, OneRowShown
<1>5. Grantable(seen[r]) = [generation |-> row[l].generation + 1, expires |-> until,
                            revoked |-> FALSE, holder |-> row[l].hash]
  BY <1>1, <1>2 DEF Grantable, Row
<1>6. Shown[l] = [generation |-> row[l].generation, expires |-> row[l].expires,
                  revoked |-> FALSE, holder |-> row[l].hash]
  BY <1>1, <1>2 DEF Shown, Grantable, Row
<1>7. Shown[l] # NoRow
  BY <1>1, GrantableIsLease DEF Shown
<1>8. Register!Alive(Shown[l])
  BY <1>2, <1>6, <1>7 DEF Register!Alive
<1>9. UNCHANGED <<now, retired>>
  BY DEF Prolongs
<1> HIDE DEF l, until
<1>10. Shown' = [Shown EXCEPT ![l] = Register!Prolonged(Shown[l], until)]
  BY <1>4, <1>5, <1>6 DEF Register!Prolonged
<1>11. Register!Prolong(l, until)
  BY <1>1, <1>8, <1>9, <1>10 DEF Register!Prolong, Shown
<1> QED BY <1>1, <1>11 DEF Register!RegisterNext

LEMMA KillRevokes ==
    ASSUME RInv, NEW r \in Request, Kills(r)
    PROVE  Register!RegisterNext
<1> DEFINE l == target[r]
<1> USE DEF RInv, DriverTypeOK
<1>1. l \in Lease /\ row[l] \in Row /\ Exists(l) /\ ~row[l].revoked
  BY DEF Kills, Exists, TypeOK
<1>2. Dead(row[l]) \in Row
      /\ Grantable(Dead(row[l])) = Register!Revoked(Grantable(row[l]))
  <2>1. Dead(row[l]).expires = row[l].expires
    BY <1>1 DEF Dead, Row
  <2> QED
    BY <1>1, <2>1, DeadFields, DeadIsRow DEF Grantable, Register!Revoked
<1>3. Shown' = [Shown EXCEPT ![l] = Grantable(Dead(row[l]))]
  BY <1>1, <1>2, OneRowShown DEF Kills
<1>4. Shown[l] = Grantable(row[l]) /\ Shown[l] # NoRow /\ ~Shown[l].revoked
  BY <1>1, GrantableIsLease DEF Shown, Grantable
<1>5. UNCHANGED <<now, retired>>
  BY DEF Kills
<1> HIDE DEF l
<1>6. Shown' = [Shown EXCEPT ![l] = Register!Revoked(Shown[l])]
  BY <1>1, <1>2, <1>3, <1>4 DEF Shown
<1>7. Register!Revoke(l)
  BY <1>1, <1>4, <1>5, <1>6 DEF Register!Revoke, Shown
<1> QED BY <1>1, <1>7 DEF Register!RegisterNext

LEMMA DeleteForgets ==
    ASSUME RInv, Deletes
    PROVE  Register!RegisterNext
<1> USE DEF RInv, DriverTypeOK
<1>1. PICK batch \in SUBSET Deletable :
          /\ row' = [l \in Lease |-> IF l \in batch THEN NoRow ELSE row[l]]
          /\ retired' = retired \union batch
  BY DEF Deletes
<1>2. \A l \in batch : l \in Lease /\ Exists(l) /\ row[l] \in Row /\ row[l].expires < now
  BY DEF Deletable, Exists, TypeOK
<1>3. \A l \in batch : Shown[l] # NoRow /\ Shown[l].expires < now
  BY <1>2, GrantableIsLease DEF Shown, Grantable
<1>4. Shown' = [l \in Lease |-> IF l \in batch THEN NoRow ELSE Shown[l]]
  <2>1. Shown' = [k \in Lease |-> IF row'[k] # NoRow THEN Grantable(row'[k]) ELSE NoRow]
    BY DEF Shown, Exists, Grantable
  <2>2. Shown = [k \in Lease |-> IF row[k] # NoRow THEN Grantable(row[k]) ELSE NoRow]
    BY DEF Shown, Exists
  <2> QED BY <1>1, <2>1, <2>2
<1>5. Register!Forget(batch)
  BY <1>1, <1>3, <1>4 DEF Register!Forget, Shown, Deletes
<1>6. batch \in SUBSET Lease
  BY <1>2
<1> QED BY <1>5, <1>6 DEF Register!RegisterNext

LEMMA StepSimulates ==
    ASSUME RInv, ~KeyReuse, [DriverNext]_driverVars
    PROVE  [Register!RegisterNext]_Register!registerVars
<1>1. Effect
  BY EveryEffect
<1>2. ASSUME UNCHANGED <<now, row, retired>> PROVE UNCHANGED Register!registerVars
  BY <1>2 DEF Register!registerVars, Exists, Grantable
<1>3. CASE Passes
  BY <1>3 DEF Passes, Register!RegisterNext, Register!Pass, Exists, Grantable
<1> QED
  BY <1>1, <1>2, <1>3, InsertGrants, ProlongProlongs, KillRevokes, DeleteForgets
     DEF Effect, Draws, Rests

(* Every store implements the register: whatever the driver, and however    *)
(* the statements of the requests interleave, the rows behave as if each   *)
(* call were one step.  The unique key on the lease ID (MySQL), the        *)
(* transaction around the create (SQLite), the mutex (memory) and the      *)
(* generation in the WHERE clause of every renewal are what it takes.      *)
THEOREM StoresKeepThePromise ==
    ASSUME ~KeyReuse PROVE DriverSpec => KeepsThePromise
<1>1. DriverInit => RInv /\ Register!RegisterInit
  BY RInvInit, InitSimulates
<1>2. RInv /\ [DriverNext]_driverVars => RInv' /\ [Register!RegisterNext]_Register!registerVars
  BY RInvStep, StepSimulates
<1> QED BY <1>1, <1>2, PTL DEF DriverSpec, KeepsThePromise, Register!RegisterSpec

(* The columns and the key table of every store hold what they may hold. *)
THEOREM DriverTypeCorrect ==
    ASSUME ~KeyReuse PROVE DriverSpec => []DriverTypeOK
<1>1. DriverInit => RInv
  BY RInvInit
<1>2. RInv /\ [DriverNext]_driverVars => RInv'
  BY RInvStep
<1>3. RInv => DriverTypeOK
  BY DEF RInv
<1> QED BY <1>1, <1>2, <1>3, PTL DEF DriverSpec
=============================================================================
