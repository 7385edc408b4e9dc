----------------------------- MODULE MCAuthCache -----------------------------
(* Small instances of AuthCache: k1 and k2 are keys of two tenants, or of  *)
(* one.                                                                    *)
EXTENDS AuthCache

CONSTANTS k1, k2, t1, t2

MCOneOwner == [k \in Key |-> t1]

MCTwoOwners == [k \in Key |-> IF k = k1 THEN t1 ELSE t2]
=============================================================================
