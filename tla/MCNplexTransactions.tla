------------------------ MODULE MCNplexTransactions ------------------------
(* Small instances of NplexTransactions: the isolation levels of the       *)
(* transactions t1 and t2, and what other clients commit.                  *)
EXTENDS NplexTransactions, TLC

CONSTANTS t1, t2, k1, k2, a, b

OneAny == t1 :> Level
OneRR  == t1 :> {"REPEATABLE_READ"}
TwoRRSER == t1 :> {"REPEATABLE_READ"} @@ t2 :> {"SERIALIZABLE"}

(* The database starts with k1 only.                                       *)
MCInitialData == k1 :> a

Puts(k, d) == [upserts |-> k :> d, deletes |-> {}]
Dels(k) == [upserts |-> EmptyMap, deletes |-> {k}]

(* Others overwrite or delete a key that is there, or create one that is   *)
(* not.                                                                    *)
OtherTwoKeys == {Puts(k1, b), Dels(k1), Puts(k2, a)}
OtherOneKey == {Puts(k1, b), Dels(k1)}
OtherSameData == {Puts(k1, a), Dels(k1)}

ACL(mode, pattern) == [mode |-> mode, pattern |-> pattern]

(* k1 cannot be created, although the second entry would allow it; k2      *)
(* cannot be deleted.                                                      *)
TwoEntries == <<ACL({"READ", "UPDATE", "DELETE"}, {k1}),
                ACL({"CREATE", "READ", "UPDATE"}, {k1, k2})>>
AllOnK1 == <<ACL(CRUD, {k1})>>
NoDelete == <<ACL(CRUD \ {"DELETE"}, {k1})>>
=============================================================================
