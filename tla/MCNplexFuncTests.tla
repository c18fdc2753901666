-------------------------- MODULE MCNplexFuncTests --------------------------
(* An instance of NplexFuncTests: eight transactions are enough for every  *)
(* test, of which the last two are read-only.                              *)
EXTENDS NplexFuncTests, TLC

CONSTANT spare  \* a key that no test uses

AnyLevel == [t \in Tx |-> Level]

(* The database as an earlier test leaves it.                              *)
Leftover == x :> "4"

(* What another client does meanwhile.                                     *)
OtherKey == {[upserts |-> spare :> "1", deletes |-> {}]}

(* The user of the tests may do everything.                                *)
Everything == <<[mode |-> CRUD, pattern |-> Key]>>
=============================================================================
