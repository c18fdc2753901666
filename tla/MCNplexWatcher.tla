--------------------------- MODULE MCNplexWatcher ---------------------------
(* Instances of NplexWatcher: two keys, a text and a binary value, one     *)
(* commit that overwrites and creates and one that deletes.                *)
EXTENDS NplexWatcher, TLC

CONSTANTS k1, k2, text, binary

MCInitialData == k1 :> text
MCCommits == <<(k1 :> binary) @@ (k2 :> text), k1 :> Null>>
=============================================================================
