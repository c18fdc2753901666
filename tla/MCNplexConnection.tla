------------------------- MODULE MCNplexConnection -------------------------
(* An instance of NplexConnection with fields of two bytes.                *)
EXTENDS NplexConnection

(* A good message of one byte of content; one with a wrong checksum; one   *)
(* that says it is longer than it is; one without content.                 *)
Good == [len |-> 7, size |-> 7, crc |-> TRUE, verified |-> TRUE]
Corrupt == [Good EXCEPT !.crc = FALSE]
Overlong == [Good EXCEPT !.len = 8]
Empty == [len |-> 6, size |-> 6, crc |-> TRUE, verified |-> TRUE]
Unverified == [Good EXCEPT !.verified = FALSE]
Frames == {Good, Corrupt, Overlong, Empty, Unverified}
=============================================================================
