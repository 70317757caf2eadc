--------------------------- MODULE MCAuthEncrypt ---------------------------
(* Values for checking AuthEncrypt.                                        *)
EXTENDS AuthEncrypt

MCNounces == {<<1, 1>>, <<1, 2>>}
MCAads == {<< >>, <<Zero>>}
MCPlains == {<< >>, <<Zero>>, [i \in 1 .. 5 |-> {<<"plain", i>>}]}

(* Byte strings parse whatever they are; the other type has one object,    *)
(* the encoding of which is one byte.                                      *)
MCParses(type, bytes) == type = "unit" => bytes = <<Zero>>
=============================================================================
