--------------------------- MODULE MCEepromStore ---------------------------
(* EepromStore with two words of two values and every operation on them. *)
EXTENDS EepromStore

MCOps == Operation
===========================================================================
