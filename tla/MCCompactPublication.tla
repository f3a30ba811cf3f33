------------------------ MODULE MCCompactPublication ------------------------
(* The model checker's instances of CompactPublication.                    *)
EXTENDS CompactPublication
=============================================================================
