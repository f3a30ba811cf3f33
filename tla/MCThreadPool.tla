---------------------------- MODULE MCThreadPool ----------------------------
(* The model checker's instances of ThreadPool: two tasks without a delay  *)
(* and one with a delay.                                                   *)
EXTENDS ThreadPool

=============================================================================
