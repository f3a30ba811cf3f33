--------------------- MODULE MCSignalIndexCacheExchange ---------------------
(* The model checker's instances of SignalIndexCacheExchange: the          *)
(* publisher's threads are interchangeable.                                *)
EXTENDS SignalIndexCacheExchange, TLC

PublisherSymmetry == Permutations(Publishers)

=============================================================================
