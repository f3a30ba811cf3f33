--------------------------- MODULE CacheHandover ----------------------------
(***************************************************************************)
(* What the exchange of signal index caches promises, whatever messages,   *)
(* slots and threads it takes: a publisher uses a cache only while the     *)
(* subscriber holds it, and goes over from one cache to the next without   *)
(* an instant in which it uses a cache that the subscriber does not hold.  *)
(***************************************************************************)
CONSTANT None  \* no cache

VARIABLES
  held,   \* the caches that the subscriber holds
  active  \* the cache that the publisher encodes with, or None

vars == <<held, active>>

Init ==
  /\ held = {}
  /\ active = None

(* The subscriber receives a cache; it may drop others for it, never the   *)
(* one in use.                                                             *)
Learn ==
  /\ \E cache \in held' : \E kept \in SUBSET held : held' = kept \cup {cache}
  /\ active # None => active \in held'
  /\ UNCHANGED active

(* The publisher goes over to a cache that the subscriber holds.           *)
HandOver ==
  /\ active' \in held
  /\ UNCHANGED held

(* The publisher's side of the connection is lost.                         *)
Abandon ==
  /\ active' = None
  /\ UNCHANGED held

Next == Learn \/ HandOver \/ Abandon

Spec == Init /\ [][Next]_vars

=============================================================================
