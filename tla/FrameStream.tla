---------------------------- MODULE FrameStream ----------------------------
(***************************************************************************)
(* What is on the wire of a command channel.  A frame (payload size, code, *)
(* data) is named by its place in the order in which frames were handed    *)
(* over; TCP takes it in parts, which the other side can only tell apart   *)
(* by their order.                                                         *)
(***************************************************************************)
EXTENDS Integers, Sequences

CONSTANT Parts  \* the parts of a frame

ASSUME PartsAssumption == Parts \in Nat \ {0}

Part(frame, part) == [frame |-> frame, part |-> part]

PartType == [frame : Nat \ {0}, part : 1 .. Parts]

(* The part that comes after another on an undamaged stream of frames,     *)
(* none of which is missing.                                               *)
Successor(p) == IF p.part < Parts
                THEN Part(p.frame, p.part + 1)
                ELSE Part(p.frame + 1, 1)

(* A stream that starts with a whole frame, where every part is followed   *)
(* by its successor.                                                       *)
InOrder(stream) ==
  /\ stream # <<>> => stream[1].part = 1
  /\ \A i \in 1 .. Len(stream) : i > 1 => stream[i] = Successor(stream[i - 1])

Contains(stream, p) == \E i \in 1 .. Len(stream) : stream[i] = p

=============================================================================
