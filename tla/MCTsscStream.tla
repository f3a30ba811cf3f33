----------------------------- MODULE MCTsscStream -----------------------------
(* The model checker's instances of TsscStream: the numbers of codes after *)
(* which words are chosen are scaled down, so that they are chosen anew    *)
(* several times, and the measurements differ in every part.               *)
EXTENDS TsscStream

MCID == {0, 1, 300}
MCAdaptAfter == <<0, 5, 2>>
Measured(id, time, quality, value) ==
  [id |-> id, time |-> time, quality |-> quality, value |-> value]
MCMeasurements ==
  {Measured(0, 1, 0, 5), Measured(1, 1, 0, 5), Measured(1, 2, 0, 0),
   Measured(0, 3, 1, 17), Measured(300, 300, 200, 4660), Measured(0, 2, 0, 74565)}
===============================================================================
