----------------------------- MODULE MCConsume ------------------------------
(***************************************************************************)
(* Values for model-checking Consume with TLC.                             *)
(***************************************************************************)
EXTENDS Consume, TLC

CONSTANTS m1, m2, w1, w2

Timeout  == [structured |-> TRUE, code |-> 503, message |-> "busy", terminate |-> FALSE]
Invalid  == [structured |-> TRUE, code |-> 422, message |-> "invalid", terminate |-> FALSE]
Fatal    == [structured |-> FALSE, code |-> 0, message |-> "fatal", terminate |-> TRUE]

Mixed == {Timeout, Invalid}
Plain == {Timeout, Fatal}

Twice  == [max |-> 2, backoff |-> <<10>>]
Thrice == [max |-> 3, backoff |-> <<10, 60>>]
Fourth == [max |-> 4, backoff |-> <<10, 60>>]

JustFourth == {Defaults, Fourth}
AllFourth  == [w \in Workers |-> Fourth]

JustTwice  == {Defaults, Twice}
Tuned      == {Defaults, Twice, Thrice}

NoOverride   == [w \in Workers |-> None]
AllTwice     == [w \in Workers |-> Twice]
FirstTwice   == [w \in Workers |-> IF w = w1 THEN Twice ELSE None]

WorkerSymmetry == Permutations(Workers)
=============================================================================
