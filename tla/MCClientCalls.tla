--------------------------- MODULE MCClientCalls ----------------------------
(***************************************************************************)
(* Values for model-checking ClientCalls with TLC.                         *)
(***************************************************************************)
EXTENDS ClientCalls

CONSTANTS c1, c2, shared

AnyKind == [c \in Calls |-> Kind]
Names   == [c \in Calls |-> IF c = c1 THEN "Create" ELSE "Get"]

(* Both callers pass the same slice, whose array has room for one more.    *)
Same    == [c \in Calls |-> [in |-> shared, room |-> 1]]
=============================================================================
