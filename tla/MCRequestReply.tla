--------------------------- MODULE MCRequestReply ---------------------------
(***************************************************************************)
(* Values for model-checking RequestReply with TLC.                        *)
(***************************************************************************)
EXTENDS RequestReply, TLC

CONSTANTS c1, c2, i1, i2

(* Create is "orders.create", Get is "orders.{id}" in another file.        *)
Overlap == [m \in Methods |-> IF m = "Create" THEN {"Create", "Get"} ELSE {m}]
Apart   == [m \in Methods |-> {m}]

Mixed   == [i \in Instances |-> IF i = i1 THEN "go" ELSE "ts"]

DefaultGroups == [i \in Instances |-> NoOption]

ToCreate == [c \in Calls |-> "Create"]
Callers  == [c \in Calls |-> IF c = c1 THEN "go" ELSE "ts"]

EitherWay == [c \in Calls |-> {"request", "publish"}]

Empty   == [structured |-> TRUE, code |-> 404, message |-> "", terminate |-> FALSE]
Opaque  == [structured |-> FALSE, code |-> 0, message |-> "boom", terminate |-> FALSE]
Failures == {Empty, Opaque}
OneFailure == {Empty}
=============================================================================
